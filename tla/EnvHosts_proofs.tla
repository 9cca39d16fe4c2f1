---------------------------- MODULE EnvHosts_proofs ----------------------------
(***************************************************************************)
(* Theorems about EnvHosts, for any hosts, environments and env files.     *)
(***************************************************************************)
EXTENDS EnvHosts, FiniteSetTheorems, SequenceTheorems, TLAPS

-------------------------------------------------------------------------------
(* What loading does to each field of a file *)

Fields == {"retired", "ha", "secret", "users", "imageUser", "tag", "name", "size", "class", "claims",
           "adminSecret", "tlsSecret", "pullSecret", "ports", "node", "tier", "cpuset", "monitorCpuset",
           "cluster", "runtime", "compose", "rootless", "sites", "vpns", "caNames", "probe",
           "malformed", "path"}

LEMMA ResolvedFields ==
  ASSUME NEW f, DOMAIN f = Fields, NEW g, g = ResolveSecretRefs(f)
  PROVE  /\ DOMAIN g = Fields
         /\ \A k \in Fields \ {"secret", "users", "sites"} : g[k] = f[k]
         /\ g.sites = [i \in DOMAIN f.sites |-> ResolveSite(f.sites[i])]
<1>1. DOMAIN g = Fields
  BY DEF ResolveSecretRefs
<1>2. ASSUME NEW k \in Fields \ {"secret", "users", "sites"} PROVE g[k] = f[k]
  BY <1>2 DEF ResolveSecretRefs, Fields
<1>3. g.sites = [i \in DOMAIN f.sites |-> ResolveSite(f.sites[i])]
  BY DEF ResolveSecretRefs, Fields
<1>4. QED
  BY <1>1, <1>2, <1>3

LEMMA DefaultFields ==
  ASSUME NEW f, DOMAIN f = Fields, NEW p, NEW g, g = ApplyDefaults(f, p)
  PROVE  /\ DOMAIN g = Fields
         /\ \A k \in {"name", "users", "sites", "ports", "node", "secret", "tlsSecret"} : g[k] = f[k]
         /\ g.cluster = SetDefaultCmd(f.cluster, <<"kubectl">>)
         /\ g.runtime = SetDefaultCmd(f.runtime, DefaultRuntime(p))
         /\ g.compose = IF p = Docker THEN ComposeOrDerived(f.compose, g.runtime) ELSE f.compose
         /\ g.path = DefaultPaths(f, p)
<1>1. DOMAIN g = Fields
  BY DEF ApplyDefaults
<1>2. ASSUME NEW k \in {"name", "users", "sites", "ports", "node", "secret", "tlsSecret"} PROVE g[k] = f[k]
  BY <1>2 DEF ApplyDefaults, Fields
<1>3. /\ g.cluster = SetDefaultCmd(f.cluster, <<"kubectl">>)
      /\ g.runtime = SetDefaultCmd(f.runtime, DefaultRuntime(p))
  BY DEF ApplyDefaults, Fields
<1>4. g.compose = IF p = Docker THEN ComposeOrDerived(f.compose, g.runtime) ELSE f.compose
  BY DEF ApplyDefaults, Fields
<1>5. g.path = DefaultPaths(f, p)
  BY DEF ApplyDefaults, Fields
<1>6. QED
  BY <1>1, <1>2, <1>3, <1>4, <1>5

LEMMA ExpandedFields ==
  ASSUME NEW f, DOMAIN f = Fields, NEW g, g = ExpandHomePaths(ExpandCommandHomes(f))
  PROVE  /\ DOMAIN g = Fields
         /\ \A k \in Fields \ {"cluster", "runtime", "compose", "sites", "path"} : g[k] = f[k]
         /\ g.cluster = ExpandCommand(f.cluster)
         /\ g.runtime = ExpandCommand(f.runtime)
         /\ g.compose = ExpandCommand(f.compose)
         /\ g.path = [k \in DOMAIN f.path |-> ExpandTilde(f.path[k])]
         /\ g.sites = [i \in DOMAIN f.sites |-> ExpandSite(f.sites[i])]
<1> DEFINE e == ExpandCommandHomes(f)
<1>1. DOMAIN e = Fields /\ \A k \in Fields \ {"cluster", "runtime", "compose", "sites"} : e[k] = f[k]
  BY DEF ExpandCommandHomes, Fields
<1>2. /\ e.cluster = ExpandCommand(f.cluster) /\ e.runtime = ExpandCommand(f.runtime)
      /\ e.compose = ExpandCommand(f.compose)
  BY DEF ExpandCommandHomes, Fields
<1>3. e.sites = [i \in DOMAIN f.sites |-> ExpandSite(f.sites[i])]
  BY DEF ExpandCommandHomes, Fields
<1>4. /\ DOMAIN g = Fields /\ \A k \in Fields \ {"path"} : g[k] = e[k]
      /\ g.path = [k \in DOMAIN e.path |-> ExpandTilde(e.path[k])]
  BY <1>1 DEF ExpandHomePaths, Fields
<1>5. QED
  BY <1>1, <1>2, <1>3, <1>4 DEF Fields

LEMMA RebasedFields ==
  ASSUME NEW f, DOMAIN f = Fields, NEW g, g = RebaseHostPaths(f)
  PROVE  /\ DOMAIN g = Fields
         /\ \A k \in Fields \ {"path"} : g[k] = f[k]
         /\ g.path = [k \in DOMAIN f.path |-> IF k \in NeverRebased THEN f.path[k] ELSE HostPath(f.path[k])]
BY DEF RebaseHostPaths, Fields

LEMMA WrittenFields ==
  ASSUME NEW f \in EnvFiles
  PROVE  /\ DOMAIN f = Fields
         /\ f.sites \in Seq(SiteEntries) /\ f.name \in STRING
         /\ f.cluster \in Seq(STRING) /\ f.runtime \in Seq(STRING) /\ f.compose \in Seq(STRING)
         /\ f.path \in [PathKeys -> WrittenPaths]
         /\ \E P : f.ports \in Seq(P)
<1>1. DOMAIN f = Fields
  BY DEF EnvFiles, Fields
<1>2. QED
  BY <1>1 DEF EnvFiles

LEMMA SiteFields ==
  ASSUME NEW s \in SiteEntries, NEW t, t = ExpandSite(ResolveSite(s))
  PROVE  /\ t.routers = s.routers /\ t.routers \in Seq(STRING)
         /\ DOMAIN t.via.kube = DOMAIN s.via.kube
         /\ \E K : s.via.kube \in Seq(K)
         /\ t.via.kube = [j \in DOMAIN s.via.kube |-> ExpandKube(s.via.kube[j])]
<1>1. /\ DOMAIN s = {"vrn", "routers", "endpoints", "via"} /\ DOMAIN s.via = {"kube", "semp"}
      /\ s.routers \in Seq(STRING) /\ \E K : s.via.kube \in Seq(K)
  BY DEF SiteEntries
<1> DEFINE u == ResolveSite(s)
<1>2. /\ u.routers = s.routers /\ u.via.kube = s.via.kube
      /\ DOMAIN u = DOMAIN s /\ DOMAIN u.via = DOMAIN s.via
  BY <1>1 DEF ResolveSite
<1>3. t.routers = u.routers /\ t.via.kube = [j \in DOMAIN u.via.kube |-> ExpandKube(u.via.kube[j])]
  BY <1>1, <1>2 DEF ExpandSite
<1>4. QED
  BY <1>1, <1>2, <1>3

\* The words of a command, the defaults included.
Words == STRING \cup {"kubectl", "docker", "podman", "compose"}

LEMMA WrittenCommands ==
  ASSUME NEW f \in EnvFiles
  PROVE  f.cluster \in Seq(Words) /\ f.runtime \in Seq(Words) /\ f.compose \in Seq(Words)
<1>1. \A c \in Seq(STRING) : c \in Seq(Words)
  BY DEF Words
<1>2. QED
  BY <1>1, WrittenFields

LEMMA OneWord ==
  ASSUME NEW S, NEW w \in S
  PROVE  <<w>> \in Seq(S) /\ <<w>> # <<>>
OBVIOUS

LEMMA ExpandedCommand ==
  ASSUME NEW c \in Seq(Words), c # <<>>
  PROVE  ExpandCommand(c) # <<>>
BY DEF ExpandCommand

PreparedFrom(f, p, q) ==
  /\ DOMAIN q = Fields
  /\ q.name = f.name /\ q.ports = f.ports
  /\ q.cluster # <<>>
  /\ IsContainer(p) => q.runtime # <<>>
  /\ p = Docker => q.compose # <<>>
  /\ q.sites = [i \in DOMAIN f.sites |-> ExpandSite(ResolveSite(f.sites[i]))]
  /\ q.path = [k \in PathKeys |-> ExpandTilde(DefaultPaths(f, p)[k])]

LEMMA PreparedFields ==
  ASSUME NEW f \in EnvFiles, NEW p \in Platforms, NEW q, q = Prepared(f, p)
  PROVE  PreparedFrom(f, p, q)
<1> DEFINE r == ResolveSecretRefs(f)
           d == ApplyDefaults(r, p)
<1>0. q = ExpandHomePaths(ExpandCommandHomes(d))
  BY DEF Prepared
<1>1. DOMAIN f = Fields
  BY WrittenFields
<1>2. /\ DOMAIN r = Fields
      /\ \A k \in Fields \ {"secret", "users", "sites"} : r[k] = f[k]
      /\ r.sites = [i \in DOMAIN f.sites |-> ResolveSite(f.sites[i])]
  BY <1>1, ResolvedFields
<1>3. /\ DOMAIN d = Fields
      /\ \A k \in {"name", "users", "sites", "ports", "node", "secret", "tlsSecret"} : d[k] = r[k]
      /\ d.cluster = SetDefaultCmd(r.cluster, <<"kubectl">>)
      /\ d.runtime = SetDefaultCmd(r.runtime, DefaultRuntime(p))
      /\ d.compose = IF p = Docker THEN ComposeOrDerived(r.compose, d.runtime) ELSE r.compose
      /\ d.path = DefaultPaths(r, p)
  BY <1>2, DefaultFields
<1>4. /\ DOMAIN q = Fields
      /\ \A k \in Fields \ {"cluster", "runtime", "compose", "sites", "path"} : q[k] = d[k]
      /\ q.cluster = ExpandCommand(d.cluster)
      /\ q.runtime = ExpandCommand(d.runtime)
      /\ q.compose = ExpandCommand(d.compose)
      /\ q.path = [k \in DOMAIN d.path |-> ExpandTilde(d.path[k])]
      /\ q.sites = [i \in DOMAIN d.sites |-> ExpandSite(d.sites[i])]
  BY <1>0, <1>3, ExpandedFields
<1>5. q.name = f.name /\ q.ports = f.ports
  BY <1>2, <1>3, <1>4 DEF Fields
<1>6. r.cluster = f.cluster /\ r.runtime = f.runtime /\ r.compose = f.compose /\ r.path = f.path
      /\ r.rootless = f.rootless
  BY <1>2 DEF Fields
<1>w. f.cluster \in Seq(Words) /\ f.runtime \in Seq(Words) /\ f.compose \in Seq(Words)
  BY WrittenCommands
<1>d. /\ <<"kubectl">> \in Seq(Words) /\ <<"kubectl">> # <<>>
      /\ <<"docker">> \in Seq(Words) /\ <<"docker">> # <<>>
      /\ <<"podman">> \in Seq(Words) /\ <<"podman">> # <<>>
  <2>1. "kubectl" \in Words /\ "docker" \in Words /\ "podman" \in Words
    BY DEF Words
  <2>2. QED
    BY <2>1, OneWord
<1>7. q.cluster # <<>>
  <2>1. d.cluster \in Seq(Words) /\ d.cluster # <<>>
    BY <1>3, <1>6, <1>w, <1>d DEF SetDefaultCmd
  <2>2. QED
    BY <1>4, <2>1, ExpandedCommand
<1>8. d.runtime \in Seq(Words) /\ (IsContainer(p) => d.runtime # <<>>)
  <2>1. /\ DefaultRuntime(p) \in Seq(Words)
        /\ IsContainer(p) => DefaultRuntime(p) # <<>>
    <3>1. p = Docker => DefaultRuntime(p) = <<"docker">>
      BY DEF DefaultRuntime, Docker, Podman
    <3>2. p = Podman => DefaultRuntime(p) = <<"podman">>
      BY DEF DefaultRuntime, Docker, Podman
    <3>3. p \notin {Docker, Podman} => DefaultRuntime(p) = <<>>
      BY DEF DefaultRuntime
    <3>4. <<>> \in Seq(Words)
      OBVIOUS
    <3>5. QED
      BY <3>1, <3>2, <3>3, <3>4, <1>d DEF IsContainer
  <2>2. d.runtime = SetDefaultCmd(f.runtime, DefaultRuntime(p))
    BY <1>3, <1>6
  <2>3. QED
    BY <2>1, <2>2, <1>w DEF SetDefaultCmd
<1>9. IsContainer(p) => q.runtime # <<>>
  BY <1>4, <1>8, ExpandedCommand
<1>10. p = Docker => q.compose # <<>>
  <2>1. p = Docker => d.compose \in Seq(Words) /\ d.compose # <<>>
    <3>1. Append(d.runtime, "compose") \in Seq(Words) /\ Append(d.runtime, "compose") # <<>>
      <4>1. "compose" \in Words
        BY DEF Words
      <4>2. QED
        BY <1>8, <4>1, AppendProperties
    <3>2. QED
      BY <1>3, <1>6, <1>w, <3>1 DEF ComposeOrDerived
  <2>2. QED
    BY <1>4, <2>1, ExpandedCommand
<1>11. q.sites = [i \in DOMAIN f.sites |-> ExpandSite(ResolveSite(f.sites[i]))]
  BY <1>2, <1>3, <1>4
<1>12. q.path = [k \in PathKeys |-> ExpandTilde(DefaultPaths(f, p)[k])]
  <2>1. DefaultPaths(r, p) = DefaultPaths(f, p)
    BY <1>6 DEF DefaultPaths, DefaultQuadletDir
  <2>2. DOMAIN DefaultPaths(f, p) = PathKeys
    BY WrittenFields DEF DefaultPaths
  <2>3. QED
    BY <1>3, <1>4, <2>1, <2>2
<1>13. QED
  BY <1>4, <1>5, <1>7, <1>9, <1>10, <1>11, <1>12 DEF PreparedFrom

LEMMA LoadedFields ==
  ASSUME NEW f \in EnvFiles, NEW p \in Platforms, NEW q, q = Prepared(f, p), NEW c, c = Loaded(f, p)
  PROVE  /\ DOMAIN c = Fields
         /\ \A k \in Fields \ {"path"} : c[k] = q[k]
         /\ c.path = [k \in PathKeys |-> IF k \in NeverRebased THEN q.path[k] ELSE HostPath(q.path[k])]
<1>1. DOMAIN q = Fields /\ q.path = [k \in PathKeys |-> ExpandTilde(DefaultPaths(f, p)[k])]
  BY PreparedFields DEF PreparedFrom
<1>2. QED
  BY <1>1, RebasedFields DEF Loaded

LEMMA NamedFields ==
  ASSUME NEW c, DOMAIN c = Fields, NEW h, NEW d, d = Named(c, h)
  PROVE  /\ DOMAIN d = Fields
         /\ \A k \in Fields \ {"node"} : d[k] = c[k]
         /\ RedundancyEnabled(c) => d = c
BY DEF Named, FillStandaloneNodeName, Fields

-------------------------------------------------------------------------------
(* What a host has loaded is the file, accepted; what it has deployed, that. *)

LoadedAsAccepted ==
  /\ case \in Cases /\ world \in Worlds
  /\ DOMAIN conf = Hosts /\ DOMAIN deployed = Hosts
  /\ \A h \in Hosts : IsLoaded(h) =>
       /\ Accepts(case.file, case.platform, world[h], case.approved)
       /\ conf[h].file = Named(Loaded(case.file, case.platform), h)

DeployedToPods(d, c) == d.delivered = DeliveredToPods(c) /\ d.cr = BrokerCR(c)

DeployedToHost(d, c, h) ==
  /\ d.pod \in Roles \cup {""} /\ d.role \in ContainerRole(c, h, d.pod)
  /\ d.node = ResolveNode(c, d.role) /\ d.table = GroupTable(c)
  /\ d.delivered = DeliveredToContainer(c)

RightlyDeployed(h) ==
  IF case.platform = Kubernetes THEN DeployedToPods(deployed[h], conf[h].file)
  ELSE DeployedToHost(deployed[h], conf[h].file, h)

DeployedAsLoaded ==
  \A h \in Hosts : IsDeployed(h) => IsLoaded(h) /\ RightlyDeployed(h)

LEMMA LoadedAlways == Spec => [](LoadedAsAccepted /\ DeployedAsLoaded)
<1>1. Init => LoadedAsAccepted /\ DeployedAsLoaded
  <2>1. Init => \A h \in Hosts : ~IsLoaded(h) /\ ~IsDeployed(h)
    BY DEF Init, IsLoaded, IsDeployed, NotLoaded, Nothing
  <2>2. QED
    BY <2>1 DEF Init, LoadedAsAccepted, DeployedAsLoaded
<1>2. ASSUME LoadedAsAccepted, DeployedAsLoaded, [Next]_vars
      PROVE  LoadedAsAccepted' /\ DeployedAsLoaded'
  <2>0. ASSUME UNCHANGED <<case, world>>, NEW g \in Hosts, conf'[g] = conf[g],
               deployed'[g] = deployed[g], IsDeployed(g)'
        PROVE  IsLoaded(g)' /\ RightlyDeployed(g)'
    <3>1. IsDeployed(g) /\ IsLoaded(g) /\ RightlyDeployed(g)
      BY <1>2, <2>0 DEF DeployedAsLoaded, IsDeployed
    <3>2. IsLoaded(g)'
      BY <2>0, <3>1 DEF IsLoaded
    <3>3. CASE case.platform = Kubernetes
      BY <2>0, <3>1, <3>2, <3>3 DEF RightlyDeployed, DeployedToPods
    <3>4. CASE case.platform # Kubernetes
      <4>1. ASSUME NEW c, NEW pod
            PROVE  ContainerRole(c, g, pod)' = ContainerRole(c, g, pod)
        BY <2>0 DEF ContainerRole, DetectRole, Matched, ByName, ByAddr
      <4>2. DeployedToHost(deployed[g], conf[g].file, g)
        BY <3>1, <3>4 DEF RightlyDeployed
      <4>3. DeployedToHost(deployed[g], conf[g].file, g)'
        BY <2>0, <4>1, <4>2 DEF DeployedToHost
      <4>4. QED
        BY <2>0, <3>2, <3>4, <4>3 DEF RightlyDeployed
    <3>5. QED
      BY <3>2, <3>3, <3>4
  <2>1. CASE UNCHANGED vars
    <3>1. UNCHANGED <<case, world, conf, deployed>>
      BY <2>1 DEF vars
    <3>2. LoadedAsAccepted'
      BY <1>2, <3>1 DEF LoadedAsAccepted, IsLoaded, Named
    <3>3. DeployedAsLoaded'
      BY <2>0, <3>1 DEF DeployedAsLoaded
    <3>4. QED
      BY <3>2, <3>3
  <2>2. ASSUME NEW h \in Hosts, Load(h) PROVE LoadedAsAccepted' /\ DeployedAsLoaded'
    <3>1. \A g \in Hosts \ {h} : conf'[g] = conf[g]
      BY <1>2, <2>2 DEF Load, LoadedAsAccepted
    <3>2. \/ conf'[h] = Refused
          \/ /\ Accepts(case.file, case.platform, world[h], case.approved)
             /\ conf'[h] = Loads(Named(Loaded(case.file, case.platform), h))
      BY <1>2, <2>2 DEF Load, LoadedAsAccepted
    <3>3. ~IsLoaded(h) /\ ~IsDeployed(h)
      <4>1. ~IsLoaded(h)
        BY <2>2 DEF Load, IsLoaded, NotLoaded
      <4>2. QED
        BY <1>2, <4>1 DEF DeployedAsLoaded
    <3>4. LoadedAsAccepted'
      BY <1>2, <2>2, <3>1, <3>2 DEF Load, LoadedAsAccepted, IsLoaded, Refused, Loads, Named
    <3>5. DeployedAsLoaded'
      <4>1. UNCHANGED <<case, world, deployed>>
        BY <2>2 DEF Load
      <4>2. \A g \in Hosts : IsDeployed(g)' => g # h /\ conf'[g] = conf[g]
        BY <3>1, <3>3, <4>1 DEF IsDeployed
      <4>3. QED
        BY <2>0, <4>1, <4>2 DEF DeployedAsLoaded
    <3>6. QED
      BY <3>4, <3>5
  <2>3. ASSUME NEW h \in Hosts, DeployKubernetes(h) PROVE LoadedAsAccepted' /\ DeployedAsLoaded'
    <3>1. \A g \in Hosts \ {h} : deployed'[g] = deployed[g]
      BY <1>2, <2>3 DEF DeployKubernetes, LoadedAsAccepted
    <3>2. \/ deployed'[h] = Failed("command")
          \/ /\ deployed'[h].delivered = DeliveredToPods(conf[h].file)
             /\ deployed'[h].cr = BrokerCR(conf[h].file)
      BY <1>2, <2>3 DEF DeployKubernetes, LoadedAsAccepted
    <3>3. LoadedAsAccepted'
      BY <1>2, <2>3 DEF DeployKubernetes, LoadedAsAccepted, IsLoaded, Named
    <3>4. DeployedAsLoaded'
      <4>1. UNCHANGED <<case, world, conf>> /\ case.platform = Kubernetes /\ IsLoaded(h)
        BY <2>3 DEF DeployKubernetes
      <4>2. ASSUME IsDeployed(h)' PROVE IsLoaded(h)' /\ RightlyDeployed(h)'
        BY <3>2, <4>1, <4>2 DEF IsDeployed, IsLoaded, RightlyDeployed, DeployedToPods, Failed
      <4>3. QED
        BY <2>0, <3>1, <4>1, <4>2 DEF DeployedAsLoaded
    <3>5. QED
      BY <3>3, <3>4
  <2>4. ASSUME NEW h \in Hosts, NEW pod \in Roles \cup {""}, DeployContainer(h, pod)
        PROVE  LoadedAsAccepted' /\ DeployedAsLoaded'
    <3> DEFINE c == conf[h].file
               r == CHOOSE x \in ContainerRole(c, h, pod) : TRUE
    <3>1. \A g \in Hosts \ {h} : deployed'[g] = deployed[g]
      BY <1>2, <2>4 DEF DeployContainer, LoadedAsAccepted
    <3>2. \/ deployed'[h].state = "failed"
          \/ /\ ContainerRole(c, h, pod) # {}
             /\ deployed'[h].role = r /\ deployed'[h].pod = pod
             /\ deployed'[h].node = ResolveNode(c, r) /\ deployed'[h].table = GroupTable(c)
             /\ deployed'[h].delivered = DeliveredToContainer(c)
      BY <1>2, <2>4 DEF DeployContainer, LoadedAsAccepted, Failed
    <3> HIDE DEF r
    <3>3. IsDeployed(h)' => DeployedToHost(deployed'[h], c, h)
      <4>1. SUFFICES ASSUME IsDeployed(h)' PROVE DeployedToHost(deployed'[h], c, h)
        OBVIOUS
      <4>2. deployed'[h].state # "failed"
        BY <4>1 DEF IsDeployed
      <4>3. r \in ContainerRole(c, h, pod)
        BY <3>2, <4>2 DEF r
      <4>4. QED
        BY <3>2, <4>2, <4>3 DEF DeployedToHost
    <3>4. LoadedAsAccepted'
      BY <1>2, <2>4 DEF DeployContainer, LoadedAsAccepted, IsLoaded, Named
    <3>5. DeployedAsLoaded'
      <4>1. UNCHANGED <<case, world, conf>> /\ case.platform # Kubernetes /\ IsLoaded(h)
        BY <2>4 DEF DeployContainer, IsContainer, Kubernetes, Docker, Podman
      <4>2. ASSUME IsDeployed(h)' PROVE IsLoaded(h)' /\ RightlyDeployed(h)'
        BY <3>3, <4>1, <4>2 DEF IsLoaded, RightlyDeployed, DeployedToHost, ContainerRole,
           DetectRole, Matched, ByName, ByAddr
      <4>3. QED
        BY <2>0, <3>1, <4>1, <4>2 DEF DeployedAsLoaded
    <3>6. QED
      BY <3>4, <3>5
  <2>5. QED
    BY <1>2, <2>1, <2>2, <2>3, <2>4 DEF Next
<1>3. QED
  BY <1>1, <1>2, PTL DEF Spec


\* What a loaded host holds: the prepared file, which passed Validate, its
\* paths moved and, for a standalone container, its node named.
LoadedFrom(c, q) ==
  /\ case.platform \in Platforms /\ case.file \in EnvFiles
  /\ Validate(q, case.platform, case.approved)
  /\ DOMAIN q = Fields /\ DOMAIN c = Fields
  /\ \A k \in Fields \ {"path", "node"} : c[k] = q[k]
  /\ c.path = [k \in PathKeys |-> IF k \in NeverRebased THEN q.path[k] ELSE HostPath(q.path[k])]
  /\ RedundancyEnabled(c) = RedundancyEnabled(q)
  /\ RedundancyEnabled(q) => c.node = q.node

LEMMA LoadedHost ==
  ASSUME LoadedAsAccepted, NEW h \in Hosts, IsLoaded(h),
         NEW c, c = conf[h].file, NEW q, q = Prepared(case.file, case.platform)
  PROVE  LoadedFrom(c, q)
<1> DEFINE b == Loaded(case.file, case.platform)
<1>1. case.platform \in Platforms /\ case.file \in EnvFiles
  BY CasesAssumption DEF LoadedAsAccepted
<1>2. Validate(q, case.platform, case.approved) /\ c = Named(b, h)
  BY DEF LoadedAsAccepted, Accepts
<1>3. DOMAIN q = Fields
  BY <1>1, PreparedFields DEF PreparedFrom
<1>4. /\ DOMAIN b = Fields /\ \A k \in Fields \ {"path"} : b[k] = q[k]
      /\ b.path = [k \in PathKeys |-> IF k \in NeverRebased THEN q.path[k] ELSE HostPath(q.path[k])]
  BY <1>1, LoadedFields
<1> HIDE DEF b
<1>5. DOMAIN c = Fields /\ (\A k \in Fields \ {"node"} : c[k] = b[k]) /\ (RedundancyEnabled(b) => c = b)
  BY <1>2, <1>4, NamedFields
<1>6. {"path", "node", "ha"} \subseteq Fields
  BY DEF Fields
<1>7. RedundancyEnabled(c) = RedundancyEnabled(q) /\ RedundancyEnabled(b) = RedundancyEnabled(q)
  BY <1>4, <1>5, <1>6 DEF RedundancyEnabled
<1>8. QED
  BY <1>1, <1>2, <1>3, <1>4, <1>5, <1>6, <1>7 DEF LoadedFrom

LEMMA ExpandedKube ==
  ASSUME NEW K, NEW s \in Seq(K)
  PROVE  [l \in DOMAIN s |-> ExpandKube(s[l])] \in Seq({ExpandKube(k) : k \in K})
OBVIOUS

LEMMA LoadedSites ==
  ASSUME LoadedAsAccepted, NEW h \in Hosts, IsLoaded(h), NEW c, c = conf[h].file,
         NEW q, q = Prepared(case.file, case.platform), c.sites # <<>>
  PROVE  /\ DOMAIN c.sites = 1 .. 2 /\ RoutersApart(c)
         /\ \A j \in DOMAIN c.sites :
              /\ c.sites[j].routers \in Seq(STRING) /\ c.sites[j].routers # <<>>
              /\ \E K : c.sites[j].via.kube \in Seq(K)
              /\ ValidateReplVia(c.sites[j].via)
<1> DEFINE w == case.file
<1>1. LoadedFrom(c, q)
  BY LoadedHost
<1>2. c.sites = q.sites /\ q.sites = [j \in DOMAIN w.sites |-> ExpandSite(ResolveSite(w.sites[j]))]
  <2>1. "sites" \in Fields \ {"path", "node"}
    BY DEF Fields
  <2>2. QED
    <3>1. c.sites = q.sites
      BY <1>1, <2>1 DEF LoadedFrom
    <3>2. case.file \in EnvFiles /\ case.platform \in Platforms
      BY <1>1 DEF LoadedFrom
    <3>3. q.sites = [j \in DOMAIN w.sites |-> ExpandSite(ResolveSite(w.sites[j]))]
      <4>1. PreparedFrom(case.file, case.platform, q)
        BY <3>2, PreparedFields
      <4>2. QED
        BY <4>1 DEF PreparedFrom
    <3>4. QED
      BY <3>1, <3>3
<1>3. w.sites \in Seq(SiteEntries)
  BY <1>1, WrittenFields DEF LoadedFrom
<1>4. q.sites # <<>> /\ ValidateReplication(q)
  BY <1>1, <1>2 DEF LoadedFrom, Validate
<1>5. /\ Len(q.sites) = 2 /\ RoutersApart(q)
      /\ \A j \in DOMAIN q.sites : q.sites[j].routers # <<>> /\ ValidateReplVia(q.sites[j].via)
  BY <1>4 DEF ValidateReplication
<1>6. \A j \in DOMAIN c.sites : c.sites[j].routers \in Seq(STRING) /\ \E K : c.sites[j].via.kube \in Seq(K)
  <2>1. SUFFICES ASSUME NEW j \in DOMAIN c.sites
                 PROVE  c.sites[j].routers \in Seq(STRING) /\ \E K : c.sites[j].via.kube \in Seq(K)
    OBVIOUS
  <2>2. w.sites[j] \in SiteEntries /\ c.sites[j] = ExpandSite(ResolveSite(w.sites[j]))
    BY <1>2, <1>3
  <2>3. /\ c.sites[j].routers \in Seq(STRING)
        /\ \E K : w.sites[j].via.kube \in Seq(K)
        /\ c.sites[j].via.kube = [l \in DOMAIN w.sites[j].via.kube |-> ExpandKube(w.sites[j].via.kube[l])]
    BY <2>2, SiteFields
  <2>4. PICK K : w.sites[j].via.kube \in Seq(K)
    BY <2>3
  <2> DEFINE L == {ExpandKube(k) : k \in K}
  <2>5. c.sites[j].via.kube \in Seq(L)
    BY <2>3, <2>4, ExpandedKube
  <2>6. QED
    BY <2>3, <2>5
<1>7. DOMAIN c.sites = 1 .. 2
  <2>1. \E L : q.sites \in Seq(L)
    <3> DEFINE L == {ExpandSite(ResolveSite(s)) : s \in SiteEntries}
    <3>1. q.sites \in Seq(L)
      BY <1>2, <1>3
    <3>2. QED
      BY <3>1
  <2>2. QED
    BY <1>2, <1>5, <2>1
<1>8. RoutersApart(c)
  <2>1. c.sites = q.sites
    BY <1>2
  <2>2. QED
    <3> DEFINE Apart(s) == \A i, j \in DOMAIN s : \A k \in DOMAIN s[i].routers, l \in DOMAIN s[j].routers :
                              s[i].routers[k] = s[j].routers[l] => i = j /\ k = l
    <3>1. RoutersApart(q) <=> Apart(q.sites)
      BY DEF RoutersApart
    <3>2. RoutersApart(c) <=> Apart(c.sites)
      BY DEF RoutersApart
    <3> HIDE DEF Apart
    <3>3. QED
      BY <1>5, <2>1, <3>1, <3>2
<1>9. QED
  BY <1>2, <1>5, <1>6, <1>7, <1>8


(* A command is checked when its file is loaded and again before it is run   *)
(* (execguard.go:469-514, 579-659): whatever the file, the environment and   *)
(* the approvals, a command that passed the first passes the second, the     *)
(* defaults, the derived compose command and the mate's command too.         *)
THEOREM AcceptedCommandsRun == Spec => []CommandsStillPass
<1>1. ASSUME LoadedAsAccepted, NEW h \in Hosts, IsLoaded(h), NEW c, c = conf[h].file
      PROVE  DeployCommandsPass(c)
  <2>1. PICK q : q = Prepared(case.file, case.platform)
    OBVIOUS
  <2>2. LoadedFrom(c, q)
    BY <1>1, <2>1, LoadedHost
  <2>3. case.platform \in Platforms /\ case.file \in EnvFiles
    BY <2>2 DEF LoadedFrom
  <2>4. /\ q.cluster # <<>> /\ (IsContainer(case.platform) => q.runtime # <<>>)
        /\ case.platform = Docker => q.compose # <<>>
    <3>1. PreparedFrom(case.file, case.platform, q)
      BY <2>1, <2>3, PreparedFields
    <3>2. QED
      BY <3>1 DEF PreparedFrom
  <2>5. c.cluster = q.cluster /\ c.runtime = q.runtime /\ c.compose = q.compose
    BY <2>2 DEF LoadedFrom, Fields
  <2>6. ValidateExecCommands(q, case.platform, case.approved)
    BY <2>2 DEF LoadedFrom, Validate
  <2>7. ClusterCommand(c)
    BY <2>4, <2>5, <2>6 DEF ValidateExecCommands, ClusterCommand
  <2>8. IsContainer(case.platform) => RuntimeCommand(c)
    BY <2>4, <2>5, <2>6 DEF ValidateExecCommands, RuntimeCommand
  <2>9. case.platform = Docker => ComposeCommand(c)
    BY <2>4, <2>5, <2>6 DEF ValidateExecCommands, ComposeCommand, ComposeOrDerived
  <2>10. CASE case.platform = Kubernetes
    BY <2>7, <2>10 DEF DeployCommandsPass, Kubernetes, Docker
  <2>11. CASE case.platform = Docker
    BY <2>8, <2>9, <2>11 DEF DeployCommandsPass, IsContainer, Kubernetes, Docker
  <2>12. CASE case.platform = Podman
    BY <2>8, <2>12 DEF DeployCommandsPass, IsContainer, Kubernetes, Docker, Podman
  <2>13. QED
    BY <2>3, <2>10, <2>11, <2>12 DEF Platforms
<1>2. ASSUME LoadedAsAccepted, NEW h \in Hosts, IsLoaded(h), NEW c, c = conf[h].file,
             NEW i \in DOMAIN c.sites, c.sites[i].via.kube # <<>>
      PROVE  SiteCommand(c, i)
  <2>1. PICK q : q = Prepared(case.file, case.platform)
    OBVIOUS
  <2>2. LoadedFrom(c, q)
    BY <1>2, <2>1, LoadedHost
  <2>3. c.sites # <<>>
    BY <1>2
  <2>4. (\E K : c.sites[i].via.kube \in Seq(K)) /\ ValidateReplVia(c.sites[i].via)
    BY <1>2, <2>1, <2>3, LoadedSites
  <2>5. 1 \in DOMAIN c.sites[i].via.kube
    <3>1. PICK K, s : s = c.sites[i].via.kube /\ s \in Seq(K) /\ s # <<>>
      BY <1>2, <2>4
    <3>2. 1 \in DOMAIN s
      BY <3>1
    <3>3. QED
      BY <3>1, <3>2
  <2>6. c.sites = q.sites
    BY <2>2 DEF LoadedFrom, Fields
  <2> DEFINE cmd == c.sites[i].via.kube[1].command
  <2>7. cmd \in SiteCommands(q) /\ cmd # <<>>
    <3>1. cmd \in {q.sites[i].via.kube[j].command : j \in DOMAIN q.sites[i].via.kube} /\ i \in DOMAIN q.sites
      BY <1>2, <2>5, <2>6
    <3>2. cmd \in SiteCommands(q)
      BY <3>1 DEF SiteCommands
    <3>3. cmd # <<>>
      BY <2>4, <2>5 DEF ValidateReplVia
    <3>4. QED
      BY <3>2, <3>3
  <2>8. ValidateExecCommands(q, case.platform, case.approved)
    BY <2>2 DEF LoadedFrom, Validate
  <2>9. CheckCommand(Rules(Kubernetes), cmd, case.approved)
    BY <2>7, <2>8 DEF ValidateExecCommands
  <2>10. QED
    BY <2>9 DEF SiteCommand
<1>3. LoadedAsAccepted => CommandsStillPass
  BY <1>1, <1>2 DEF CommandsStillPass
<1>4. QED
  BY <1>3, LoadedAlways, PTL

(* Where a command is run from no longer matters to a loaded path, but for a *)
(* podman unit directory that was written relative or is a rootless default  *)
(* (UnitDirAsFound); and the directories of the unit and of the data are     *)
(* none that were made up next to the file (hostpath.go:187-256,             *)
(* validate.go:293-298, 1504-1560).                                          *)
THEOREM LoadedPathsAnchored == Spec => []Anchored
<1>1. ASSUME LoadedAsAccepted, NEW h \in Hosts, IsLoaded(h), NEW path, path = conf[h].file.path
      PROVE  /\ \A k \in DOMAIN path \ NeverRebased : path[k] # "" => IsAbsHostPath(path[k])
             /\ IsContainer(case.platform) => path["dataDir"] \in {"abs", "home/"}
             /\ case.platform = Podman =>
                   /\ path["baseDir"] \in {"", "abs", "home/"}
                   /\ path["quadletDir"] \in {"abs", "home/"} \/ UnitDirAsFound(case.file)
  <2>1. PICK c, q : c = conf[h].file /\ q = Prepared(case.file, case.platform)
    OBVIOUS
  <2>2. LoadedFrom(c, q)
    BY <1>1, <2>1, LoadedHost
  <2>3. case.platform \in Platforms /\ case.file \in EnvFiles
    BY <2>2 DEF LoadedFrom
  <2>4. path = [k \in PathKeys |-> IF k \in NeverRebased THEN q.path[k] ELSE HostPath(q.path[k])]
    BY <1>1, <2>1, <2>2 DEF LoadedFrom
  <2>5. \A k \in DOMAIN path \ NeverRebased : path[k] # "" => IsAbsHostPath(path[k])
    BY <2>4 DEF HostPath, IsAbsHostPath, AbsolutePaths
  <2> DEFINE w == DefaultPaths(case.file, case.platform)
  <2>6. q.path = [k \in PathKeys |-> ExpandTilde(w[k])]
    <3>1. PreparedFrom(case.file, case.platform, q)
      BY <2>1, <2>3, PreparedFields
    <3>2. QED
      BY <3>1 DEF PreparedFrom
  <2>7. case.file.path \in [PathKeys -> WrittenPaths]
    BY <2>3, WrittenFields
  <2>8. w["dataDir"] \in WrittenPaths /\ w["baseDir"] \in WrittenPaths
    BY <2>7 DEF DefaultPaths, PathKeys, WrittenPaths, SetDefault
  <2> HIDE DEF w
  <2>9. /\ path["dataDir"] = ExpandTilde(w["dataDir"]) /\ path["dataDir"] = q.path["dataDir"]
        /\ path["baseDir"] = ExpandTilde(w["baseDir"]) /\ path["baseDir"] = q.path["baseDir"]
    BY <2>4, <2>6 DEF PathKeys, NeverRebased
  <2>10. ASSUME IsContainer(case.platform) PROVE ValidateContainer(q, case.platform)
    BY <2>2, <2>10 DEF LoadedFrom, Validate, IsContainer, Kubernetes, Docker, Podman
  <2>11. IsContainer(case.platform) => path["dataDir"] \in {"abs", "home/"}
    BY <2>8, <2>9, <2>10 DEF ValidateContainer, IsAbsHostPath, AbsolutePaths, ExpandTilde, WrittenPaths
  <2>12. case.platform = Podman => path["baseDir"] \in {"", "abs", "home/"}
    BY <2>8, <2>9, <2>10 DEF ValidateContainer, IsAbsHostPath, AbsolutePaths, ExpandTilde, WrittenPaths, IsContainer
  <2>13. ASSUME case.platform = Podman, ~UnitDirAsFound(case.file)
         PROVE  path["quadletDir"] \in {"abs", "home/"}
    <3>1. w["quadletDir"] \in WrittenPaths \ {"", "rel"}
      BY <2>7, <2>13 DEF w, DefaultPaths, PathKeys, WrittenPaths, SetDefault, DefaultQuadletDir,
                           UnitDirAsFound
    <3>2. path["quadletDir"] = ExpandTilde(w["quadletDir"]) /\ path["quadletDir"] = q.path["quadletDir"]
      BY <2>4, <2>6 DEF PathKeys, NeverRebased
    <3>3. ValidateHostPaths(q, Podman)
      BY <2>2, <2>13 DEF LoadedFrom, Validate
    <3>4. DOMAIN q.path = PathKeys /\ Podman # Docker
      BY <2>6 DEF Podman, Docker
    <3>5. CheckHostPath(q.path["quadletDir"])
      BY <3>3, <3>4 DEF ValidateHostPaths, PathKeys
    <3>6. QED
      BY <3>1, <3>2, <3>5 DEF CheckHostPath, Tilded, ExpandTilde, WrittenPaths
  <2>14. QED
    BY <2>5, <2>11, <2>12, <2>13
<1>2. LoadedAsAccepted => Anchored
  BY <1>1 DEF Anchored
<1>3. QED
  BY <1>2, LoadedAlways, PTL


\* In a pair whose routers stand apart, a router names its own site, and that
\* site alone.
LEMMA RouterNamesItsSite ==
  ASSUME NEW c, RoutersApart(c), NEW i \in DOMAIN c.sites, NEW n \in ToSet(c.sites[i].routers)
  PROVE  Locates(c, n) /\ SelfOf(c, n) = i
<1>1. PICK k \in DOMAIN c.sites[i].routers : c.sites[i].routers[k] = n
  BY DEF ToSet
<1>2. i \in SitesOf(c, n)
  BY DEF SitesOf
<1>3. ASSUME NEW j \in SitesOf(c, n) PROVE j = i
  <2>1. j \in DOMAIN c.sites /\ n \in ToSet(c.sites[j].routers)
    BY <1>3 DEF SitesOf
  <2>2. PICK l \in DOMAIN c.sites[j].routers : c.sites[j].routers[l] = n
    BY <2>1 DEF ToSet
  <2>3. QED
    BY <1>1, <2>1, <2>2 DEF RoutersApart
<1>4. SitesOf(c, n) = {i}
  BY <1>2, <1>3
<1>5. Cardinality({i}) = 1
  BY FS_Singleton
<1>6. QED
  BY <1>4, <1>5 DEF Locates, SelfOf

(* A router of either site of a loaded pair is found at one site, its own,   *)
(* and the mate it is given finds it back (config.go:593-633,                *)
(* validate.go:1014-1076): the pair is the same seen from both ends.         *)
THEOREM LoadedSitesMirror == Spec => []SitesMirror
<1>1. ASSUME LoadedAsAccepted, NEW h \in Hosts, IsLoaded(h), NEW c, c = conf[h].file,
             NEW i \in DOMAIN c.sites, NEW n \in ToSet(c.sites[i].routers)
      PROVE  /\ Locates(c, n) /\ SelfOf(c, n) = i
             /\ \A m \in ToSet(c.sites[MateOf(c, n)].routers) : Locates(c, m) /\ MateOf(c, m) = i
  <2>1. PICK q : q = Prepared(case.file, case.platform)
    OBVIOUS
  <2>2. c.sites # <<>>
    BY <1>1
  <2>3. DOMAIN c.sites = 1 .. 2 /\ RoutersApart(c)
    BY <1>1, <2>1, <2>2, LoadedSites
  <2>4. Locates(c, n) /\ SelfOf(c, n) = i
    BY <1>1, <2>3, RouterNamesItsSite
  <2>5. MateOf(c, n) = 3 - i /\ 3 - i \in DOMAIN c.sites
    BY <1>1, <2>3, <2>4 DEF MateOf
  <2>6. ASSUME NEW m \in ToSet(c.sites[3 - i].routers) PROVE Locates(c, m) /\ MateOf(c, m) = i
    <3>1. Locates(c, m) /\ SelfOf(c, m) = 3 - i
      BY <2>3, <2>5, <2>6, RouterNamesItsSite
    <3>2. QED
      BY <1>1, <2>3, <3>1 DEF MateOf
  <2>7. QED
    BY <2>4, <2>5, <2>6
<1>2. LoadedAsAccepted => SitesMirror
  BY <1>1 DEF SitesMirror
<1>3. QED
  BY <1>2, LoadedAlways, PTL

\* The role a host of a group works out for itself is an entry that fits it.
LEMMA RoleFitsHost ==
  ASSUME NEW c, NEW h, NEW pod \in Roles \cup {""}, NEW r \in ContainerRole(c, h, pod)
  PROVE  /\ r \in Roles
         /\ RedundancyEnabled(c) /\ pod = "" =>
              HostMatches(world[h].hostname, c.node[r].name) \/ c.node[r].addr \in world[h].addrs
<1>1. pod # "" => r = pod
  BY DEF ContainerRole
<1>2. pod = "" /\ ~RedundancyEnabled(c) => r = "primary"
  BY DEF ContainerRole
<1>3. pod = "" /\ RedundancyEnabled(c) => r \in Matched(c, h)
  BY DEF ContainerRole, DetectRole
<1>4. r \in Matched(c, h) => r \in ByName(c, h) \/ r \in ByAddr(c, h)
  BY DEF Matched
<1>5. r \in Matched(c, h) =>
        r \in Roles /\ (HostMatches(world[h].hostname, c.node[r].name) \/ c.node[r].addr \in world[h].addrs)
  BY <1>4 DEF ByName, ByAddr
<1>6. QED
  BY <1>1, <1>2, <1>3, <1>5 DEF Roles

LEMMA TwoAreTwo ==
  ASSUME NEW S, IsFiniteSet(S), NEW a \in S, NEW b \in S, a # b
  PROVE  ~(Cardinality(S) <= 1)
<1>1. {a, b} \subseteq S
  OBVIOUS
<1>2. IsFiniteSet({a}) /\ Cardinality({a}) = 1
  BY FS_Singleton
<1>3. {a, b} = {a} \cup {b} /\ b \notin {a}
  OBVIOUS
<1>4. Cardinality({a, b}) = 2
  BY <1>2, <1>3, FS_AddElement
<1>5. Cardinality({a, b}) <= Cardinality(S) /\ Cardinality(S) \in Nat
  BY <1>1, FS_Subset, FS_CardinalityType
<1>6. QED
  BY <1>4, <1>5

\* A name of the group is held by a node of that name.
LEMMA HolderHasName ==
  ASSUME NEW c, NEW r \in Roles, NEW s, s = HolderOf(c, c.node[r].name)
  PROVE  s \in Roles /\ c.node[s].name = c.node[r].name
BY DEF HolderOf, Roles

\* The table of a group: every entry is that of a node, and a node whose name
\* is its own has its entry.
LEMMA TableOfGroup ==
  ASSUME NEW c, RedundancyEnabled(c)
  PROVE  /\ DOMAIN GroupTable(c) = {c.node[r].name : r \in Roles}
         /\ \A name \in DOMAIN GroupTable(c) : \E r \in Roles :
               c.node[r].name = name /\ GroupTable(c)[name] = Entry(c, r)
         /\ \A r \in Roles : HasOwnName(c, r) => GroupTable(c)[c.node[r].name] = Entry(c, r)
<1>1. GroupNames(c) = {c.node[r].name : r \in Roles}
  BY DEF GroupNames
<1>2. DOMAIN GroupTable(c) = GroupNames(c)
      /\ \A name \in GroupNames(c) : GroupTable(c)[name] = Entry(c, HolderOf(c, name))
  BY DEF GroupTable
<1>3. ASSUME NEW name \in GroupNames(c)
      PROVE  \E r \in Roles : c.node[r].name = name /\ GroupTable(c)[name] = Entry(c, r)
  BY <1>1, <1>2, <1>3, HolderHasName
<1>4. ASSUME NEW r \in Roles, HasOwnName(c, r)
      PROVE  GroupTable(c)[c.node[r].name] = Entry(c, r)
  <2>1. HolderOf(c, c.node[r].name) = r
    BY <1>4, HolderHasName DEF HasOwnName
  <2>2. QED
    BY <1>1, <1>2, <2>1
<1>5. QED
  BY <1>1, <1>2, <1>3, <1>4

\* A host that knew itself by its name would have known itself twice by a name
\* that two nodes have, and deployed as neither.
LEMMA KnownByOwnName ==
  ASSUME NEW c, RedundancyEnabled(c), NEW h, ByName(c, h) # {}, NEW r \in ContainerRole(c, h, "")
  PROVE  HasOwnName(c, r)
<1>1. Matched(c, h) = ByName(c, h) /\ r \in DetectRole(c, h)
  BY DEF Matched, ContainerRole
<1>2. Cardinality(ByName(c, h)) = 1 /\ r \in ByName(c, h)
  BY <1>1 DEF DetectRole
<1>3. IsFiniteSet(ByName(c, h))
  <2>1. IsFiniteSet({"primary"})
    BY FS_Singleton
  <2>2. IsFiniteSet({"primary"} \cup {"backup"})
    BY <2>1, FS_AddElement
  <2>3. IsFiniteSet({"primary"} \cup {"backup"} \cup {"monitor"})
    BY <2>2, FS_AddElement
  <2>4. ByName(c, h) \subseteq {"primary"} \cup {"backup"} \cup {"monitor"}
    BY DEF ByName, Roles
  <2>5. QED
    BY <2>3, <2>4, FS_Subset
<1>4. ASSUME NEW s \in Roles, c.node[s].name = c.node[r].name PROVE s = r
  <2>1. s \in ByName(c, h)
    BY <1>2, <1>4 DEF ByName
  <2>2. PICK x : ByName(c, h) = {x}
    BY <1>2, <1>3, FS_Singleton
  <2>3. QED
    BY <1>2, <2>1, <2>2
<1>5. QED
  BY <1>4 DEF HasOwnName

(* Hosts that deploy from one file form one group (load.go, roles.go:120-156, *)
(* validate.go:1460-1500, verify_local.go:28-114, render.go:804-812), however *)
(* many they are and whatever the environments they load it in.  Its table is *)
(* complete but for nodes the file gives another's name, and a host that      *)
(* recognised itself by its name is none of those.                           *)
THEOREM HostsFormOneGroup == Spec => []GroupForms
<1>1. ASSUME LoadedAsAccepted, DeployedAsLoaded, NEW h \in Hosts, IsDeployed(h),
             IsContainer(case.platform), NEW q, q = Prepared(case.file, case.platform)
      PROVE  /\ LoadedFrom(conf[h].file, q) /\ DeployedToHost(deployed[h], conf[h].file, h)
             /\ RedundancyEnabled(q) => RequireAll(RequiredInGroup(q))
  <2>1. IsLoaded(h) /\ RightlyDeployed(h)
    BY <1>1 DEF DeployedAsLoaded
  <2>2. LoadedFrom(conf[h].file, q)
    BY <1>1, <2>1, LoadedHost
  <2>3. DeployedToHost(deployed[h], conf[h].file, h)
    BY <1>1, <2>1 DEF RightlyDeployed, IsContainer, Kubernetes, Docker, Podman
  <2>4. ValidateContainer(q, case.platform)
    BY <1>1, <2>2 DEF LoadedFrom, Validate, IsContainer, Kubernetes, Docker, Podman
  <2>5. QED
    BY <2>2, <2>3, <2>4 DEF ValidateContainer
<1>2. ASSUME LoadedAsAccepted, DeployedAsLoaded, NEW h \in Hosts, NEW g \in Hosts, IsDeployed(h), IsDeployed(g),
             IsContainer(case.platform), RedundancyEnabled(conf[h].file)
      PROVE  LET c == conf[h].file
                 table == deployed[h].table
                 self == deployed[h].node
             IN /\ table = deployed[g].table
                /\ \A name \in DOMAIN table : name # "" /\ table[name].connectvia # ""
                /\ \A r \in Roles : HasOwnName(c, r) =>
                      c.node[r].name \in DOMAIN table /\ table[c.node[r].name] = Entry(c, r)
                /\ HasOwnName(c, deployed[h].role) =>
                      self.name \in DOMAIN table /\ table[self.name].nodetype = self.nodetype
                /\ KnewItsName(h) => HasOwnName(c, deployed[h].role)
                /\ \/ h = g \/ deployed[h].pod # "" \/ deployed[g].pod # "" \/ ~Uncrossed(c)
                   \/ deployed[h].role # deployed[g].role
  <2>1. PICK c, d, q : c = conf[h].file /\ d = conf[g].file /\ q = Prepared(case.file, case.platform)
    OBVIOUS
  <2>2. /\ LoadedFrom(c, q) /\ DeployedToHost(deployed[h], c, h)
        /\ LoadedFrom(d, q) /\ DeployedToHost(deployed[g], d, g)
        /\ RedundancyEnabled(q) => RequireAll(RequiredInGroup(q))
    BY <1>1, <1>2, <2>1
  <2>3. RedundancyEnabled(c) /\ RedundancyEnabled(d) /\ RedundancyEnabled(q)
    BY <1>2, <2>1, <2>2 DEF LoadedFrom
  <2>4. c.node = q.node /\ d.node = q.node
    BY <2>2, <2>3 DEF LoadedFrom
  <2> DEFINE table == GroupTable(c)
  <2>5. deployed[h].table = table /\ deployed[g].table = table
    <3>1. GroupTable(d) = GroupTable(c)
      BY <2>3, <2>4 DEF GroupTable, GroupNames, Entry, HolderOf
    <3>2. QED
      BY <2>2, <3>1 DEF DeployedToHost
  <2>13. /\ \A name \in DOMAIN table : \E r \in Roles : c.node[r].name = name /\ table[name] = Entry(c, r)
         /\ \A r \in Roles : c.node[r].name \in DOMAIN table
         /\ \A r \in Roles : HasOwnName(c, r) => table[c.node[r].name] = Entry(c, r)
    BY <2>3, TableOfGroup
  <2> HIDE DEF table
  <2>6. \A name \in DOMAIN table : name # "" /\ table[name].connectvia # ""
    <3>1. \A r \in Roles : c.node[r].name # "" /\ c.node[r].addr # ""
      BY <2>2, <2>3, <2>4 DEF RequireAll, RequiredInGroup
    <3>2. \A r \in Roles : Entry(c, r).connectvia = c.node[r].addr
      BY DEF Entry
    <3>3. ASSUME NEW name \in DOMAIN table PROVE name # "" /\ table[name].connectvia # ""
      <4>1. PICK r \in Roles : c.node[r].name = name /\ table[name] = Entry(c, r)
        BY <2>13, <3>3
      <4>2. QED
        BY <3>1, <3>2, <4>1
    <3>4. QED
      BY <3>3
  <2>7. deployed[h].role \in ContainerRole(c, h, deployed[h].pod) /\ deployed[g].role \in ContainerRole(d, g, deployed[g].pod)
    BY <2>2 DEF DeployedToHost
  <2>8. deployed[h].pod \in Roles \cup {""} /\ deployed[g].pod \in Roles \cup {""}
    BY <2>2 DEF DeployedToHost
  <2>9. /\ deployed[h].role \in Roles
        /\ deployed[h].pod = "" => \/ HostMatches(world[h].hostname, q.node[deployed[h].role].name)
                                   \/ q.node[deployed[h].role].addr \in world[h].addrs
        /\ deployed[g].pod = "" => \/ HostMatches(world[g].hostname, q.node[deployed[g].role].name)
                                   \/ q.node[deployed[g].role].addr \in world[g].addrs
    BY <2>3, <2>4, <2>7, <2>8, RoleFitsHost
  <2>10. HasOwnName(c, deployed[h].role) =>
           /\ deployed[h].node.name \in DOMAIN table
           /\ table[deployed[h].node.name].nodetype = deployed[h].node.nodetype
    <3>4. deployed[h].node = [name |-> c.node[deployed[h].role].name, nodetype |-> NodeType(deployed[h].role)]
      BY <2>2, <2>3 DEF DeployedToHost, ResolveNode
    <3>1. deployed[h].node.name = c.node[deployed[h].role].name
          /\ deployed[h].node.nodetype = NodeType(deployed[h].role)
      BY <3>4
    <3>2. \A r \in Roles : Entry(c, r).nodetype = NodeType(r)
      BY DEF Entry
    <3>3. QED
      BY <2>9, <2>13, <3>1, <3>2
  <2>14. KnewItsName(h) => HasOwnName(c, deployed[h].role)
    BY <2>1, <2>3, <2>7, KnownByOwnName DEF KnewItsName
  <2>11. ASSUME h # g, deployed[h].pod = "", deployed[g].pod = "", Uncrossed(c), deployed[h].role = deployed[g].role
         PROVE  FALSE
    <3>1. PICK r \in Roles : r = deployed[h].role
      BY <2>9
    <3> DEFINE S == {x \in Hosts : HostMatches(world[x].hostname, c.node[r].name) \/ c.node[r].addr \in world[x].addrs}
    <3>2. Cardinality(S) <= 1
      BY <2>11 DEF Uncrossed
    <3>3. h \in S /\ g \in S
      BY <2>4, <2>9, <2>11, <3>1
    <3>4. IsFiniteSet(S)
      BY HostsAssumption, FS_Subset
    <3> HIDE DEF S
    <3>5. QED
      BY <2>11, <3>2, <3>3, <3>4, TwoAreTwo
  <2>12. QED
    BY <2>1, <2>5, <2>6, <2>10, <2>11, <2>13, <2>14
<1>3. LoadedAsAccepted /\ DeployedAsLoaded => GroupForms
  BY <1>2 DEF GroupForms
<1>4. QED
  BY <1>3, LoadedAlways, PTL


-------------------------------------------------------------------------------
(* Nothing a file sets is lost on the way to the broker *)

\* A pair of paths is complete after the move as it was before it.
LEMMA MovedPairComplete ==
  ASSUME NEW c, NEW q, LoadedFrom(c, q)
  PROVE  /\ \A k \in {"cert", "certKey"} : (c.path[k] = "") <=> (q.path[k] = "")
         /\ TLSPairComplete(c) <=> TLSPairComplete(q)
<1>1. \A k \in {"cert", "certKey"} : c.path[k] = HostPath(q.path[k])
  BY DEF LoadedFrom, PathKeys, NeverRebased
<1>2. \A k \in {"cert", "certKey"} : (c.path[k] = "") <=> (q.path[k] = "")
  BY <1>1 DEF HostPath
<1>3. QED
  BY <1>2 DEF TLSPairComplete

\* Each of a container's secrets under its own variable.
LEMMA ContainerVariablesApart ==
  ASSUME NEW c, NoneTwice([i \in DOMAIN c.users |-> FoldToEnvVar(c.users[i].name)])
  PROVE  DeliveredToContainer(c) = {s.key : s \in ContainerSecrets(c)}
<1> DEFINE KeyOf(suffix) == CASE suffix = "ADMIN" -> "adminPass" [] suffix = "PSK" -> "psk"
                              [] suffix = "PHRASE" -> "phrase" [] OTHER -> "cert"
<1>1. ASSUME NEW s \in ContainerSecrets(c)
      PROVE  \/ s.var.suffix # "USER" /\ s.key = KeyOf(s.var.suffix)
             \/ /\ s.var.suffix = "USER"
                /\ \E i \in DOMAIN c.users : s.key = c.users[i].name /\ s.var.user = FoldToEnvVar(c.users[i].name)
  <2>1. \/ s = Secret("adminPass", "ADMIN", "") \/ s = Secret("psk", "PSK", "")
        \/ s = Secret("phrase", "PHRASE", "") \/ s = Secret("cert", "CERT", "")
        \/ \E i \in DOMAIN c.users : s = Secret(c.users[i].name, "USER", FoldToEnvVar(c.users[i].name))
    BY <1>1 DEF ContainerSecrets
  <2>2. ASSUME NEW k, NEW v, NEW u
        PROVE  Secret(k, v, u).key = k /\ Secret(k, v, u).var.suffix = v /\ Secret(k, v, u).var.user = u
    BY DEF Secret
  <2>3. /\ KeyOf("ADMIN") = "adminPass" /\ KeyOf("PSK") = "psk"
        /\ KeyOf("PHRASE") = "phrase" /\ KeyOf("CERT") = "cert"
    OBVIOUS
  <2> HIDE DEF KeyOf
  <2>4. ASSUME NEW k, NEW v, v # "USER", k = KeyOf(v), s = Secret(k, v, "")
        PROVE  s.var.suffix # "USER" /\ s.key = KeyOf(s.var.suffix)
    <3>1. s.var.suffix = v /\ s.key = k
      BY <2>4 DEF Secret
    <3>2. QED
      BY <2>4, <3>1
  <2>5. ASSUME NEW i \in DOMAIN c.users, s = Secret(c.users[i].name, "USER", FoldToEnvVar(c.users[i].name))
        PROVE  /\ s.var.suffix = "USER" /\ s.key = c.users[i].name
               /\ s.var.user = FoldToEnvVar(c.users[i].name)
    BY <2>2, <2>5
  <2>6. QED
    BY <2>1, <2>3, <2>4, <2>5
<1> HIDE DEF KeyOf
<1>2. ASSUME NEW s \in ContainerSecrets(c), NEW t \in ContainerSecrets(c), s.var = t.var
      PROVE  s.key = t.key
  <2>1. CASE s.var.suffix # "USER"
    BY <1>1, <1>2, <2>1
  <2>2. CASE s.var.suffix = "USER"
    <3>1. PICK i \in DOMAIN c.users : s.key = c.users[i].name /\ s.var.user = FoldToEnvVar(c.users[i].name)
      BY <1>1, <2>2
    <3>2. PICK j \in DOMAIN c.users : t.key = c.users[j].name /\ t.var.user = FoldToEnvVar(c.users[j].name)
      BY <1>1, <1>2, <2>2
    <3>3. i = j
      BY <1>2, <3>1, <3>2 DEF NoneTwice, IsInjective
    <3>4. QED
      BY <3>1, <3>2, <3>3
  <2>3. QED
    BY <2>1, <2>2
<1>3. QED
  BY <1>2 DEF DeliveredToContainer

\* What a container's file sets is among its secrets.
LEMMA ContainerHoldsAll ==
  ASSUME NEW c, IsContainer(case.platform), TLSPairComplete(c)
  PROVE  Credentials(c) \subseteq {s.key : s \in ContainerSecrets(c)}
<1>0. case.platform # Kubernetes
  BY DEF IsContainer, Kubernetes, Docker, Podman
<1>1. \A k, v, u : Secret(k, v, u).key = k
  BY DEF Secret
<1> DEFINE K == {s.key : s \in ContainerSecrets(c)}
<1>2. "adminPass" \in K
  <2>1. Secret("adminPass", "ADMIN", "") \in ContainerSecrets(c)
    BY DEF ContainerSecrets
  <2>2. QED
    BY <1>1, <2>1
<1>3. UserNames(c) \subseteq K
  <2>1. ASSUME NEW i \in DOMAIN c.users PROVE c.users[i].name \in K
    <3>1. Secret(c.users[i].name, "USER", FoldToEnvVar(c.users[i].name)) \in ContainerSecrets(c)
      BY DEF ContainerSecrets
    <3>2. QED
      BY <1>1, <3>1
  <2>2. QED
    BY <2>1 DEF UserNames
<1>4. Value(c, "phrase") # "" => "phrase" \in K
  <2>1. Value(c, "phrase") # "" => Secret("phrase", "PHRASE", "") \in ContainerSecrets(c)
    BY DEF ContainerSecrets
  <2>2. QED
    BY <1>1, <2>1
<1>5. RedundancyEnabled(c) => "psk" \in K
  <2>1. RedundancyEnabled(c) => Secret("psk", "PSK", "") \in ContainerSecrets(c)
    BY DEF ContainerSecrets
  <2>2. QED
    BY <1>1, <2>1
<1>6. c.path["cert"] # "" \/ c.path["certKey"] # "" => "cert" \in K
  <2>1. c.path["cert"] # "" \/ c.path["certKey"] # "" => Secret("cert", "CERT", "") \in ContainerSecrets(c)
    BY DEF ContainerSecrets, TLSPairComplete
  <2>2. QED
    BY <1>1, <2>1
<1> HIDE DEF K
<1>7. QED
  <2>1. Credentials(c) \subseteq K
    BY <1>0, <1>2, <1>3, <1>4, <1>5, <1>6 DEF Credentials
  <2>2. QED
    BY <2>1 DEF K

\* Nothing of a container's file is dropped.
LEMMA ContainerDelivers ==
  ASSUME NEW c, NEW q, LoadedFrom(c, q), IsContainer(case.platform)
  PROVE  Credentials(c) \subseteq DeliveredToContainer(c)
<1>1. ValidateContainer(q, case.platform)
  BY DEF LoadedFrom, Validate, IsContainer, Kubernetes, Docker, Podman
<1>2. TLSPairComplete(c)
  BY <1>1, MovedPairComplete DEF ValidateContainer
<1>3. NoneTwice([i \in DOMAIN q.users |-> FoldToEnvVar(q.users[i].name)])
  BY <1>1 DEF ValidateContainer, ValidateAdditionalUsers
<1>4. c.users = q.users
  BY DEF LoadedFrom, Fields
<1>5. DeliveredToContainer(c) = {s.key : s \in ContainerSecrets(c)}
  BY <1>3, <1>4, ContainerVariablesApart
<1>6. QED
  BY <1>2, <1>5, ContainerHoldsAll


NamesApart(f, a, t, m, u) ==
  /\ a # "" => a # t /\ a # m
  /\ t # "" => t # m
  /\ f.users # <<>> /\ u # "" => u # a /\ u # t /\ u # m

\* No two of the Secrets that have a name share it.
LEMMA SecretNamesApart ==
  ASSUME NEW f, ValidateK8sSecretRefs(f),
         NEW a, a = AdminSecretName(f), NEW t, t = TLSServerSecretName(f), NEW m, m = ImagePullSecretName(f),
         NEW u, u = AdditionalUsersSecretName(f)
  PROVE  NamesApart(f, a, t, m, u)
<1> DEFINE S == {a, t, m, u}
           s == <<a, t, m>>
           z == IF f.users # <<>> THEN <<u>> ELSE <<>>
<1>1. s \in Seq(S) /\ Len(s) = 3 /\ s[1] = a /\ s[2] = t /\ s[3] = m
  <2>1. a \in S /\ t \in S /\ m \in S
    OBVIOUS
  <2> HIDE DEF S
  <2>2. QED
    BY <2>1
<1>2. z \in Seq(S) /\ (f.users # <<>> => Len(z) = 1 /\ z[1] = u)
  <2>1. u \in S
    OBVIOUS
  <2> HIDE DEF S
  <2>2. <<u>> \in Seq(S) /\ Len(<<u>>) = 1 /\ <<u>>[1] = u
    BY <2>1
  <2>3. <<>> \in Seq(S)
    OBVIOUS
  <2>4. QED
    BY <2>2, <2>3
<1>3. SecretNames(f) = s \o z
  BY DEF SecretNames
<1> HIDE DEF s, z
<1> DEFINE n == s \o z
<1> HIDE DEF S
<1>4. n \in Seq(S) /\ Len(n) = 3 + Len(z) /\ Len(z) \in Nat
  <2>1. n \in Seq(S) /\ Len(n) = Len(s) + Len(z)
    BY <1>1, <1>2, ConcatProperties
  <2>2. Len(z) \in Nat
    BY <1>2, LenProperties
  <2>3. QED
    BY <1>1, <2>1, <2>2
<1>5. \A i \in 1 .. Len(s) + Len(z) : n[i] = IF i <= Len(s) THEN s[i] ELSE z[i - Len(s)]
  BY <1>1, <1>2, ConcatProperties
<1> HIDE DEF n
<1>6. 1 \in DOMAIN n /\ 2 \in DOMAIN n /\ 3 \in DOMAIN n
  BY <1>4
<1>7. n[1] = a /\ n[2] = t /\ n[3] = m
  BY <1>1, <1>4, <1>5
<1>8. f.users # <<>> => 4 \in DOMAIN n /\ n[4] = u
  BY <1>1, <1>2, <1>4, <1>5
<1>9. \A i, j \in DOMAIN n : i # j /\ n[i] # "" => n[i] # n[j]
  BY <1>3 DEF ValidateK8sSecretRefs, n
<1>0. 1 # 2 /\ 1 # 3 /\ 2 # 3 /\ 4 # 1 /\ 4 # 2 /\ 4 # 3
  OBVIOUS
<1>10. /\ a # "" => a # t /\ a # m
       /\ t # "" => t # m
  <2>1. n[1] # "" => n[1] # n[2] /\ n[1] # n[3]
    BY <1>0, <1>6, <1>9, Zenon
  <2>2. n[2] # "" => n[2] # n[3]
    BY <1>0, <1>6, <1>9, Zenon
  <2>3. QED
    BY <1>7, <2>1, <2>2
<1>11. f.users # <<>> /\ u # "" => u # a /\ u # t /\ u # m
  <2>1. 4 \in DOMAIN n /\ n[4] # "" => n[4] # n[1] /\ n[4] # n[2] /\ n[4] # n[3]
    BY <1>0, <1>6, <1>9, Zenon
  <2>2. QED
    BY <1>7, <1>8, <2>1
<1>12. QED
  BY <1>10, <1>11 DEF NamesApart

\* The names of a loaded file's Secrets: given where there is something to
\* hold, and apart.
SecretsNamed(c) ==
  LET a == AdminSecretName(c)
      t == TLSServerSecretName(c)
      m == ImagePullSecretName(c)
      u == AdditionalUsersSecretName(c)
  IN /\ ManagesAdminSecret(c) => a # "" /\ a # t /\ a # m
     /\ ManagesTLSSecret(c) => t # "" /\ t # a /\ t # m
     /\ ManagesImagePullSecret(c) => m # "" /\ m # a /\ m # t
     /\ c.users # <<>> => u # "" /\ u # a /\ u # t /\ u # m

LEMMA LoadedSecretsNamed ==
  ASSUME case \in Cases, NEW c, NEW q, LoadedFrom(c, q), q = Prepared(case.file, case.platform),
         case.platform = Kubernetes
  PROVE  SecretsNamed(c) /\ ValidateK8s(q)
<1>1. ValidateK8s(q)
  BY DEF LoadedFrom, Validate
<1>2. /\ c.name = q.name /\ c.adminSecret = q.adminSecret /\ c.tlsSecret = q.tlsSecret
      /\ c.pullSecret = q.pullSecret /\ c.secret = q.secret /\ c.users = q.users /\ c.imageUser = q.imageUser
  BY DEF LoadedFrom, Fields
<1>3. ManagesTLSSecret(c) = ManagesTLSSecret(q)
  BY MovedPairComplete DEF ManagesTLSSecret
<1>4. ManagesAdminSecret(c) = ManagesAdminSecret(q) /\ ManagesImagePullSecret(c) = ManagesImagePullSecret(q)
  BY <1>2 DEF ManagesAdminSecret, ManagesImagePullSecret, Value
<1>5. PICK a, t, m, u : /\ a = AdminSecretName(c) /\ t = TLSServerSecretName(c)
                        /\ m = ImagePullSecretName(c) /\ u = AdditionalUsersSecretName(c)
  OBVIOUS
<1>6. /\ a = AdminSecretName(q) /\ t = TLSServerSecretName(q)
      /\ m = ImagePullSecretName(q) /\ u = AdditionalUsersSecretName(q)
  BY <1>2, <1>3, <1>4, <1>5 DEF AdminSecretName, TLSServerSecretName, ImagePullSecretName, AdditionalUsersSecretName
<1>7. ValidateK8sSecretRefs(q) /\ q.name # ""
  BY <1>1 DEF ValidateK8s, RequireAll
<1>8. /\ a # "" => a # t /\ a # m
      /\ t # "" => t # m
      /\ c.users # <<>> /\ u # "" => u # a /\ u # t /\ u # m
  <2>1. NamesApart(q, a, t, m, u)
    BY <1>6, <1>7, SecretNamesApart
  <2>2. QED
    BY <1>2, <2>1 DEF NamesApart
<1>9. c.name = case.file.name
  <2>1. case.file \in EnvFiles /\ case.platform \in Platforms
    BY DEF LoadedFrom
  <2>2. PreparedFrom(case.file, case.platform, q)
    BY <2>1, PreparedFields
  <2>3. QED
    BY <1>2, <2>2 DEF PreparedFrom
<1>10. \A suffix \in {"-admin", "-tls", "-image-pull", "-additional-users"} : c.name \o suffix # ""
  BY <1>9, NamesAssumption
<1>11. ManagesAdminSecret(c) => a # ""
  BY <1>2, <1>5, <1>7, <1>10 DEF AdminSecretName
<1>12. ManagesTLSSecret(c) => t # ""
  BY <1>2, <1>5, <1>7, <1>10 DEF TLSServerSecretName
<1>13. ManagesImagePullSecret(c) => m # ""
  BY <1>5, <1>10 DEF ImagePullSecretName
<1>14. u # ""
  BY <1>5, <1>10 DEF AdditionalUsersSecretName
<1>15. SecretsNamed(c)
  BY <1>5, <1>8, <1>11, <1>12, <1>13, <1>14 DEF SecretsNamed
<1>16. QED
  BY <1>1, <1>15


\* What each Secret holds, by its name: none is replaced by another.
LEMMA BuiltAsNamed ==
  ASSUME NEW c, SecretsNamed(c)
  PROVE  /\ ManagesAdminSecret(c) => BuiltSecrets(c, AdminSecretName(c)) = AdminSecret(c)
         /\ ManagesTLSSecret(c) => BuiltSecrets(c, TLSServerSecretName(c)) = TLSSecret(c)
         /\ ManagesImagePullSecret(c) => BuiltSecrets(c, ImagePullSecretName(c)) = {"imagePass"}
         /\ c.users # <<>> => BuiltSecrets(c, AdditionalUsersSecretName(c)) = UserNames(c)
<1>1. ManagesAdminSecret(c) => BuiltSecrets(c, AdminSecretName(c)) = AdminSecret(c)
  BY DEF SecretsNamed, BuiltSecrets
<1>2. ManagesTLSSecret(c) => BuiltSecrets(c, TLSServerSecretName(c)) = TLSSecret(c)
  BY DEF SecretsNamed, BuiltSecrets
<1>3. ManagesImagePullSecret(c) => BuiltSecrets(c, ImagePullSecretName(c)) = {"imagePass"}
  BY DEF SecretsNamed, BuiltSecrets
<1>4. c.users # <<>> => BuiltSecrets(c, AdditionalUsersSecretName(c)) = UserNames(c)
  BY DEF SecretsNamed, BuiltSecrets
<1>5. QED
  BY <1>1, <1>2, <1>3, <1>4

\* Nothing of a file deployed on Kubernetes is dropped.
LEMMA PodsDeliver ==
  ASSUME case \in Cases, NEW c, NEW q, LoadedFrom(c, q), q = Prepared(case.file, case.platform),
         case.platform = Kubernetes
  PROVE  Credentials(c) \subseteq DeliveredToPods(c)
<1>1. SecretsNamed(c) /\ ValidateK8s(q)
  BY LoadedSecretsNamed
<1>2. c.secret = q.secret /\ c.users = q.users
  BY DEF LoadedFrom, Fields
<1> DEFINE D == DeliveredToPods(c)
           cr == BrokerCR(c)
<1>3. \A s \in {"adminPass", "monitorPass", "psk", "imagePass"} : s \in BuiltSecrets(c, cr[s]) => s \in D
  BY DEF DeliveredToPods, DeliveredBy
<1>4. BuiltSecrets(c, cr["tls"]) \subseteq D /\ (BuiltSecrets(c, cr["users"]) \cap EnvVarNames \subseteq D)
  BY DEF DeliveredToPods, DeliveredBy
<1>5. /\ cr["adminPass"] = AdminSecretName(c) /\ cr["tls"] = TLSServerSecretName(c)
      /\ cr["imagePass"] = ImagePullSecretName(c)
      /\ c.users # <<>> => cr["users"] = AdditionalUsersSecretName(c)
      /\ ManagesAdminSecret(c) /\ AdminSecretName(c) # "" /\ Value(c, "monitorPass") # "" =>
           cr["monitorPass"] = AdminSecretName(c)
      /\ ManagesAdminSecret(c) /\ AdminSecretName(c) # "" /\ PSKConfigured(c) => cr["psk"] = AdminSecretName(c)
  BY DEF BrokerCR
<1> HIDE DEF D, cr
<1>0. ~ManagesAdminSecret(c) => c.secret["monitorPass"] = Unset /\ ~PSKConfigured(c)
  <2>1. ~ManagesAdminSecret(q) => q.secret["monitorPass"] = Unset /\ ~PSKConfigured(q)
    BY <1>1 DEF ValidateK8s, ValidateK8sSecretRefs
  <2>2. ManagesAdminSecret(c) = ManagesAdminSecret(q) /\ PSKConfigured(c) = PSKConfigured(q)
    BY <1>2 DEF ManagesAdminSecret, PSKConfigured, Value
  <2>3. QED
    BY <1>2, <2>1, <2>2
<1>u. Unset.value = ""
  BY DEF Unset, Source
<1>6. Value(c, "monitorPass") # "" => ManagesAdminSecret(c)
  BY <1>0, <1>u DEF Value
<1>7. Value(c, "psk") # "" => ManagesAdminSecret(c) /\ PSKConfigured(c)
  <2>1. Value(c, "psk") # "" => PSKConfigured(c)
    BY <1>u DEF Value, PSKConfigured
  <2>2. QED
    BY <1>0, <2>1
<1>8. ManagesAdminSecret(c) => AdminSecretName(c) # "" /\ BuiltSecrets(c, AdminSecretName(c)) = AdminSecret(c)
  BY <1>1, BuiltAsNamed DEF SecretsNamed
<1>9. \A s \in {"adminPass", "monitorPass", "psk"} : Value(c, s) # "" => s \in D
  <2>1. Value(c, "adminPass") # "" => "adminPass" \in D
    <3>1. Value(c, "adminPass") # "" => ManagesAdminSecret(c) /\ "adminPass" \in AdminSecret(c)
      BY DEF ManagesAdminSecret, AdminSecret
    <3>2. QED
      BY <1>3, <1>5, <1>8, <3>1
  <2>2. Value(c, "monitorPass") # "" => "monitorPass" \in D
    <3>1. Value(c, "monitorPass") # "" => "monitorPass" \in AdminSecret(c)
      BY DEF AdminSecret
    <3>2. QED
      BY <1>3, <1>5, <1>6, <1>8, <3>1
  <2>3. Value(c, "psk") # "" => "psk" \in D
    <3>1. Value(c, "psk") # "" => "psk" \in AdminSecret(c)
      BY DEF AdminSecret
    <3>2. QED
      BY <1>3, <1>5, <1>7, <1>8, <3>1
  <2>4. QED
    BY <2>1, <2>2, <2>3
<1>10. c.imageUser # "" /\ Value(c, "imagePass") # "" => "imagePass" \in D
  BY <1>1, <1>3, <1>5, BuiltAsNamed DEF ManagesImagePullSecret
<1>11. \A k \in {"cert", "certKey"} : c.path[k] # "" => k \in D
  <2>1. \A k \in {"cert", "certKey"} : c.path[k] # "" => ManagesTLSSecret(c) /\ k \in TLSSecret(c)
    BY DEF ManagesTLSSecret, TLSSecret
  <2>2. ManagesTLSSecret(c) => TLSSecret(c) \subseteq D
    BY <1>1, <1>4, <1>5, BuiltAsNamed
  <2>3. QED
    BY <2>1, <2>2
<1>12. UserNames(c) \subseteq D
  <2>1. ASSUME NEW i \in DOMAIN c.users PROVE c.users[i].name \in D
    <3>1. c.users # <<>> /\ c.users[i].name \in UserNames(c)
      BY <2>1 DEF UserNames
    <3>2. c.users[i].name \in EnvVarNames
      BY <1>1, <1>2 DEF ValidateK8s, ValidateAdditionalUsers
    <3>3. QED
      BY <1>1, <1>4, <1>5, <3>1, <3>2, BuiltAsNamed
  <2>2. QED
    BY <2>1 DEF UserNames
<1>13. QED
  <2>1. Credentials(c) \subseteq D
    BY <1>9, <1>10, <1>11, <1>12 DEF Credentials
  <2>2. QED
    BY <2>1 DEF D

\* A sequence without repetition has as many values as places.
LEMMA NoneTwiceCounts ==
  ASSUME NEW P, NEW s \in Seq(P), NoneTwice(s)
  PROVE  Cardinality({s[i] : i \in DOMAIN s}) = Len(s)
<1> DEFINE R == {s[i] : i \in DOMAIN s}
<1>1. DOMAIN s = 1 .. Len(s) /\ Len(s) \in Nat /\ s \in [1 .. Len(s) -> R]
  BY LenProperties
<1>2. s \in Bijection(1 .. Len(s), R)
  BY <1>1 DEF NoneTwice, Bijection, Injection, Surjection
<1>3. ExistsBijection(1 .. Len(s), R)
  BY <1>2 DEF ExistsBijection
<1> HIDE DEF R
<1>4. IsFiniteSet(1 .. Len(s)) /\ Cardinality(1 .. Len(s)) = Len(s)
  BY <1>1, FS_Interval, SMTT(30)
<1>5. Cardinality(R) = Len(s)
  BY <1>3, <1>4, FS_Bijection
<1>6. QED
  BY <1>5 DEF R

\* Every port of a file deployed on Kubernetes is published.
LEMMA PortsPublished ==
  ASSUME case \in Cases, NEW c, NEW q, LoadedFrom(c, q), q = Prepared(case.file, case.platform),
         case.platform = Kubernetes
  PROVE  Cardinality({p.service : p \in BrokerCR(c).ports}) = Len(c.ports)
<1> DEFINE s == [i \in DOMAIN c.ports |-> c.ports[i].service]
<1>1. c.ports = q.ports /\ q.ports = case.file.ports /\ case.file \in EnvFiles
  <2>1. case.file \in EnvFiles /\ case.platform \in Platforms
    BY DEF LoadedFrom
  <2>2. PreparedFrom(case.file, case.platform, q)
    BY <2>1, PreparedFields
  <2>3. c.ports = q.ports
    BY DEF LoadedFrom, Fields
  <2>4. QED
    BY <2>1, <2>2, <2>3 DEF PreparedFrom
<1>2. PICK P : c.ports \in Seq(P)
  BY <1>1, WrittenFields
<1>3. s \in Seq({p.service : p \in P}) /\ Len(s) = Len(c.ports) /\ DOMAIN s = DOMAIN c.ports
  BY <1>2
<1>4. NoneTwice(s)
  <2>1. ValidateK8s(q)
    BY DEF LoadedFrom, Validate
  <2>2. QED
    BY <1>1, <2>1 DEF ValidateK8s, ValidateK8sPorts
<1>5. Cardinality({s[i] : i \in DOMAIN s}) = Len(c.ports)
  BY <1>3, <1>4, NoneTwiceCounts
<1>6. {p.service : p \in BrokerCR(c).ports} = {s[i] : i \in DOMAIN s}
  <2>1. BrokerCR(c).ports = {[name |-> c.ports[i].name, service |-> c.ports[i].service] : i \in DOMAIN c.ports}
    BY DEF BrokerCR
  <2>2. ASSUME NEW i \in DOMAIN c.ports
        PROVE  [name |-> c.ports[i].name, service |-> c.ports[i].service].service = s[i]
    OBVIOUS
  <2>3. {p.service : p \in BrokerCR(c).ports} \subseteq {s[i] : i \in DOMAIN s}
    BY <1>3, <2>1, <2>2
  <2>4. {s[i] : i \in DOMAIN s} \subseteq {p.service : p \in BrokerCR(c).ports}
    BY <1>3, <2>1, <2>2, ZenonT(60)
  <2>5. QED
    BY <2>3, <2>4
<1>7. QED
  BY <1>5, <1>6

(* Every credential of a file reaches the broker deployed from it, and every *)
(* port is published (validate.go:1352-1422, 1216-1298, config.go:117-220),  *)
(* whatever names, users and Secrets the file gives.                         *)
THEOREM NothingIsDropped == Spec => []NothingDropped
<1>1. ASSUME LoadedAsAccepted, DeployedAsLoaded, NEW h \in Hosts, IsDeployed(h)
      PROVE  /\ Credentials(conf[h].file) \subseteq deployed[h].delivered
             /\ case.platform = Kubernetes =>
                  Cardinality({p.service : p \in deployed[h].cr.ports}) = Len(conf[h].file.ports)
  <2>1. PICK c, q : c = conf[h].file /\ q = Prepared(case.file, case.platform)
    OBVIOUS
  <2>2. IsLoaded(h) /\ RightlyDeployed(h)
    BY <1>1 DEF DeployedAsLoaded
  <2>3. LoadedFrom(c, q) /\ case \in Cases
    BY <1>1, <2>1, <2>2, LoadedHost DEF LoadedAsAccepted
  <2>4. CASE case.platform = Kubernetes
    <3>1. DeployedToPods(deployed[h], c)
      BY <2>1, <2>2, <2>4 DEF RightlyDeployed
    <3>2. Credentials(c) \subseteq deployed[h].delivered
      BY <2>1, <2>3, <2>4, <3>1, PodsDeliver DEF DeployedToPods
    <3>3. Cardinality({p.service : p \in deployed[h].cr.ports}) = Len(c.ports)
      BY <2>1, <2>3, <2>4, <3>1, PortsPublished DEF DeployedToPods
    <3>4. QED
      BY <2>1, <3>2, <3>3
  <2>5. CASE case.platform # Kubernetes
    <3>1. IsContainer(case.platform)
      BY <2>3, <2>5 DEF LoadedFrom, Platforms, IsContainer
    <3>2. DeployedToHost(deployed[h], c, h)
      BY <2>1, <2>2, <2>5 DEF RightlyDeployed
    <3>3. Credentials(c) \subseteq deployed[h].delivered
      BY <2>3, <3>1, <3>2, ContainerDelivers DEF DeployedToHost
    <3>4. QED
      BY <2>1, <2>5, <3>3
  <2>6. QED
    BY <2>4, <2>5
<1>2. LoadedAsAccepted /\ DeployedAsLoaded => NothingDropped
  BY <1>1 DEF NothingDropped
<1>3. QED
  BY <1>2, LoadedAlways, PTL
===============================================================================
