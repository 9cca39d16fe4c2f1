------------------------------ MODULE MCEnvHosts ------------------------------
(***************************************************************************)
(* Env files for EnvHosts: one plain file per platform, and slices of files *)
(* that vary the few fields a property is about.                           *)
(***************************************************************************)
EXTENDS EnvHosts

Text == Source("text", "")
Ref == Source("", "VAR")
MCHosts == {"h1", "h2", "h3"}

Node(name, addr) == [name |-> name, addr |-> addr]
Nodes(p, b, m) == [r \in Roles |-> CASE r = "primary" -> p [] r = "backup" -> b [] OTHER -> m]

Plain ==
    [retired |-> "", ha |-> "", secret |-> [s \in SharedSecrets |-> IF s = "adminPass" THEN Text ELSE Unset],
     users |-> <<>>, imageUser |-> "", tag |-> "10.26", name |-> "sol", size |-> "30Gi", class |-> "",
     claims |-> <<>>, adminSecret |-> "", tlsSecret |-> "", pullSecret |-> "", ports |-> <<>>,
     node |-> Nodes(Node("", ""), Node("", ""), Node("", "")), tier |-> 0, cpuset |-> <<>>,
     monitorCpuset |-> <<>>, cluster |-> <<>>, runtime |-> <<>>, compose |-> <<>>, rootless |-> FALSE,
     sites |-> <<>>, vpns |-> <<>>, caNames |-> {}, probe |-> "off", malformed |-> {},
     path |-> [k \in {"cert", "certKey", "ca", "scripts", "composeFile", "dataDir", "quadletDir",
                      "baseDir", "domainCert"} |-> IF k \in {"dataDir", "domainCert"} THEN "abs" ELSE ""]]

On(platforms, files) == [platform : platforms, file : files, approved : {{}}]
AllPlatforms == {Kubernetes, Docker, Podman}

-----------------------------------------------------------------------------
(* Which Secret carries which credential.                                  *)
SecretFiles ==
    {[Plain EXCEPT !.secret["adminPass"] = a, !.secret["monitorPass"] = m, !.secret["psk"] = k, !.adminSecret = n,
                   !.path["cert"] = c, !.path["certKey"] = c, !.tlsSecret = t] :
        a \in {Unset, Text, Ref}, m \in {Unset, Ref}, k \in {Unset, Text},
        n \in {"", "mine", "sol-admin", "sol-tls", "sol-pubsubplus-admin-creds"},
        c \in {"", "abs"}, t \in {"", "mine", "sol-admin"}}
PullFiles ==
    {[Plain EXCEPT !.imageUser = u, !.secret["imagePass"] = p, !.pullSecret = n] :
        u \in {"", "user"}, p \in {Unset, Text, Ref}, n \in {"", "mine", "sol-admin"}}
HalfPairs == {[Plain EXCEPT !.path["cert"] = c, !.path["certKey"] = k] : c \in {"", "abs"}, k \in {"", "abs"}}

User(n, l, p) == [name |-> n, level |-> l, pass |-> p]
SomeUsers == {User(n, "admin", Text) : n \in {"ops", "OPS", "a_b", "a.b", "monitor"}}
                 \cup {User("x", "root", Text), User("a_b", "none", Ref), User("ops", "none", Source("control", ""))}
UserFiles == {[Plain EXCEPT !.users = u] : u \in SeqOf(SomeUsers, 2)}

Ports == [name : {"a", "b"}, container : {1, 2}, service : {1, 2}]
PortFiles == {[Plain EXCEPT !.ports = <<p, q>>] : p \in Ports, q \in Ports}

Claims == {<<>>, "primary" :> "pvc", "primary" :> "", [r \in Roles |-> "pvc"], "prmary" :> "pvc"}
StorageFiles == {[Plain EXCEPT !.claims = c, !.class = k, !.size = z, !.ha = h] :
                    c \in Claims, k \in {"", "fast"}, z \in {"", "30Gi"}, h \in {"true", "false"}}

-----------------------------------------------------------------------------
(* Commands and paths.                                                     *)
ClusterCommands == {<<"oc">>, <<"sudo", "kubectl">>, <<"kubectl", "--context", "x">>, <<"kubectl", "x">>,
                    <<"kubectl", "--kubeconfig", "~/">>, <<"abs">>, <<"lxc", "kubectl">>, <<"Sudo">>,
                    <<"kubectl", "--server=x", "x">>, <<"kubectl", "--">>, <<"kubectl", "$x">>}
RuntimeCommands == {<<>>, <<"nerdctl">>, <<"docker", "--context", "x">>, <<"docker", "--context">>,
                    <<"docker", "compose">>, <<"lxc", "docker">>}
ComposeCommands == {<<>>, <<"docker-compose">>, <<"docker", "compose">>, <<"docker", "compose", "--context">>,
                    <<"sudo", "docker-compose">>}
Approvals == {{}, {"lxc"}, {"sudo"}}
CommandCases ==
    [platform : {Kubernetes}, file : {[Plain EXCEPT !.cluster = c] : c \in ClusterCommands}, approved : Approvals]
    \cup [platform : {Docker, Podman}, approved : Approvals,
          file : {[Plain EXCEPT !.runtime = r, !.compose = c] : r \in RuntimeCommands, c \in ComposeCommands}]

PathFiles == {[Plain EXCEPT !.path[k] = p, !.rootless = r, !.caNames = {"root"}] :
                  k \in DOMAIN Plain.path \ {"cert", "certKey"}, r \in BOOLEAN,
                  p \in {"", "abs", "rel", "~/", "~user", "a b", "$x"}}
OddFiles == {[Plain EXCEPT !.malformed = {m}] : m \in SharedFormats \cup KubernetesFormats \cup ContainerFormats}
                \cup {[Plain EXCEPT !.retired = r] : r \in {"admin", "runtime", "shmSize", "msgNode.cpu", "maxPool"}}
                \cup {[Plain EXCEPT !.caNames = {n}] : n \in {"root", "", "a..b"}}
                \cup {[Plain EXCEPT !.ha = "maybe"], [Plain EXCEPT !.name = ""]}

-----------------------------------------------------------------------------
(* Pairs of sites.                                                         *)
Endpoint(h, t) == [host |-> h, port |-> "55555", transport |-> t]
NoVia == [kube |-> <<>>, semp |-> <<>>]
Kube(cmd) == [NoVia EXCEPT !.kube = <<[command |-> cmd, name |-> "sol"]>>]
Semp(pass, ref) == [NoVia EXCEPT !.semp = <<[pass |-> pass, passSecret |-> ref]>>]
Site(v, routers, eps, via) == [vrn |-> v, routers |-> routers, endpoints |-> eps, via |-> via]

Near == Site("v1", <<"r1", "r2">>, <<Endpoint("e1", "")>>, Kube(<<"oc">>))
Routers == {<<"r3", "r4">>, <<"r3">>, <<"r1", "r3">>, <<"r3", "r3">>, <<>>, <<"r3", "">>}
Vias == {NoVia, Kube(<<"kubectl", "--kubeconfig", "~/">>), Kube(<<"sudo">>), Kube(<<>>), Semp(Text, ""),
         Semp(Unset, "ref"), Semp(Unset, "bad"), Semp(Unset, ""), Semp(Text, "ref")}
Endpoints == {<<Endpoint("e2", "ssl")>>, <<Endpoint("e2", ""), Endpoint("e2", "plainText")>>, <<>>,
              <<Endpoint("e2", ""), Endpoint("e3", "plainText"), Endpoint("e4", "")>>}
FarSites == {Site(v, r, <<Endpoint("e2", "")>>, NoVia) : v \in {"v1", "v2", ""}, r \in Routers}
                \cup {Site("v2", <<"r3">>, e, NoVia) : e \in Endpoints}
                \cup {Site("v2", <<"r3">>, <<Endpoint("e2", "")>>, v) : v \in Vias}
Vpns == {<<>>, <<[name |-> "a", at |-> "v1"], [name |-> "b", at |-> "v2"]>>,
         <<[name |-> "a", at |-> "v1"], [name |-> "a", at |-> "v2"]>>, <<[name |-> "a", at |-> "v9"]>>}
SiteFiles == {[Plain EXCEPT !.sites = <<Near, f>>, !.vpns = v] : f \in FarSites, v \in Vpns}
                 \cup {[Plain EXCEPT !.sites = <<Near>>]}

-----------------------------------------------------------------------------
(* Groups of containers.                                                   *)
Tables == {Nodes(Node("n1", "a1"), Node("n2", "a2"), Node("n3", "a3")),
           Nodes(Node("p", "a1"), Node("b", "a2"), Node("m", "a3")),
           Nodes(Node("n1.x", "a1"), Node("b", "a2"), Node("n3", "")),
           Nodes(Node("n1", "a1"), Node("", "a2"), Node("n3", "a3")),
           Nodes(Node("n1", "a2"), Node("b", "a1"), Node("m", "a3")),
           Nodes(Node("n1", "a1"), Node("n1", "a2"), Node("n3", "a3")),
           Nodes(Node("p", "a1"), Node("b", "a2"), Node("p", "a3"))}
GroupFiles == {[Plain EXCEPT !.ha = h, !.node = t, !.secret["psk"] = k, !.secret["phrase"] = w,
                             !.path["cert"] = c, !.path["certKey"] = c] :
                  h \in {"true", ""}, t \in Tables \cup {Plain.node}, k \in {Unset, Ref},
                  w \in {Unset, Ref}, c \in {"", "rel"}}
SizedFiles == {[Plain EXCEPT !.tier = t, !.cpuset = c, !.monitorCpuset = m, !.probe = p, !.tag = g] :
                  t \in {0, 10000, 500}, c \in {<<>>, <<0, 1>>}, m \in {<<>>, <<0, 1>>},
                  p \in {"off", "builtin"}, g \in {"10.26", "10.25", "latest", ""}}

-----------------------------------------------------------------------------
Host(name, addrs, home, exported) == [hostname |-> name, addrs |-> addrs, home |-> home, exported |-> exported]
Three(a, b, c) == [h \in MCHosts |-> CASE h = "h1" -> a [] h = "h2" -> b [] OTHER -> c]

MCWorlds == {Three(Host("n1", {"a1"}, "home", {"VAR"}), Host("n2", {"a2"}, "home", {"VAR"}),
                   Host("n3", {"a3"}, "spaced", {"VAR"})),
             Three(Host("n1.x", {"a9"}, "home", {"VAR"}), Host("c2", {"a2"}, "none", {}),
                   Host("c3", {"a1", "a3"}, "home", {"VAR"}))}

MCCases == On({Kubernetes}, SecretFiles \cup PullFiles \cup PortFiles \cup StorageFiles)
               \cup On({Docker, Podman}, GroupFiles \cup SizedFiles)
               \cup On(AllPlatforms, HalfPairs \cup UserFiles \cup PathFiles \cup OddFiles)
               \cup On({Kubernetes, Docker}, SiteFiles)
               \cup CommandCases

(* The paths of a podman host alone.                                       *)
QuadletCases == On({Podman}, PathFiles)

(* One site reached over SEMP, its password in a variable.                  *)
ReferenceCases == On({Kubernetes}, {[Plain EXCEPT !.secret["adminPass"] = a, !.sites =
                      <<Near, Site("v2", <<"r3">>, <<Endpoint("e2", "")>>, Semp(p, ""))>>] :
                      a \in {Text, Ref}, p \in {Text, Ref}})
=============================================================================
