------------------------------ MODULE ExecGuard ------------------------------
(***************************************************************************)
(* What a command and a host path written in an env file may be            *)
(* (internal/config/execguard.go, internal/config/hostpath.go).  Pure      *)
(* operators: EnvFile applies them when a file is loaded, EnvHosts applies *)
(* the same CheckCommand again just before a command is run.               *)
(*                                                                         *)
(* A token of a command is a word of the small vocabulary below, told      *)
(* apart by the sets it belongs to; a path is one of the forms the code    *)
(* distinguishes.  A trailing .exe is dropped (execBase).                  *)
(***************************************************************************)
EXTENDS Naturals, Sequences, FiniteSets, SequencesExt

Kubernetes == "kubernetes"
Docker == "docker"
Podman == "podman"
IsContainer(p) == p \in {Docker, Podman}

(* Words that start with '-': alone, or carrying their value after an '='. *)
BareFlags == {"--context", "--kubeconfig"}
JoinedFlags == {"--server=x"}
EndOfFlags == "--"
Flags == BareFlags \cup JoinedFlags \cup {EndOfFlags}

(* Words checkToken refuses wherever they stand: empty, carrying a space,  *)
(* a control or an unsafe character.                                       *)
Unclean == {"", "a b", "$x"}

(* Paths, as tokens and as values of the path keys.  "~/" and "~user" start *)
(* with a tilde; "home/" is what "~/" expands to, "spaced" what it expands  *)
(* to where the home directory carries a space, "base/" a relative path     *)
(* joined to the directory of the env file.                                 *)
Tilded == {"~/", "~user"}
AbsolutePaths == {"abs", "home/", "base/"}
TokenPaths == AbsolutePaths \cup Tilded \cup {"rel", "spaced"}

ExecBinaries ==
    (Kubernetes :> {"kubectl", "oc"}) @@ (Docker :> {"docker", "docker-compose", "nerdctl"})
        @@ (Podman :> {"podman"})

NeverAllowed == {"sudo", "doas"}
Lower(tok) == IF tok = "Sudo" THEN "sudo" ELSE tok
Escalator(tok) == Lower(tok) \in NeverAllowed

Rules(p) == [platform |-> p, subword |-> {}]
ComposeRules == [platform |-> Docker, subword |-> {"compose"}]

(* commandRules.allowed: the platform's binaries and the ones approved on  *)
(* the command line, never one that raises privileges.                     *)
Allowed(r, extra) == {b \in ExecBinaries[r.platform] \cup extra : ~Escalator(b)}

CheckToken(tok) == tok \notin Unclean \cup Tilded \cup {"spaced"}

CheckBinary(tok, allowed) == tok \notin TokenPaths /\ tok \in allowed

(* Whether the token after argv[0] at i may stand there: a flag, an        *)
(* allowed binary, the field's one subcommand in the last place, or the    *)
(* value of the flag before it.                                            *)
FlagShapeAt(r, cmd, i, allowed) ==
    /\ cmd[i] # EndOfFlags
    /\ \/ cmd[i] \in Flags
       \/ cmd[i] \in allowed
       \/ cmd[i] \in r.subword /\ i = Len(cmd)
       \/ cmd[i - 1] \in Flags \ JoinedFlags

CheckCommand(r, cmd, extra) ==
    /\ cmd # <<>>
    /\ \A i \in DOMAIN cmd : CheckToken(cmd[i])
    /\ CheckBinary(cmd[1], Allowed(r, extra))
    /\ \A i \in DOMAIN cmd \ {1} : FlagShapeAt(r, cmd, i, Allowed(r, extra))

(* AllowCommands: every approval is a clean bare name that raises no        *)
(* privileges.                                                             *)
AllowCommands(names) == \A n \in names : CheckToken(n) /\ n \notin TokenPaths /\ ~Escalator(n)

(* composeOrDerived: docker.compose, or the runtime's own subcommand.      *)
ComposeOrDerived(compose, command) == IF compose # <<>> THEN compose ELSE Append(command, "compose")

-----------------------------------------------------------------------------
(* A home directory is known ("home"), unknown ("none") or carries a space *)
(* ("spaced").                                                             *)

(* tildeHome fails for another user's home and for an unknown one;         *)
(* expandTilde refuses a space in the result, whoever wrote it.            *)
Expandable(p, home) == /\ p # "~user"
                       /\ p = "~/" => home = "home"
                       /\ p \notin {"a b", "spaced"}
ExpandTilde(p) == IF p = "~/" THEN "home/" ELSE p

(* expandCommandHomes rewrites every token but argv[0].                     *)
CommandExpandable(cmd, home) == \A i \in DOMAIN cmd \ {1} : Expandable(cmd[i], home)
ExpandCommand(cmd) == [i \in DOMAIN cmd |-> IF i = 1 THEN cmd[i] ELSE ExpandTilde(cmd[i])]

(* CheckHostPath runs on the path as written, once a '~' is expanded; an   *)
(* empty one is left to the checks that ask for a value.                   *)
CheckHostPath(p) == p \notin {"a b", "$x", "spaced"} \cup Tilded
IsAbsHostPath(p) == p \in AbsolutePaths

(* rebaseHostPaths joins a relative path to the env file's own directory.  *)
\* Broken on purpose: the path is used as it is written.
HostPathAsWritten(p) == p
HostPath(p) == IF p = "" \/ IsAbsHostPath(p) THEN p ELSE "base/"
=============================================================================
