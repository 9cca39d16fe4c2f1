------------------------- MODULE ClusterBroker_proofs -------------------------
(* Theorems about ClusterBroker: for any nodes, permissions, certificates,   *)
(* commands, failures and objects of other people.                           *)
EXTENDS ClusterBroker, SequenceTheorems, TLAPS

-------------------------------------------------------------------------------
(* The inductive invariant.                                                  *)

\* What the last command ended with is forgotten as soon as the next begins.
Telling == cmd.phase # "idle" => told = "none"

\* Past its first gate, a command has every permission it will use, and before
\* the namespace it has written nothing.
GatesInv ==
  /\ cmd.phase = "namespace" => ~cmd.wrote
  /\ cmd.phase \in {"namespace", "secrets", "resource"} => DeployAllowed
  /\ cmd.phase \in {"delete", "claims", "clean"} => RemovalAllowed(cmd.purge)

\* No node the operator provisions has data.
NoManagedData == \A r \in Roles \ Custom : data[r] = None

\* While the password is the operator's to generate, data was booted with the
\* one it holds, if it holds any; a deploy that is about to leave it to the
\* operator finds no data, or a broker of that kind already.
PasswordInv ==
  "claims" \in may /\ ~blind =>
    /\ cr # None /\ cr.admin = "unset" => \A r \in Roles \ Custom : data[r] \in {None, gen}
    /\ cmd.phase \in {"namespace", "secrets", "resource"} /\ file.admin = "unset" =>
         \/ cr = None /\ NoManagedData
         \/ cr # None /\ cr.admin = "unset"

\* What each phase of a removal has already taken.
RemovalInv ==
  /\ cmd.phase \in {"claims", "clean", "occupancy", "question"} => cr = None
  /\ cmd.phase \in {"clean", "occupancy", "question"} /\ cmd.purge => NoManagedData
  /\ cmd.phase \in {"occupancy", "question"} => (OwnsAdmin => ~built) /\ (OwnsTLS => tls = 0)
  /\ cmd.phase = "question" =>
       /\ ~file.protected /\ data = NoData /\ ~built /\ tls = 0 /\ (others => late)
       /\ pods = NoPods /\ gen = None

\* A pod that does not run, has no certificate, or has the Secret's.
Current(r) == pods[r] \in {None, Leaving, 0, tls}

\* A command that has made pods out of date, or may have, and has the restart
\* of them still ahead.
Pending == \/ cmd.phase \in {"restart", "load"}
           \/ cmd.changed /\ cmd.phase \in {"resource", "confirm", "offer"}

StillToDo == {cmd.left[i] : i \in 1..Len(cmd.left)}

\* Pods are current, except those a command under way will come to, or one
\* that was cut short has left.
CertInv ==
  /\ cr = None => \A r \in Roles : pods[r] \in {None, Leaving}
  /\ cmd.phase \in {"namespace", "secrets"} /\ OwnsTLS /\ ~cmd.changed => tls \in {0, file.cert}
  /\ cmd.phase = "load" => tls = file.cert
  /\ cmd.phase \in {"restart", "load"} =>
       cmd.left # <<>> /\ \A r \in Roles \ StillToDo : Current(r)
  /\ ~stale /\ ~Pending => \A r \in Roles : Current(r)

IInv == TypeOK /\ Telling /\ GatesInv /\ PasswordInv /\ RemovalInv /\ CertInv

-------------------------------------------------------------------------------
(* Types.                                                                    *)

\* Nothing has happened yet.
LEMMA InitInv == Init => IInv
<1> SUFFICES ASSUME Init PROVE IInv
  OBVIOUS
<1> USE DEF Init, Idle, NoData, NoPods
<1>1. TypeOK
  <2>1. cmd \in Commands /\ told \in Outcomes /\ spent \in Uses
    BY DEF Commands, Phases, Outcomes, Uses
  <2>2. file \in EnvFiles /\ cr \in Resources
    BY DEF EnvFiles, Resources
  <2>3. tls \in 0..MaxCert
    BY BoundsAssumption
  <2> QED BY <2>1, <2>2, <2>3 DEF TypeOK
<1>2. Telling /\ GatesInv /\ PasswordInv /\ RemovalInv
  BY DEF Telling, GatesInv, PasswordInv, RemovalInv
<1>3. CertInv
  BY DEF CertInv, Current, Pending
<1> QED BY <1>1, <1>2, <1>3 DEF IInv

\* What is left of a restart stays a list of nodes.
LEMMA Lists ==
  /\ RestartOrder \in Seq(Roles) /\ RestartOrder # <<>>
  /\ <<>> \in Seq(Roles)
  /\ \A s \in Seq(Roles) : s # <<>> => Tail(s) \in Seq(Roles) /\ Head(s) \in Roles
<1>1. RestartOrder \in Seq(Roles)
  BY RolesAssumption
<1>2. RestartOrder # <<>>
  BY RolesAssumption DEF Roles
<1> QED BY <1>1, <1>2

\* What the steps do to the record of the command, of the bounds used up, and
\* to the tables of the nodes keeps their types.
LEMMA Moves ==
  ASSUME TypeOK
  PROVE  /\ Idle \in Commands
         /\ \A p \in Phases : [cmd EXCEPT !.phase = p] \in Commands
         /\ \A p \in Phases : [cmd EXCEPT !.phase = p, !.wrote = TRUE] \in Commands
         /\ \A p \in Phases, b \in BOOLEAN :
              /\ [Idle EXCEPT !.phase = p, !.changed = b] \in Commands
              /\ [Idle EXCEPT !.phase = p, !.purge = b] \in Commands
         /\ \A p \in Phases, s \in Seq(Roles) :
              /\ [cmd EXCEPT !.phase = p, !.left = s] \in Commands
              /\ [Idle EXCEPT !.phase = p, !.left = s] \in Commands
              /\ [Idle EXCEPT !.phase = p, !.left = s, !.wrote = TRUE] \in Commands
         /\ cmd.left # <<>> => [cmd EXCEPT !.left = Tail(@)] \in Commands
<1>1. "idle" \in Phases
  BY DEF Phases
<1>2. cmd \in Commands
  BY DEF TypeOK
<1>3. Idle \in Commands
  BY <1>1, Lists DEF Idle, Commands
<1>4. cmd.left \in Seq(Roles)
  BY <1>2 DEF Commands
<1>5. cmd.left # <<>> => [cmd EXCEPT !.left = Tail(@)] \in Commands
  <2>1. \A s \in Seq(Roles) : [cmd EXCEPT !.left = s] \in Commands
    BY <1>2 DEF Commands
  <2> QED BY <2>1, <1>4, Lists
<1>6. \A p \in Phases, b \in BOOLEAN, c \in Commands :
        /\ [c EXCEPT !.phase = p] \in Commands
        /\ [c EXCEPT !.phase = p, !.wrote = TRUE] \in Commands
        /\ [c EXCEPT !.phase = p, !.changed = b] \in Commands
        /\ [c EXCEPT !.phase = p, !.purge = b] \in Commands
  BY DEF Commands
<1>7. \A p \in Phases, s \in Seq(Roles), c \in Commands :
        /\ [c EXCEPT !.phase = p, !.left = s] \in Commands
        /\ [c EXCEPT !.phase = p, !.left = s, !.wrote = TRUE] \in Commands
  BY DEF Commands
<1> QED BY <1>2, <1>3, <1>5, <1>6, <1>7

LEMMA Counts ==
  ASSUME TypeOK
  PROVE  /\ [spent EXCEPT !.commands = @ + 1] \in Uses
         /\ [spent EXCEPT !.faults = @ + 1] \in Uses
         /\ [spent EXCEPT !.generated = @ + 1] \in Uses
         /\ [spent EXCEPT !.others = @ + 1] \in Uses
  BY DEF TypeOK, Uses

LEMMA UpTypes ==
  ASSUME TypeOK, NEW r \in Roles, cr # None, cr.admin = "unset" => gen # None, Up(r)
  PROVE  /\ data' \in [Roles -> 0..MaxGenerated \cup {None}]
         /\ pods' \in [Roles -> 0..MaxCert \cup {None, Leaving}]
  BY BoundsAssumption DEF TypeOK, Up

\* The command and what it ends with keep their types.
LEMMA CommandTypes ==
  ASSUME TypeOK, CertInv, [Next]_vars
  PROVE  cmd' \in Commands /\ told' \in Outcomes /\ spent' \in Uses
<1> USE Moves, Counts DEF TypeOK, Phases, Outcomes, Goto, Wrote, End, Fault, NoFault, Start
<1>1. CASE StartDeploy
  BY <1>1 DEF StartDeploy, CertChanged, OwnsTLS
<1>2. CASE EnsureNamespace
  BY <1>2 DEF EnsureNamespace
<1>3. CASE CreateSecrets
  BY <1>3 DEF CreateSecrets
<1>4. CASE DeployBroker
  BY <1>4 DEF DeployBroker
<1>5. CASE Confirm
  BY <1>5 DEF Confirm
<1>6. CASE OfferRestart
  BY ZenonT(60), <1>6, Lists DEF OfferRestart
<1>7. CASE RestartPod
  BY <1>7 DEF RestartPod, NextPod, CertInv
<1>8. CASE StartRestart
  BY <1>8, Lists DEF StartRestart
<1>9. CASE StartServerCerts
  BY <1>9, Lists DEF StartServerCerts
<1>10. CASE LoadCert
  BY <1>10 DEF LoadCert, NextPod, CertInv
<1>11. CASE StartRemove
  BY <1>11 DEF StartRemove
<1>12. CASE DeleteResource
  BY <1>12 DEF DeleteResource
<1>13. CASE DeleteClaims
  BY <1>13 DEF DeleteClaims, AfterClaims
<1>14. CASE DeleteSecrets
  BY <1>14 DEF DeleteSecrets
<1>15. CASE Occupancy
  BY <1>15 DEF Occupancy
<1>16. CASE DeleteNamespace
  BY <1>16 DEF DeleteNamespace
<1>17. CASE Generate
  BY <1>17 DEF Generate
<1>18. CASE EditFile
  BY <1>18 DEF EditFile
<1>19. CASE PutOther
  BY <1>19 DEF PutOther
<1>20. ASSUME NEW r \in Roles, StartPod(r) \/ PodGoes(r) PROVE UNCHANGED <<cmd, told, spent>>
  BY <1>20 DEF StartPod, PodGoes
<1>21. CASE UNCHANGED vars
  BY <1>21 DEF vars
<1> QED BY <1>1, <1>2, <1>3, <1>4, <1>5, <1>6, <1>7, <1>8, <1>9, <1>10, <1>11, <1>12, <1>13, <1>14, <1>15, <1>16, <1>17, <1>18, <1>19, <1>20, <1>21 DEF Next

\* What the command finds and changes keeps its type.
LEMMA ClusterTypes ==
  ASSUME TypeOK, CertInv, [Next]_vars
  PROVE  TypeOK'
<1>1. cmd' \in Commands /\ told' \in Outcomes /\ spent' \in Uses
  BY CommandTypes
<1> USE <1>1 DEF TypeOK, inside
<1>2. CASE StartDeploy \/ Confirm \/ OfferRestart \/ StartRestart \/ StartRemove \/ Occupancy
  <2>1. UNCHANGED <<file, may, ns, inside, others>>
    BY <1>2 DEF StartDeploy, Confirm, OfferRestart, StartRestart, StartRemove, Occupancy
  <2>2. stale' \in BOOLEAN /\ late' \in BOOLEAN /\ blind' \in BOOLEAN
    BY <1>2 DEF StartDeploy, Confirm, OfferRestart, StartRestart, StartRemove, Occupancy, Renewed
  <2> QED BY <2>1, <2>2
<1>3. CASE EnsureNamespace
  BY <1>3 DEF EnsureNamespace
<1>4. CASE CreateSecrets
  <2>1. tls' \in 0..MaxCert
    BY <1>4 DEF CreateSecrets, EnvFiles
  <2>2. built' \in BOOLEAN /\ stale' \in BOOLEAN
    BY <1>4 DEF CreateSecrets, OwnsAdmin, Renewed
  <2> QED BY <1>4, <2>1, <2>2 DEF CreateSecrets
<1>5. CASE DeployBroker
  <2>1. cr' \in Resources
    <3>1. OwnsTLS \in BOOLEAN
      BY DEF OwnsTLS
    <3>2. file.admin \in Admins
      BY DEF EnvFiles
    <3>3. Resource \in Resources
      BY <3>1, <3>2 DEF Resource, Resources
    <3>4. cr' = Resource \/ cr' = cr
      BY <1>5 DEF DeployBroker
    <3> QED BY <3>3, <3>4
  <2>2. stale' \in BOOLEAN
    BY <1>5 DEF DeployBroker, Renewed
  <2> QED BY <1>5, <2>1, <2>2 DEF DeployBroker
<1>6. CASE RestartPod
  <2>1. Head(cmd.left) \in Roles
    BY <1>6, Lists DEF RestartPod, CertInv, Commands
  <2>2. pods' \in [Roles -> 0..MaxCert \cup {None, Leaving}] /\ data' \in [Roles -> 0..MaxGenerated \cup {None}]
    BY <1>6, <2>1, UpTypes DEF RestartPod, CanStart
  <2>3. stale' \in BOOLEAN
    BY <1>6 DEF RestartPod, NextPod
  <2> QED BY <1>6, <2>2, <2>3 DEF RestartPod
<1>7. CASE StartServerCerts
  BY <1>7 DEF StartServerCerts, EnvFiles
<1>8. CASE LoadCert
  <2>1. pods' = pods \/ pods' = [pods EXCEPT ![Head(cmd.left)] = file.cert]
    BY <1>8 DEF LoadCert
  <2>3. file.cert \in 0..MaxCert
    BY DEF EnvFiles
  <2>2. stale' \in BOOLEAN
    BY <1>8 DEF LoadCert, NextPod
  <2>4. pods' \in [Roles -> 0..MaxCert \cup {None, Leaving}]
    BY <2>1, <2>3
  <2> QED BY <1>8, <2>2, <2>4 DEF LoadCert
<1>9. CASE DeleteResource
  <2>1. pods' \in [Roles -> 0..MaxCert \cup {None, Leaving}]
    BY <1>9 DEF DeleteResource
  <2>2. cr' \in Resources /\ gen' \in 1..MaxGenerated \cup {None}
    BY <1>9 DEF DeleteResource, Resources
  <2> QED BY <1>9, <2>1, <2>2 DEF DeleteResource
<1>10. CASE DeleteClaims
  <2>1. data' \in [Roles -> 0..MaxGenerated \cup {None}]
    BY <1>10 DEF DeleteClaims
  <2> QED BY <1>10, <2>1 DEF DeleteClaims
<1>11. CASE DeleteSecrets
  <2>1. tls' \in 0..MaxCert
    BY <1>11, BoundsAssumption DEF DeleteSecrets
  <2>2. built' \in BOOLEAN
    BY <1>11 DEF DeleteSecrets, OwnsAdmin
  <2> QED BY <1>11, <2>1, <2>2 DEF DeleteSecrets
<1>12. CASE DeleteNamespace
  <2>1. \/ UNCHANGED <<ns, inside, others>>
        \/ /\ ns' = FALSE /\ cr' = None /\ data' = NoData /\ pods' = NoPods
           /\ built' = FALSE /\ tls' = 0 /\ gen' = None /\ others' = FALSE
    BY <1>12 DEF DeleteNamespace
  <2>2. None \in Resources /\ 0 \in 0..MaxCert
    BY BoundsAssumption DEF Resources
  <2>4. NoData \in [Roles -> 0..MaxGenerated \cup {None}]
        /\ NoPods \in [Roles -> 0..MaxCert \cup {None, Leaving}]
    BY DEF NoData, NoPods
  <2>3. UNCHANGED <<file, may, stale, late, blind>>
    BY <1>12 DEF DeleteNamespace
  <2> QED BY <2>1, <2>2, <2>3, <2>4
<1>13. CASE Generate
  <2>1. gen' \in 1..MaxGenerated
    BY <1>13, BoundsAssumption DEF Generate, Uses
  <2> QED BY <1>13, <2>1 DEF Generate
<1>14. CASE EditFile
  <2>1. file' \in EnvFiles
    BY <1>14 DEF EditFile, EnvFiles
  <2> QED BY <1>14, <2>1 DEF EditFile
<1>15. CASE PutOther
  BY <1>15 DEF PutOther
<1>16. ASSUME NEW r \in Roles, StartPod(r) \/ PodGoes(r) PROVE TypeOK'
  <2>1. data' \in [Roles -> 0..MaxGenerated \cup {None}] /\ pods' \in [Roles -> 0..MaxCert \cup {None, Leaving}]
    BY <1>16, UpTypes DEF StartPod, PodGoes, CanStart
  <2> QED BY <1>16, <2>1 DEF StartPod, PodGoes
<1>17. CASE UNCHANGED vars
  BY <1>17 DEF vars
<1> QED BY <1>2, <1>3, <1>4, <1>5, <1>6, <1>7, <1>8, <1>9, <1>10, <1>11, <1>12, <1>13, <1>14,
           <1>15, <1>16, <1>17 DEF Next

-------------------------------------------------------------------------------
(* The parts of the invariant, step by step.                                 *)

\* How a step leaves the record of its command.
LEMMA Says ==
  ASSUME cmd \in Commands
  PROVE  /\ \A p : Goto(p) =>
              /\ cmd'.phase = p /\ told' = told /\ cmd'.wrote = cmd.wrote
              /\ cmd'.changed = cmd.changed /\ cmd'.purge = cmd.purge /\ cmd'.left = cmd.left
         /\ \A p : Wrote(p) =>
              /\ cmd'.phase = p /\ told' = told
              /\ cmd'.changed = cmd.changed /\ cmd'.purge = cmd.purge /\ cmd'.left = cmd.left
         /\ \A o : End(o) => cmd'.phase = "idle" /\ told' = o /\ ~cmd'.changed
<1>1. \A p : Goto(p) =>
        /\ cmd'.phase = p /\ told' = told /\ cmd'.wrote = cmd.wrote
        /\ cmd'.changed = cmd.changed /\ cmd'.purge = cmd.purge /\ cmd'.left = cmd.left
  BY DEF Commands, Goto
<1>2. \A p : Wrote(p) =>
        /\ cmd'.phase = p /\ told' = told
        /\ cmd'.changed = cmd.changed /\ cmd'.purge = cmd.purge /\ cmd'.left = cmd.left
  BY DEF Commands, Wrote
<1>3. \A o : End(o) => cmd'.phase = "idle" /\ told' = o /\ ~cmd'.changed
  BY DEF End, Idle
<1> QED BY <1>1, <1>2, <1>3

\* While a command runs nothing has been said of it.
LEMMA NextTelling ==
  ASSUME cmd \in Commands, Telling, [Next]_vars
  PROVE  Telling'
<1> USE Says DEF Telling
<1>1. CASE StartDeploy
  BY <1>1 DEF StartDeploy, Start, Idle
<1>2. CASE EnsureNamespace
  BY <1>2 DEF EnsureNamespace
<1>3. CASE CreateSecrets
  BY <1>3 DEF CreateSecrets
<1>4. CASE DeployBroker
  BY <1>4 DEF DeployBroker
<1>5. CASE Confirm
  BY <1>5 DEF Confirm
<1>6. CASE OfferRestart
  BY <1>6 DEF OfferRestart, Commands
<1>7. CASE RestartPod
  BY <1>7 DEF RestartPod, NextPod, Commands
<1>8. CASE StartRestart
  BY <1>8 DEF StartRestart, Start, Idle
<1>9. CASE StartServerCerts
  BY <1>9 DEF StartServerCerts, Start, Idle
<1>10. CASE LoadCert
  BY <1>10 DEF LoadCert, NextPod, Commands
<1>11. CASE StartRemove
  BY <1>11 DEF StartRemove, Start, Idle
<1>12. CASE DeleteResource
  BY <1>12 DEF DeleteResource
<1>13. CASE DeleteClaims
  BY <1>13 DEF DeleteClaims, AfterClaims
<1>14. CASE DeleteSecrets
  BY <1>14 DEF DeleteSecrets
<1>15. CASE Occupancy
  BY <1>15 DEF Occupancy
<1>16. CASE DeleteNamespace
  BY <1>16 DEF DeleteNamespace
<1>17. CASE Generate
  BY <1>17 DEF Generate
<1>18. CASE EditFile
  BY <1>18 DEF EditFile
<1>19. CASE PutOther
  BY <1>19 DEF PutOther
<1>20. ASSUME NEW r \in Roles, StartPod(r) \/ PodGoes(r) PROVE Telling'
  BY <1>20 DEF StartPod, PodGoes
<1>21. CASE UNCHANGED vars
  BY <1>21 DEF vars
<1> QED BY <1>1, <1>2, <1>3, <1>4, <1>5, <1>6, <1>7, <1>8, <1>9, <1>10, <1>11, <1>12, <1>13,
           <1>14, <1>15, <1>16, <1>17, <1>18, <1>19, <1>20, <1>21 DEF Next

\* The gates in front of a command hold for all of it.
LEMMA NextGates ==
  ASSUME cmd \in Commands, GatesInv, [Next]_vars
  PROVE  GatesInv'
<1> USE Says DEF GatesInv, DeployAllowed, RemovalAllowed, DeletesClaims, OwnsSecrets, OwnsAdmin, OwnsTLS
<1>1. CASE StartDeploy
  BY ZenonT(60), <1>1 DEF StartDeploy, Idle, Commands
<1>2. CASE EnsureNamespace
  <2>1. \/ Goto("secrets") \/ Wrote("secrets") \/ End("refused")
    BY <1>2 DEF EnsureNamespace
  <2>2. DeployAllowed /\ UNCHANGED <<file, may>>
    BY <1>2 DEF EnsureNamespace
  <2> QED BY <2>1, <2>2
<1>3. CASE CreateSecrets
  BY <1>3 DEF CreateSecrets
<1>4. CASE DeployBroker
  BY <1>4 DEF DeployBroker
<1>5. CASE Confirm
  BY <1>5 DEF Confirm
<1>6. CASE OfferRestart
  BY <1>6 DEF OfferRestart, Idle, Commands
<1>7. CASE RestartPod
  BY <1>7 DEF RestartPod, NextPod, Idle, Commands
<1>8. CASE StartRestart
  BY <1>8 DEF StartRestart, Idle, Commands
<1>9. CASE StartServerCerts
  BY ZenonT(60), <1>9 DEF StartServerCerts, Idle, Commands
<1>10. CASE LoadCert
  BY <1>10 DEF LoadCert, NextPod, Idle, Commands
<1>11. CASE StartRemove
  BY <1>11 DEF StartRemove, Idle, Commands
<1>12. CASE DeleteResource
  BY <1>12 DEF DeleteResource
<1>13. CASE DeleteClaims
  BY <1>13 DEF DeleteClaims, AfterClaims
<1>14. CASE DeleteSecrets
  BY <1>14 DEF DeleteSecrets
<1>15. CASE Occupancy
  BY <1>15 DEF Occupancy
<1>16. CASE DeleteNamespace
  BY <1>16 DEF DeleteNamespace
<1>17. CASE Generate
  BY <1>17 DEF Generate
<1>18. CASE EditFile
  BY <1>18 DEF EditFile
<1>19. CASE PutOther
  BY <1>19 DEF PutOther
<1>20. ASSUME NEW r \in Roles, StartPod(r) \/ PodGoes(r) PROVE GatesInv'
  BY <1>20 DEF StartPod, PodGoes
<1>21. CASE UNCHANGED vars
  BY <1>21 DEF vars
<1> QED BY <1>1, <1>2, <1>3, <1>4, <1>5, <1>6, <1>7, <1>8, <1>9, <1>10, <1>11, <1>12, <1>13,
           <1>14, <1>15, <1>16, <1>17, <1>18, <1>19, <1>20, <1>21 DEF Next

\* The generated password stays the one the data was booted with.
LEMMA NextPassword ==
  ASSUME TypeOK, PasswordInv, [Next]_vars
  PROVE  PasswordInv'
<1>a. cmd \in Commands /\ cr \in Resources /\ data \in [Roles -> 0..MaxGenerated \cup {None}]
  BY DEF TypeOK
<1> USE <1>a, Says DEF PasswordInv, NoManagedData, inside
<1>1. CASE StartDeploy
  BY <1>1 DEF StartDeploy, Start, Idle, Commands, PasswordAtRisk
<1>2. CASE EnsureNamespace
  BY <1>2 DEF EnsureNamespace
<1>3. CASE CreateSecrets
  BY <1>3 DEF CreateSecrets
<1>4. CASE DeployBroker
  BY <1>4 DEF DeployBroker, Resource
<1>5. CASE Confirm
  BY <1>5 DEF Confirm
<1>6. CASE OfferRestart
  BY <1>6 DEF OfferRestart, Commands
<1>7. CASE RestartPod
  BY <1>7 DEF RestartPod, NextPod, Commands, Up, CanStart
<1>8. CASE StartRestart
  BY <1>8 DEF StartRestart, Start, Idle, Commands
<1>9. CASE StartServerCerts
  BY ZenonT(60), <1>9 DEF StartServerCerts, Start, Idle, Commands
<1>10. CASE LoadCert
  BY <1>10 DEF LoadCert, NextPod, Commands
<1>11. CASE StartRemove
  BY <1>11 DEF StartRemove, Start, Idle, Commands
<1>12. CASE DeleteResource
  BY <1>12 DEF DeleteResource
<1>13. CASE DeleteClaims
  BY <1>13 DEF DeleteClaims, AfterClaims
<1>14. CASE DeleteSecrets
  BY <1>14 DEF DeleteSecrets
<1>15. CASE Occupancy
  BY <1>15 DEF Occupancy
<1>16. CASE DeleteNamespace
  BY <1>16 DEF DeleteNamespace, NoData
<1>17. CASE Generate
  BY <1>17 DEF Generate
<1>18. CASE EditFile
  BY <1>18 DEF EditFile
<1>19. CASE PutOther
  BY <1>19 DEF PutOther
<1>20. ASSUME NEW r \in Roles, StartPod(r) \/ PodGoes(r) PROVE PasswordInv'
  BY <1>20 DEF StartPod, PodGoes, Up, CanStart
<1>21. CASE UNCHANGED vars
  BY <1>21 DEF vars
<1> QED BY <1>1, <1>2, <1>3, <1>4, <1>5, <1>6, <1>7, <1>8, <1>9, <1>10, <1>11, <1>12, <1>13,
           <1>14, <1>15, <1>16, <1>17, <1>18, <1>19, <1>20, <1>21 DEF Next

\* Each phase of a removal finds what the one before has left.
LEMMA NextRemoval ==
  ASSUME TypeOK, RemovalInv, [Next]_vars
  PROVE  RemovalInv'
<1>a. cmd \in Commands /\ data \in [Roles -> 0..MaxGenerated \cup {None}]
  BY DEF TypeOK
<1> USE <1>a, Says DEF RemovalInv, NoManagedData, inside, OwnsAdmin, OwnsTLS
<1>1. CASE StartDeploy
  BY ZenonT(60), <1>1 DEF StartDeploy, Start, Idle, Commands
<1>2. CASE EnsureNamespace
  <2>1. Goto("secrets") \/ Wrote("secrets") \/ End("refused")
    BY <1>2 DEF EnsureNamespace
  <2> QED BY <2>1
<1>3. CASE CreateSecrets
  BY <1>3 DEF CreateSecrets
<1>4. CASE DeployBroker
  BY <1>4 DEF DeployBroker
<1>5. CASE Confirm
  BY <1>5 DEF Confirm
<1>6. CASE OfferRestart
  BY <1>6 DEF OfferRestart, Commands
<1>7. CASE RestartPod
  BY <1>7 DEF RestartPod, NextPod, Commands, Up, CanStart
<1>8. CASE StartRestart
  BY <1>8 DEF StartRestart, Start, Idle, Commands
<1>9. CASE StartServerCerts
  BY <1>9 DEF StartServerCerts, Start, Idle, Commands
<1>10. CASE LoadCert
  BY <1>10 DEF LoadCert, NextPod, Commands
<1>11. CASE StartRemove
  BY <1>11 DEF StartRemove, Start, Idle, Commands
<1>12. CASE DeleteResource
  BY <1>12 DEF DeleteResource, DeletesClaims
<1>13. CASE DeleteClaims
  BY <1>13 DEF DeleteClaims, AfterClaims
<1>14. CASE DeleteSecrets
  <2>1. UNCHANGED <<file, cr, data>> /\ cr = None
    BY <1>14 DEF DeleteSecrets
  <2>2. \/ Goto("occupancy") /\ ~OwnsAdmin /\ ~OwnsTLS
        \/ Wrote("occupancy") /\ (OwnsAdmin => ~built') /\ (OwnsTLS => tls' = 0)
        \/ End("refused") \/ End("failed")
    BY <1>14 DEF DeleteSecrets, OwnsSecrets
  <2>3. cmd.phase = "clean"
    BY <1>14 DEF DeleteSecrets
  <2> QED BY <2>1, <2>2, <2>3
<1>15. CASE Occupancy
  <2>1. pods \in [Roles -> 0..MaxCert \cup {None, Leaving}]
    BY DEF TypeOK
  <2>2. ~Occupied => data = NoData /\ pods = NoPods /\ ~built /\ tls = 0 /\ gen = None /\ ~others
    BY <2>1 DEF Occupied, NoData, NoPods
  <2> QED BY <1>15, <2>2 DEF Occupancy, NoData, NoPods
<1>16. CASE DeleteNamespace
  BY <1>16 DEF DeleteNamespace, NoData
<1>17. CASE Generate
  BY <1>17 DEF Generate
<1>18. CASE EditFile
  BY <1>18 DEF EditFile
<1>19. CASE PutOther
  BY <1>19 DEF PutOther
<1>20. ASSUME NEW r \in Roles, StartPod(r) \/ PodGoes(r) PROVE RemovalInv'
  <2>1. pods = NoPods /\ cr = None => ~StartPod(r) /\ ~PodGoes(r)
    BY DEF StartPod, PodGoes, CanStart, NoPods
  <2> QED BY <1>20, <2>1 DEF StartPod, PodGoes, Up, CanStart, NoPods, NoData
<1>21. CASE UNCHANGED vars
  BY <1>21 DEF vars
<1> QED BY <1>1, <1>2, <1>3, <1>4, <1>5, <1>6, <1>7, <1>8, <1>9, <1>10, <1>11, <1>12, <1>13,
           <1>14, <1>15, <1>16, <1>17, <1>18, <1>19, <1>20, <1>21 DEF Next

\* After the last node of the list nothing is left to do, after another one it
\* is done.
LEMMA OneLess ==
  ASSUME cmd \in Commands, cmd.left # <<>>
  PROVE  /\ Head(cmd.left) \in Roles
         /\ Len(cmd.left) = 1 => StillToDo = {Head(cmd.left)}
         /\ Len(cmd.left) # 1 => /\ Tail(cmd.left) # <<>>
                                 /\ StillToDo = {Head(cmd.left)} \cup
                                      {Tail(cmd.left)[i] : i \in 1..Len(Tail(cmd.left))}
<1>1. cmd.left \in Seq(Roles) /\ Len(cmd.left) \in Nat /\ Len(cmd.left) # 0
  BY DEF Commands
<1>2. Head(cmd.left) = cmd.left[1] /\ Head(cmd.left) \in Roles
  BY <1>1
<1>3. Len(Tail(cmd.left)) = Len(cmd.left) - 1
      /\ \A i \in 1..Len(Tail(cmd.left)) : Tail(cmd.left)[i] = cmd.left[i + 1]
  BY <1>1
<1>4. Len(cmd.left) = 1 => StillToDo = {Head(cmd.left)}
  BY <1>1, <1>2 DEF StillToDo
<1>5. ASSUME Len(cmd.left) # 1
      PROVE  StillToDo = {Head(cmd.left)} \cup {Tail(cmd.left)[i] : i \in 1..Len(Tail(cmd.left))}
  <2>1. \A i \in 1..Len(cmd.left) : i = 1 \/ (i - 1 \in 1..Len(Tail(cmd.left)) /\ cmd.left[i] = Tail(cmd.left)[i - 1])
    BY <1>1, <1>3
  <2>2. \A i \in 1..Len(Tail(cmd.left)) : i + 1 \in 1..Len(cmd.left) /\ Tail(cmd.left)[i] = cmd.left[i + 1]
    BY <1>1, <1>3
  <2> QED BY <1>1, <1>2, <2>1, <2>2 DEF StillToDo
<1>6. Len(cmd.left) # 1 => Tail(cmd.left) # <<>>
  <2>1. ASSUME Len(cmd.left) # 1, Tail(cmd.left) = <<>> PROVE FALSE
    <3>1. Len(<<>>) = 0
      OBVIOUS
    <3>2. Len(Tail(cmd.left)) = 0
      BY <2>1, <3>1, Zenon
    <3> QED BY <3>2, <2>1, <1>1, <1>3
  <2> QED BY <2>1
<1> QED BY <1>2, <1>4, <1>5, <1>6

\* A step that leaves pods, certificate and the nodes still to do alone, and
\* ends no wait for them.
LEMMA Quiet ==
  ASSUME CertInv, UNCHANGED <<cr, pods, tls>>, cmd'.left = cmd.left \/ cmd'.phase \notin {"restart", "load"},
         cmd'.phase \in {"restart", "load"} => cmd'.phase = cmd.phase /\ file' = file,
         cmd'.phase \in {"namespace", "secrets"} =>
           cmd.phase \in {"namespace", "secrets"} /\ file' = file /\ cmd'.changed = cmd.changed,
         ~stale' => ~stale,
         ~stale' /\ ~Pending' => ~Pending \/ \A r \in Roles : pods[r] \in {None, Leaving}
  PROVE  CertInv'
<1>1. cmd'.phase \in {"restart", "load"} => StillToDo' = StillToDo
  BY DEF StillToDo
<1>2. \A r \in Roles : Current(r)' <=> Current(r)
  BY DEF Current
<1>3. (cr = None => \A r \in Roles : pods[r] \in {None, Leaving})'
  BY DEF CertInv
<1>4. (cmd.phase \in {"namespace", "secrets"} /\ OwnsTLS /\ ~cmd.changed => tls \in {0, file.cert})'
  BY DEF CertInv, OwnsTLS
<1>5. (cmd.phase = "load" => tls = file.cert)'
  BY DEF CertInv
<1>6. (cmd.phase \in {"restart", "load"} =>
         cmd.left # <<>> /\ \A r \in Roles \ StillToDo : Current(r))'
  BY <1>1, <1>2 DEF CertInv
<1>7. (~stale /\ ~Pending => \A r \in Roles : Current(r))'
  BY <1>2 DEF CertInv, Current
<1> QED BY <1>3, <1>4, <1>5, <1>6, <1>7 DEF CertInv

\* One more node is done, and perhaps it was the last.
LEMMA NodeDone ==
  ASSUME TypeOK, CertInv, cmd.phase \in {"restart", "load"}, UNCHANGED <<file, cr, tls>>, cr # None, NextPod,
         NEW c \in {0, tls}, pods' = [pods EXCEPT ![Head(cmd.left)] = c]
  PROVE  CertInv'
<1>1. cmd \in Commands /\ cmd.left # <<>> /\ pods \in [Roles -> 0..MaxCert \cup {None, Leaving}]
  BY DEF TypeOK, CertInv
<1>2. \A r \in Roles : r = Head(cmd.left) => Current(r)'
  BY <1>1, OneLess DEF Current
<1>3. \A r \in Roles \ StillToDo : Current(r)'
  BY <1>1 DEF CertInv, Current
<1>4. CASE Len(cmd.left) = 1
  <2>1. \A r \in Roles : Current(r)'
    BY <1>1, <1>2, <1>3, <1>4, OneLess
  <2>2. End("served")
    BY <1>4 DEF NextPod
  <2> QED BY <2>1, <2>2, <1>1, Says DEF CertInv
<1>5. CASE Len(cmd.left) # 1
  <2>1. cmd' = [cmd EXCEPT !.left = Tail(@)]
    BY <1>5 DEF NextPod
  <2>2. cmd'.phase = cmd.phase /\ cmd'.left = Tail(cmd.left)
    BY <1>1, <2>1 DEF Commands
  <2>3. \A r \in Roles \ StillToDo' : Current(r)'
    BY <1>1, <1>2, <1>3, <1>5, <2>2, OneLess DEF StillToDo
  <2>4. cmd'.left # <<>>
    BY <1>1, <1>5, <2>2, OneLess
  <2> QED BY <2>2, <2>3, <2>4 DEF CertInv, Pending
<1> QED BY <1>4, <1>5

\* Every node is on the list a restart begins with.
LEMMA WholeList ==
  /\ RestartOrder # <<>>
  /\ cmd'.left = RestartOrder => Roles \ StillToDo' = {}
<1>1. RestartOrder # <<>>
  BY Lists
<1>2. cmd'.left = RestartOrder => Roles \ StillToDo' = {}
  BY DEF StillToDo, Roles
<1> QED BY <1>1, <1>2

\* A command that ends before its question remembers what it owes.
LEMMA Owed ==
  ASSUME TypeOK, CertInv, cmd.phase \notin {"restart", "load"}, UNCHANGED <<cr, pods, tls>>,
         stale' = (stale \/ Renewed), NEW o, End(o)
  PROVE  CertInv'
<1>1. cmd \in Commands /\ stale \in BOOLEAN
  BY DEF TypeOK
<1>2. cmd'.phase = "idle"
  BY <1>1, Says
<1>3. ~Renewed => ~Pending \/ \A r \in Roles : pods[r] \in {None, Leaving}
  BY DEF Renewed, Pending
<1>4. ~stale' => ~stale /\ ~Renewed
  OBVIOUS
<1> QED BY <1>2, <1>3, <1>4, Quiet

\* Pods keep up with the Secret, or somebody is told that they do not.
LEMMA NextCert ==
  ASSUME TypeOK, GatesInv, CertInv, RemovalInv, [Next]_vars
  PROVE  CertInv'
<1>a. cmd \in Commands /\ pods \in [Roles -> 0..MaxCert \cup {None, Leaving}]
  BY DEF TypeOK
<1>1. CASE StartDeploy
  <2>1. ~Pending /\ UNCHANGED <<file, cr, pods, tls, stale>>
    BY <1>1 DEF StartDeploy, Start, Pending, inside
  <2>2. CASE End("refused")
    BY <2>1, <2>2, <1>a, Says, Quiet
  <2>3. ASSUME NEW c \in BOOLEAN, cmd' = [Idle EXCEPT !.phase = "namespace", !.changed = c],
               ~c /\ OwnsTLS => tls \in {0, file.cert}
        PROVE  CertInv'
    <3>1. cmd'.phase = "namespace" /\ cmd'.changed = c
      BY <2>3 DEF Idle
    <3> QED BY <3>1, <2>1, <2>3 DEF CertInv, Pending, Current, OwnsTLS
  <2>4. \A read : CertChanged(read) \in BOOLEAN /\ (~CertChanged(read) /\ OwnsTLS => tls \in {0, file.cert})
    BY DEF CertChanged
  <2> QED BY <1>1, <2>2, <2>3, <2>4 DEF StartDeploy
<1>2. CASE EnsureNamespace
  <2>1. UNCHANGED <<file, cr, pods, tls, stale>> /\ cmd.phase = "namespace"
    BY <1>2 DEF EnsureNamespace, inside
  <2>2. \/ Goto("secrets") \/ Wrote("secrets") \/ End("refused")
    BY <1>2 DEF EnsureNamespace
  <2>3. ~Pending
    BY <2>1 DEF Pending
  <2> QED BY <2>1, <2>2, <2>3, <1>a, Says, Quiet
<1>3. CASE CreateSecrets
  <2>1. UNCHANGED <<file, cr, pods>> /\ cmd.phase = "secrets" /\ ~Pending
    BY <1>3 DEF CreateSecrets, Pending
  <2>2. CASE End("refused") /\ UNCHANGED <<tls, stale>>
    BY <2>1, <2>2, <1>a, Says, Quiet
  <2>3. CASE Goto("resource") /\ UNCHANGED <<tls, stale>>
    BY <2>1, <2>3, <1>a, Says, Quiet
  <2>4. CASE Wrote("resource") /\ stale' = stale /\ tls' = IF OwnsTLS THEN file.cert ELSE tls
    <3>1. cmd'.phase = "resource" /\ cmd'.changed = cmd.changed
      BY <2>4, <1>a, Says
    <3>2. ~stale /\ ~cmd.changed => \A r \in Roles : Current(r)'
      BY <2>1, <2>4 DEF CertInv, Current
    <3> QED BY <3>1, <3>2, <2>1, <2>4 DEF CertInv, Pending
  <2>5. CASE /\ End("failed") /\ stale' = (stale \/ (tls' # tls /\ Renewed))
             /\ tls' = tls \/ (OwnsTLS /\ tls' = file.cert)
    <3>1. cmd'.phase = "idle"
      BY <2>5, <1>a, Says
    <3>2. ~stale' => \A r \in Roles : Current(r)'
      BY <2>1, <2>5 DEF CertInv, Current, Renewed
    <3> QED BY <3>1, <3>2, <2>1 DEF CertInv, Pending
  <2> QED BY <1>3, <2>2, <2>3, <2>4, <2>5 DEF CreateSecrets
<1>4. CASE DeployBroker
  <2>1. UNCHANGED <<file, pods, tls>> /\ cmd.phase = "resource"
    BY <1>4 DEF DeployBroker
  <2>2. "brokers" \in may
    BY <2>1 DEF GatesInv, DeployAllowed
  <2>3. CASE Wrote("confirm") /\ UNCHANGED stale /\ (cr' = Resource \/ cr' = cr)
    <3>1. cmd'.phase = "confirm" /\ cmd'.changed = cmd.changed
      BY <2>3, <1>a, Says
    <3>2. Resource # None
      <4>1. OwnsTLS \in BOOLEAN
        BY DEF OwnsTLS
      <4>2. file.admin \in Admins
        BY DEF TypeOK, EnvFiles
      <4>3. Resource \in [admin : {"unset", "build", "named"}, tls : BOOLEAN]
        BY <4>1, <4>2 DEF Resource, Admins
      <4> QED BY <4>3, ValuesAssumption
    <3>3. ~stale' /\ ~Pending' => \A r \in Roles : Current(r)'
      BY <2>1, <2>3, <3>1 DEF CertInv, Current, Pending
    <3> QED BY <2>1, <2>3, <3>1, <3>2, <3>3 DEF CertInv
  <2>4. CASE stale' = (stale \/ Renewed) /\ End("failed") /\ UNCHANGED cr
    BY <2>1, <2>4, Owed
  <2> QED BY <1>4, <2>2, <2>3, <2>4 DEF DeployBroker
<1>5. CASE Confirm
  <2>1. UNCHANGED <<file, cr, pods, tls>> /\ cmd.phase = "confirm"
    BY <1>5 DEF Confirm, inside
  <2>2. CASE UNCHANGED stale /\ (IF cmd.changed THEN Goto("offer") ELSE End("deployed"))
    <3>1. CASE cmd.changed
      BY <2>1, <2>2, <3>1, <1>a, Says, Quiet DEF Pending
    <3>2. CASE ~cmd.changed
      BY <2>1, <2>2, <3>2, <1>a, Says, Quiet DEF Pending
    <3> QED BY <3>1, <3>2
  <2>3. CASE stale' = (stale \/ Renewed) /\ End("failed")
    BY <2>1, <2>3, Owed
  <2> QED BY <1>5, <2>2, <2>3 DEF Confirm
<1>6. CASE OfferRestart
  <2>1. UNCHANGED <<file, cr, pods, tls>> /\ cmd.phase = "offer"
    BY <1>6 DEF OfferRestart, inside
  <2>2. CASE End("deployed") /\ stale' = (stale \/ Renewed)
    BY <2>1, <2>2, Owed
  <2>3. CASE cmd' = [cmd EXCEPT !.phase = "restart", !.left = RestartOrder]
    <3>1. cmd'.phase = "restart" /\ cmd'.left = RestartOrder
      BY <2>3, <1>a DEF Commands
    <3> QED BY <2>1, <3>1, WholeList DEF CertInv, Pending
  <2>4. CASE (End("declined") \/ End("unseen")) /\ stale' = TRUE
    BY <2>1, <2>4, <1>a, Says, Quiet
  <2> QED BY <1>6, <2>2, <2>3, <2>4 DEF OfferRestart
<1>7. CASE RestartPod
  <2>1. UNCHANGED <<file, cr, tls>> /\ cmd.phase = "restart"
    BY <1>7 DEF RestartPod
  <2>2. CASE CanStart /\ Up(Head(cmd.left)) /\ NextPod
    <3>1. cr # None /\ pods' = [pods EXCEPT ![Head(cmd.left)] = IF cr.tls THEN tls ELSE 0]
      BY <2>2 DEF CanStart, Up
    <3>2. CASE cr.tls
      BY <2>1, <2>2, <3>1, <3>2, NodeDone
    <3>3. CASE ~cr.tls
      BY <2>1, <2>2, <3>1, <3>3, NodeDone
    <3> QED BY <3>2, <3>3
  <2>3. CASE pods' = [pods EXCEPT ![Head(cmd.left)] = None] /\ End("failed") /\ stale' = TRUE
    BY <2>1, <2>3, <1>a, Says DEF CertInv
  <2> QED BY <1>7, <2>2, <2>3 DEF RestartPod
<1>8. CASE StartRestart
  <2>1. cmd'.phase = "restart" /\ cmd'.left = RestartOrder
    BY <1>8 DEF StartRestart, Idle
  <2> QED BY <1>8, <2>1, WholeList DEF StartRestart, CertInv, Pending, inside
<1>9. CASE StartServerCerts
  <2>1. CASE UNCHANGED tls /\ (End("refused") \/ End("failed"))
    BY <1>9, <2>1, <1>a, Says, Quiet DEF StartServerCerts, Start, Pending
  <2>2. CASE tls' = file.cert /\ cmd' = [Idle EXCEPT !.phase = "load", !.left = RestartOrder, !.wrote = TRUE]
    <3>1. cmd'.phase = "load" /\ cmd'.left = RestartOrder
      BY <2>2 DEF Idle
    <3> QED BY <1>9, <2>2, <3>1, WholeList DEF StartServerCerts, CertInv, Pending
  <2> QED BY <1>9, <2>1, <2>2 DEF StartServerCerts
<1>10. CASE LoadCert
  <2>1. UNCHANGED <<file, cr, tls>> /\ cmd.phase = "load" /\ tls = file.cert
    BY <1>10 DEF LoadCert, CertInv
  <2>2. CASE /\ pods[Head(cmd.left)] \notin {None, Leaving} /\ NextPod
             /\ pods' = [pods EXCEPT ![Head(cmd.left)] = file.cert]
    <3>1. Head(cmd.left) \in Roles
      BY <1>a, <2>1, OneLess DEF CertInv
    <3>2. cr # None
      BY <2>2, <3>1 DEF CertInv
    <3> QED BY <2>1, <2>2, <3>2, NodeDone
  <2>3. CASE End("failed") /\ stale' = TRUE /\ UNCHANGED pods
    BY <2>1, <2>3, <1>a, Says, Quiet
  <2> QED BY <1>10, <2>2, <2>3 DEF LoadCert
<1>11. CASE StartRemove \/ DeleteClaims \/ Occupancy
  <2>1. UNCHANGED <<file, cr, pods, tls, stale>> /\ cmd.phase \in {"idle", "claims", "occupancy"}
    BY <1>11 DEF StartRemove, Start, DeleteClaims, Occupancy, inside
  <2>2. cmd'.phase \in {"idle", "delete", "clean", "question"}
    BY <1>11, <1>a, Says DEF StartRemove, Idle, DeleteClaims, AfterClaims, Occupancy
  <2> QED BY <2>1, <2>2, Quiet DEF Pending
<1>12. CASE DeleteResource
  <2>1. UNCHANGED <<file, tls, stale>> /\ cmd.phase = "delete"
    BY <1>12 DEF DeleteResource
  <2>2. CASE UNCHANGED <<cr, pods>> /\ (End("refused") \/ End("failed"))
    BY <2>1, <2>2, <1>a, Says, Quiet DEF Pending
  <2>3. CASE /\ pods' = [r \in Roles |-> IF pods[r] = None THEN None ELSE Leaving]
             /\ Wrote(IF cmd.purge THEN "claims" ELSE "clean")
    <3>1. cmd'.phase \in {"claims", "clean"}
      BY <2>3, <1>a, Says
    <3> QED BY <2>3, <3>1 DEF CertInv, Current, Pending
  <2> QED BY <1>12, <2>2, <2>3 DEF DeleteResource
<1>13. CASE DeleteSecrets
  <2>1. UNCHANGED <<file, cr, pods, stale>> /\ \A r \in Roles : pods[r] \in {None, Leaving}
    BY <1>13 DEF DeleteSecrets, RemovalInv, CertInv
  <2>2. cmd'.phase \in {"idle", "occupancy"}
    BY <1>13, <1>a, Says DEF DeleteSecrets
  <2> QED BY <2>1, <2>2 DEF CertInv, Current, Pending
<1>14. CASE DeleteNamespace
  <2>1. cmd.phase = "question" /\ cmd'.phase = "idle" /\ UNCHANGED stale
    BY <1>14, <1>a, Says DEF DeleteNamespace
  <2>2. CASE UNCHANGED inside
    BY <2>1, <2>2, Quiet DEF Pending, inside
  <2>3. CASE pods' = NoPods
    BY <2>1, <2>3 DEF CertInv, Current, Pending, NoPods
  <2> QED BY <1>14, <2>2, <2>3 DEF DeleteNamespace
<1>15. CASE Generate \/ EditFile \/ PutOther \/ UNCHANGED vars
  <2>1. UNCHANGED <<cr, pods, tls, stale, cmd>> /\ (file' = file \/ cmd.phase = "idle")
    BY <1>15 DEF Generate, EditFile, PutOther, vars, inside
  <2>2. Pending' <=> Pending
    BY <2>1 DEF Pending
  <2> QED BY <2>1, <2>2, Quiet
<1>16. ASSUME NEW r \in Roles, StartPod(r) \/ PodGoes(r) PROVE CertInv'
  <2>1. UNCHANGED <<file, cr, tls, stale, cmd>>
    BY <1>16 DEF StartPod, PodGoes
  <2>2. \E c \in {None, 0, tls} : pods' = [pods EXCEPT ![r] = c] /\ (cr = None => c = None)
    BY <1>16 DEF StartPod, PodGoes, Up, CanStart
  <2>3. \A q \in Roles : Current(q) => Current(q)'
    BY <1>a, <2>1, <2>2 DEF Current
  <2>4. StillToDo' = StillToDo /\ (Pending' <=> Pending)
    BY <2>1 DEF StillToDo, Pending
  <2>5. cr = None => \A q \in Roles : pods'[q] \in {None, Leaving}
    BY <1>a, <2>2 DEF CertInv
  <2> QED BY <2>1, <2>3, <2>4, <2>5 DEF CertInv, OwnsTLS
<1> QED BY <1>1, <1>2, <1>3, <1>4, <1>5, <1>6, <1>7, <1>8, <1>9, <1>10, <1>11, <1>12, <1>13,
           <1>14, <1>15, <1>16 DEF Next

-------------------------------------------------------------------------------
(* The theorems.                                                             *)

\* Every step keeps the whole invariant.
LEMMA NextInv == IInv /\ [Next]_vars => IInv'
<1> SUFFICES ASSUME IInv, [Next]_vars PROVE IInv'
  OBVIOUS
<1>1. TypeOK /\ Telling /\ GatesInv /\ PasswordInv /\ RemovalInv /\ CertInv /\ cmd \in Commands
  BY DEF IInv, TypeOK
<1> QED BY <1>1, ClusterTypes, NextTelling, NextGates, NextPassword, NextRemoval, NextCert DEF IInv

\* Every variable of a broker on Kubernetes keeps its type (k8s/deploy.go,
\* prep.go, ops.go, namespace.go).
THEOREM TypeCorrect == Spec => []TypeOK
<1>1. IInv => TypeOK
  BY DEF IInv
<1> QED BY InitInv, NextInv, <1>1, PTL DEF Spec

\* The generated admin Secret holds the password the data of every node was
\* first booted with, as long as it is the operator's to generate and the deploys
\* could see what they had to see (adminsecret.go: AdminPasswordPreflight).
THEOREM PasswordSurvives == Spec => []PasswordIsHeld
<1>1. IInv => PasswordIsHeld
  BY DEF IInv, PasswordInv, PasswordIsHeld
<1> QED BY InitInv, NextInv, <1>1, PTL DEF Spec

\* Success leaves no pod on an old certificate, unless a run that was cut short
\* had written a new one (prep.go: ServerCertChanged; cli/ops_k8s.go: opK8sDeploy).
THEOREM SuccessServesCert == Spec => CertServed
<1> DEFINE Served == (told \notin {"deployed", "served"} /\ told' \in {"deployed", "served"}
                        /\ OwnsTLS /\ ~stale') =>
                       \A r \in Roles : pods'[r] \in {None, Leaving, 0, tls'}
<1>1. IInv /\ [Next]_vars => Served
  <2> SUFFICES ASSUME IInv', told' \in {"deployed", "served"}, ~stale'
               PROVE  \A r \in Roles : pods'[r] \in {None, Leaving, 0, tls'}
    BY NextInv
  <2>1. cmd'.phase = "idle"
    BY DEF IInv, Telling
  <2>2. ~Pending'
    BY <2>1 DEF Pending
  <2> QED BY <2>2 DEF IInv, CertInv, Current
<1>2. IInv /\ [Next]_vars => [Served]_vars
  BY <1>1
<1> QED BY InitInv, NextInv, <1>2, PTL DEF Spec, CertServed

\* A refusal has written nothing, or is that of the namespace of a removal that
\* has taken everything else (deploy.go: PreflightDeploy, PreflightRemoval;
\* prep.go: CreateNamespace, DeleteNamespace).
THEOREM NoRefusalIsHalfway == Spec => NoRefusalHalfway
<1> DEFINE Emptied == /\ cmd.phase = "question"
                      /\ cr' = None /\ data' = NoData /\ pods' = NoPods
                      /\ ~built' /\ tls' = 0 /\ gen' = None
                      /\ others' => late'
           Free == (told' = "refused" /\ cmd.phase # "idle") => ~cmd.wrote \/ Emptied
<1>1. IInv /\ [Next]_vars => Free
  <2> SUFFICES ASSUME IInv, [Next]_vars, told' = "refused", cmd.phase # "idle"
               PROVE  ~cmd.wrote \/ Emptied
    OBVIOUS
  <2>1. TypeOK /\ GatesInv /\ told = "none" /\ cmd \in Commands
    BY DEF IInv, Telling, TypeOK
  <2>2. CASE EnsureNamespace
    BY <2>1, <2>2 DEF EnsureNamespace, GatesInv
  <2>3. CASE CreateSecrets
    BY <2>1, <2>3, Says DEF CreateSecrets, GatesInv, DeployAllowed
  <2>4. CASE DeployBroker
    BY <2>1, <2>4, Says DEF DeployBroker, GatesInv, DeployAllowed
  <2>5. CASE DeleteResource
    BY <2>1, <2>5, Says DEF DeleteResource, GatesInv, RemovalAllowed
  <2>6. CASE DeleteSecrets
    BY <2>1, <2>6, Says DEF DeleteSecrets, GatesInv, RemovalAllowed
  <2>7. CASE StartDeploy \/ StartRestart \/ StartServerCerts \/ StartRemove
    BY <2>7 DEF StartDeploy, StartRestart, StartServerCerts, StartRemove, Start
  <2>8. CASE Confirm \/ OfferRestart \/ DeleteClaims \/ Occupancy
    <3>1. told' # told => \E o \in Outcomes \ {"refused"} : End(o)
      BY <2>1, <2>8, Says DEF Confirm, OfferRestart, DeleteClaims, AfterClaims, Occupancy, Outcomes
    <3> QED BY <2>1, <3>1, Says
  <2>11. CASE DeleteNamespace
    <3>1. cmd.phase = "question" /\ UNCHANGED late
          /\ (UNCHANGED <<inside, others>> \/ End("gone"))
      BY <2>11 DEF DeleteNamespace
    <3>4. UNCHANGED <<inside, others>>
      BY <2>1, <3>1, Says
    <3>2. /\ cr = None /\ data = NoData /\ pods = NoPods
          /\ ~built /\ tls = 0 /\ gen = None
          /\ others => late
      BY <3>1 DEF IInv, RemovalInv
    <3>3. UNCHANGED <<cr, data, pods, built, tls, gen>>
      BY <3>4 DEF inside
    <3> QED BY <3>1, <3>2, <3>3, <3>4 DEF NoData, NoPods
  <2>9. CASE RestartPod \/ LoadCert
    BY <2>1, <2>9, Says DEF RestartPod, LoadCert, NextPod
  <2>10. CASE Generate \/ EditFile \/ PutOther \/ (\E r \in Roles : StartPod(r) \/ PodGoes(r)) \/ UNCHANGED vars
    BY <2>1, <2>10 DEF Generate, EditFile, PutOther, StartPod, PodGoes, vars
  <2> QED BY <2>2, <2>3, <2>4, <2>5, <2>6, <2>7, <2>8, <2>9, <2>10, <2>11 DEF Next
<1>2. IInv /\ [Next]_vars => [Free]_vars
  BY <1>1
<1> QED BY InitInv, NextInv, <1>2, PTL DEF Spec, NoRefusalHalfway

\* A namespace goes with nothing in it that was there at the last look
\* (cli/ops_k8s.go: removeNamespaceIfEmpty; namespace.go: NamespaceContents).
THEOREM NamespaceGoesEmpty == Spec => NamespaceTakesNothingSeen
<1> DEFINE Empty == (ns /\ ~ns') =>
                      /\ ~file.protected /\ data = NoData /\ ~built /\ tls = 0
                      /\ others => late
<1>1. IInv /\ [Next]_vars => Empty
  <2> SUFFICES ASSUME IInv, [Next]_vars, ns, ~ns'
               PROVE  cmd.phase = "question"
    BY DEF IInv, RemovalInv
  <2>1. CASE DeleteNamespace
    BY <2>1 DEF DeleteNamespace
  <2>2. CASE EnsureNamespace
    BY <2>2 DEF EnsureNamespace
  <2>3. CASE StartDeploy \/ CreateSecrets \/ DeployBroker \/ Confirm \/ OfferRestart \/ RestartPod
             \/ StartRestart \/ StartServerCerts \/ LoadCert
    BY <2>3 DEF StartDeploy, CreateSecrets, DeployBroker, Confirm, OfferRestart, RestartPod,
                StartRestart, StartServerCerts, LoadCert
  <2>4. CASE StartRemove \/ DeleteResource \/ DeleteClaims \/ DeleteSecrets \/ Occupancy
    BY <2>4 DEF StartRemove, DeleteResource, DeleteClaims, DeleteSecrets, Occupancy
  <2>5. CASE Generate \/ EditFile \/ PutOther \/ (\E r \in Roles : StartPod(r) \/ PodGoes(r)) \/ UNCHANGED vars
    BY <2>5 DEF Generate, EditFile, PutOther, StartPod, PodGoes, vars
  <2> QED BY <2>1, <2>2, <2>3, <2>4, <2>5 DEF Next
<1>2. IInv /\ [Next]_vars => [Empty]_vars
  BY <1>1
<1> QED BY InitInv, NextInv, <1>2, PTL DEF Spec, NamespaceTakesNothingSeen

\* A removal that reports no failure has taken the resource, the Secrets of the
\* file and, asked to, the claims (deploy.go: DeleteBroker; prep.go: DeleteSecrets).
THEOREM RemovalIsComplete == Spec => RemovedIsGone
<1> DEFINE Gone == (cmd.phase \in {"occupancy", "question"} /\ cmd'.phase = "idle" /\ told' # "failed") =>
                     /\ cr' = None
                     /\ OwnsAdmin => ~built'
                     /\ OwnsTLS => tls' = 0
                     /\ cmd.purge => \A r \in Roles \ Custom : data'[r] = None
<1>1. IInv /\ [Next]_vars => Gone
  <2> SUFFICES ASSUME IInv, [Next]_vars, cmd.phase \in {"occupancy", "question"}, cmd'.phase = "idle"
               PROVE  Gone
    OBVIOUS
  <2>1. /\ cr = None /\ (OwnsAdmin => ~built) /\ (OwnsTLS => tls = 0)
        /\ cmd.purge => \A r \in Roles \ Custom : data[r] = None
    BY DEF IInv, RemovalInv, NoManagedData
  <2>2. CASE UNCHANGED inside
    BY <2>1, <2>2 DEF inside
  <2>3. CASE cr' = None /\ data' = NoData /\ built' = FALSE /\ tls' = 0
    BY <2>3 DEF NoData
  <2>4. CASE Occupancy \/ DeleteNamespace
    BY <2>2, <2>3, <2>4 DEF Occupancy, DeleteNamespace
  <2>5. CASE StartDeploy \/ EnsureNamespace \/ CreateSecrets \/ DeployBroker \/ Confirm \/ OfferRestart
             \/ RestartPod \/ StartRestart \/ StartServerCerts \/ LoadCert
    BY <2>5 DEF StartDeploy, EnsureNamespace, CreateSecrets, DeployBroker, Confirm, OfferRestart,
                RestartPod, StartRestart, StartServerCerts, LoadCert, Start
  <2>6. CASE StartRemove \/ DeleteResource \/ DeleteClaims \/ DeleteSecrets
    BY <2>6 DEF StartRemove, DeleteResource, DeleteClaims, DeleteSecrets, Start
  <2>7. CASE Generate \/ EditFile \/ PutOther \/ (\E r \in Roles : StartPod(r) \/ PodGoes(r)) \/ UNCHANGED vars
    BY <2>7 DEF Generate, EditFile, PutOther, StartPod, PodGoes, vars
  <2> QED BY <2>4, <2>5, <2>6, <2>7 DEF Next
<1>2. IInv /\ [Next]_vars => [Gone]_vars
  BY <1>1
<1> QED BY InitInv, NextInv, <1>2, PTL DEF Spec, RemovedIsGone
===============================================================================
