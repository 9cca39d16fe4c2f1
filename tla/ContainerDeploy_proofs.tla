------------------------- MODULE ContainerDeploy_proofs -------------------------
(* Theorems about ContainerDeploy: types, what neither a deploy nor a remove     *)
(* does to a running broker, and what each of them leaves behind when it ends.   *)
EXTENDS ContainerDeploy, TLAPS

-------------------------------------------------------------------------------
(* Types *)

LEMMA NoneIsNew == None \notin Creds /\ None \notin Certs
  BY ValuesAssumption

\* What the engines make of a container is a container.
LEMMA BoxTypes ==
  ASSUME TypeOK
  PROVE  /\ FromUnit \in Box \cup {NoBox}
         /\ file # NoArtifact => Created \in Box
         /\ box.state # "absent" => box \in Box
         /\ Cert(env) \in Certs \cup {None} /\ Cert(want) \in Certs \cup {None}
         /\ Rendered(want) \in Artifact
<1>1. Cert(env) \in Certs \cup {None} /\ Cert(want) \in Certs \cup {None}
  BY DEF TypeOK, WishType, HostType, RunType, Cert
<1>2. Rendered(want) \in Artifact
  BY DEF TypeOK, WishType, HostType, RunType, Rendered, Artifact, Config
<1>3. file # NoArtifact => Created \in Box
  BY <1>1 DEF TypeOK, WishType, HostType, RunType, Created, Box, Config
<1>4. box.state # "absent" => box \in Box
  BY DEF TypeOK, WishType, HostType, RunType, NoBox
<1>5. CanStart => store.creds \in Creds /\ (unit.tls => store.cert \in Certs) /\ unit \in Artifact
  BY DEF TypeOK, WishType, HostType, RunType, CanStart
<1>6. FromUnit \in Box \cup {NoBox}
  BY <1>5 DEF FromUnit, Box, Artifact
<1> QED BY <1>1, <1>2, <1>3, <1>4, <1>6

LEMMA StateTypes ==
  ASSUME TypeOK, box.state # "absent", NEW st \in {"running", "stopped"}
  PROVE  [box EXCEPT !.state = st] \in Box
BY BoxTypes DEF Box

LEMMA AppliedType ==
  ASSUME TypeOK, Applying, CanApply
  PROVE  Applied \in Box \cup {NoBox}
<1>1. CASE pc = "start"
  BY <1>1, BoxTypes DEF Applied, TypeOK, HostType
<1>2. CASE pc = "bounce"
  BY <1>2, BoxTypes DEF Applied
<1>3. CASE pc = "up"
  <2>1. file # NoArtifact => Created \in Box
    BY BoxTypes
  <2>2. box.state # "absent" => Started \in Box
    BY StateTypes DEF Started
  <2>3. Applied = Upped
    BY <1>3 DEF Applied
  <2>4. file # NoArtifact
    BY <1>3 DEF CanApply
  <2> QED BY <2>1, <2>2, <2>3, <2>4 DEF Upped
<1>4. CASE pc = "force"
  BY <1>4, BoxTypes DEF Applied, CanApply
<1> QED BY <1>1, <1>2, <1>3, <1>4 DEF Applying

LEMMA TypeInit == Init => TypeOK
<1> SUFFICES ASSUME Init PROVE TypeOK
  OBVIOUS
<1>1. WishType
  BY DEF Init, WishType
<1>2. HostType
  BY DEF Init, HostType, Empty
<1>3. RunType
  BY DEF Init, RunType, Phase, Outcome
<1>4. BoundType
  BY BoundsAssumption DEF Init, BoundType
<1> QED BY <1>1, <1>2, <1>3, <1>4 DEF TypeOK

LEMMA GotoType ==
  ASSUME TypeOK, NEW p \in Phase, Goto(p)
  PROVE  RunType'
BY DEF TypeOK, RunType, Goto

LEMMA FinishType ==
  ASSUME TypeOK, NEW o \in Outcome, Finish(o)
  PROVE  RunType'
<1>1. behind' \in BOOLEAN
  BY DEF TypeOK, RunType, Finish
<1>2. pc' \in Phase
  BY DEF Finish, Phase
<1> QED BY <1>1, <1>2 DEF TypeOK, RunType, Finish

LEMMA CountType ==
  ASSUME TypeOK
  PROVE  /\ Fault => BoundType'
         /\ Meanwhile => BoundType'
         /\ UNCHANGED boundVars => BoundType'
BY BoundsAssumption DEF TypeOK, BoundType, Fault, Meanwhile, boundVars

LEMMA KeptType ==
  ASSUME TypeOK
  PROVE  /\ UNCHANGED wishVars => WishType'
         /\ UNCHANGED hostVars => HostType'
         /\ UNCHANGED runVars => RunType'
BY DEF TypeOK, WishType, HostType, RunType, wishVars, hostVars, runVars, Config

\* A host on which only the container has changed, or only a secret.
LEMMA HostTypes ==
  ASSUME TypeOK, UNCHANGED <<file, unit>>
  PROVE  /\ \A b \in Box \cup {NoBox} : SetBox(b) /\ UNCHANGED store => HostType'
         /\ \A v \in Creds \cup {None} : SetSecret("creds", v) => HostType'
         /\ \A v \in Certs \cup {None} : SetSecret("cert", v) => HostType'
<1>1. ASSUME NEW b \in Box \cup {NoBox}, SetBox(b), UNCHANGED store PROVE HostType'
  <2>1. data' \in BOOLEAN
    BY <1>1 DEF TypeOK, HostType, SetBox
  <2> QED BY <1>1, <2>1 DEF TypeOK, HostType, SetBox
<1>2. ASSUME NEW v \in Creds \cup {None}, SetSecret("creds", v) PROVE HostType'
  BY <1>2 DEF TypeOK, HostType, SetSecret
<1>3. ASSUME NEW v \in Certs \cup {None}, SetSecret("cert", v) PROVE HostType'
  BY <1>3 DEF TypeOK, HostType, SetSecret
<1> QED BY <1>1, <1>2, <1>3

LEMMA TypeStep == TypeOK /\ [Next]_vars => TypeOK'
<1> SUFFICES ASSUME TypeOK, [Next]_vars PROVE TypeOK'
  OBVIOUS
<1>1. ASSUME NEW o \in {"deploy", "certs", "remove"}, NEW f \in BOOLEAN, Begin(o, f)
      PROVE TypeOK'
  <2>1. WishType'
    BY <1>1, KeptType DEF Begin
  <2>2. HostType'
    BY <1>1, KeptType DEF Begin
  <2>3. RunType'
    BY <1>1, BoxTypes DEF Begin, First, TypeOK, WishType, RunType, Phase, Outcome
  <2>4. BoundType'
    BY <1>1, CountType DEF Begin
  <2> QED BY <2>1, <2>2, <2>3, <2>4 DEF TypeOK
<1>2. CASE RemoveCreds
  <2>1. WishType'
    BY <1>2, KeptType DEF RemoveCreds
  <2>2. HostType'
    BY <1>2, HostTypes DEF SetSecret, RemoveCreds
  <2>3. RunType'
    BY <1>2, GotoType DEF Phase, Outcome, RemoveCreds
  <2>4. BoundType'
    BY <1>2, CountType DEF RemoveCreds
  <2> QED BY <2>1, <2>2, <2>3, <2>4 DEF TypeOK
<1>3. CASE CreateCreds
  <2>1. WishType'
    BY <1>3, KeptType DEF CreateCreds
  <2>2. HostType'
    BY <1>3, HostTypes DEF SetSecret, TypeOK, RunType, Config, CreateCreds
  <2>3. RunType'
    BY <1>3, GotoType DEF Phase, Outcome, CreateCreds
  <2>4. BoundType'
    BY <1>3, CountType DEF CreateCreds
  <2> QED BY <2>1, <2>2, <2>3, <2>4 DEF TypeOK
<1>4. CASE CompareCert
  <2>1. WishType'
    BY <1>4, KeptType DEF CompareCert
  <2>2. HostType'
    BY <1>4, KeptType DEF CompareCert
  <2>3. RunType'
    BY <1>4, GotoType DEF AfterCert, TypeOK, RunType, Phase, Outcome, CompareCert
  <2>4. BoundType'
    BY <1>4, CountType DEF CompareCert
  <2> QED BY <2>1, <2>2, <2>3, <2>4 DEF TypeOK
<1>5. CASE RemoveCert
  <2>1. WishType'
    BY <1>5, KeptType DEF RemoveCert
  <2>2. HostType'
    BY <1>5, HostTypes DEF SetSecret, RemoveCert
  <2>3. RunType'
    BY <1>5, GotoType DEF Phase, Outcome, RemoveCert
  <2>4. BoundType'
    BY <1>5, CountType DEF RemoveCert
  <2> QED BY <2>1, <2>2, <2>3, <2>4 DEF TypeOK
<1>6. CASE CreateCert
  <2>1. WishType'
    BY <1>6, KeptType DEF CreateCert
  <2>2. HostType'
    BY <1>6, HostTypes DEF SetSecret, TypeOK, RunType, CreateCert
  <2>3. RunType'
    BY <1>6, GotoType DEF AfterCert, Phase, Outcome, CreateCert
  <2>4. BoundType'
    BY <1>6, CountType DEF CreateCert
  <2> QED BY <2>1, <2>2, <2>3, <2>4 DEF TypeOK
<1>7. CASE LoadCert
  <2>1. WishType'
    BY <1>7, KeptType DEF LoadCert
  <2>2. HostType'
    BY <1>7, StateTypes, BoxTypes DEF TypeOK, HostType, WishType, Box, Running, LoadCert
  <2>3. RunType'
    BY <1>7, FinishType DEF Outcome, LoadCert
  <2>4. BoundType'
    BY <1>7, CountType DEF LoadCert
  <2> QED BY <2>1, <2>2, <2>3, <2>4 DEF TypeOK
<1>8. CASE WriteArtifact
  <2>1. WishType'
    BY <1>8, KeptType DEF WriteArtifact
  <2>2. HostType'
    BY <1>8, BoxTypes DEF TypeOK, HostType, WriteArtifact
  <2>3. RunType'
    BY <1>8, KeptType DEF TypeOK, RunType, Phase, Outcome, WriteArtifact
  <2>4. BoundType'
    BY <1>8, CountType DEF WriteArtifact
  <2> QED BY <2>1, <2>2, <2>3, <2>4 DEF TypeOK
<1>9. CASE Reload
  <2>1. WishType'
    BY <1>9, KeptType DEF Reload
  <2>2. HostType'
    BY <1>9, KeptType DEF TypeOK, HostType, Reload
  <2>3. RunType'
    BY <1>9, GotoType DEF Phase, Outcome, Reload
  <2>4. BoundType'
    BY <1>9, CountType DEF Reload
  <2> QED BY <2>1, <2>2, <2>3, <2>4 DEF TypeOK
<1>10. CASE ProbeUnit
  <2>1. WishType'
    BY <1>10, KeptType DEF ProbeUnit
  <2>2. HostType'
    BY <1>10, KeptType DEF ProbeUnit
  <2>3. RunType'
    BY <1>10, GotoType, FinishType DEF Phase, Outcome, TypeOK, RunType, ProbeUnit
  <2>4. BoundType'
    BY <1>10, CountType DEF ProbeUnit
  <2> QED BY <2>1, <2>2, <2>3, <2>4 DEF TypeOK
<1>11. CASE ProbeContainer
  <2>1. WishType'
    BY <1>11, KeptType DEF ProbeContainer
  <2>2. HostType'
    BY <1>11, KeptType DEF ProbeContainer
  <2>3. RunType'
    BY <1>11, GotoType, FinishType DEF Phase, Outcome, Unanswered, ProbeContainer
  <2>4. BoundType'
    BY <1>11, CountType DEF ProbeContainer, Unanswered
  <2> QED BY <2>1, <2>2, <2>3, <2>4 DEF TypeOK
<1>12. CASE Ask
  <2>1. WishType'
    BY <1>12, KeptType DEF Ask
  <2>2. HostType'
    BY <1>12, KeptType DEF Ask
  <2>3. RunType'
    BY <1>12, FinishType DEF Apply, TypeOK, RunType, Phase, Outcome, Ask
  <2>4. BoundType'
    BY <1>12, CountType DEF Ask
  <2> QED BY <2>1, <2>2, <2>3, <2>4 DEF TypeOK
<1>13. CASE ApplyDeploy
  <2>1. WishType'
    BY <1>13, KeptType DEF ApplyDeploy
  <2>2. HostType'
    BY <1>13, HostTypes, AppliedType DEF ApplyDeploy
  <2>3. RunType'
    BY <1>13, FinishType DEF Outcome, ApplyDeploy
  <2>4. BoundType'
    BY <1>13, CountType DEF ApplyDeploy
  <2> QED BY <2>1, <2>2, <2>3, <2>4 DEF TypeOK
<1>14. CASE StopUnit
  <2>1. WishType'
    BY <1>14, KeptType DEF StopUnit
  <2>2. HostType'
    BY <1>14, HostTypes DEF SetBox, TypeOK, HostType, StopUnit
  <2>3. RunType'
    BY <1>14, GotoType DEF Phase, Outcome, StopUnit
  <2>4. BoundType'
    BY <1>14, CountType DEF StopUnit
  <2> QED BY <2>1, <2>2, <2>3, <2>4 DEF TypeOK
<1>15. CASE RemoveUnit
  <2>1. WishType'
    BY <1>15, KeptType DEF RemoveUnit
  <2>2. HostType'
    BY <1>15, KeptType DEF TypeOK, HostType, RemoveUnit
  <2>3. RunType'
    BY <1>15, GotoType DEF Phase, Outcome, RemoveUnit
  <2>4. BoundType'
    BY <1>15, CountType DEF RemoveUnit
  <2> QED BY <2>1, <2>2, <2>3, <2>4 DEF TypeOK
<1>16. CASE RemoveSecrets
  <2>1. WishType'
    BY <1>16, KeptType DEF RemoveSecrets
  <2>2. HostType'
    BY <1>16, KeptType DEF TypeOK, HostType, RemoveSecrets
  <2>3. RunType'
    BY <1>16, GotoType, FinishType DEF Phase, Outcome, AfterRemoval, RemoveSecrets
  <2>4. BoundType'
    BY <1>16, CountType DEF RemoveSecrets
  <2> QED BY <2>1, <2>2, <2>3, <2>4 DEF TypeOK
<1>17. CASE Down
  <2>1. WishType'
    BY <1>17, KeptType DEF Down
  <2>2. HostType'
    BY <1>17, HostTypes, StateTypes DEF Down
  <2>3. RunType'
    BY <1>17, GotoType, FinishType DEF Phase, Outcome, AfterRemoval, Down
  <2>4. BoundType'
    BY <1>17, CountType DEF Down
  <2> QED BY <2>1, <2>2, <2>3, <2>4 DEF TypeOK
<1>18. CASE RemoveByName
  <2>1. WishType'
    BY <1>18, KeptType DEF RemoveByName
  <2>2. HostType'
    BY <1>18, HostTypes DEF RemoveByName
  <2>3. RunType'
    BY <1>18, GotoType, FinishType DEF Phase, Outcome, AfterRemoval, RemoveByName
  <2>4. BoundType'
    BY <1>18, CountType DEF RemoveByName
  <2> QED BY <2>1, <2>2, <2>3, <2>4 DEF TypeOK
<1>19. CASE PurgeData
  <2>1. WishType'
    BY <1>19, KeptType DEF PurgeData
  <2>2. HostType'
    BY <1>19, KeptType DEF TypeOK, HostType, PurgeData
  <2>3. RunType'
    BY <1>19, FinishType DEF Outcome, PurgeData
  <2>4. BoundType'
    BY <1>19, CountType DEF PurgeData
  <2> QED BY <2>1, <2>2, <2>3, <2>4 DEF TypeOK
<1>20. CASE Fail
  <2>1. WishType'
    BY <1>20, KeptType DEF Fail
  <2>2. HostType'
    BY <1>20, KeptType DEF Fail
  <2>3. RunType'
    BY <1>20, FinishType DEF Outcome, Fail
  <2>4. BoundType'
    BY <1>20, CountType DEF Fail
  <2> QED BY <2>1, <2>2, <2>3, <2>4 DEF TypeOK
<1>21. CASE FailApplying
  <2>1. WishType'
    BY <1>21, KeptType DEF FailApplying
  <2>2. HostType'
    BY <1>21, HostTypes, AppliedType DEF FailApplying
  <2>3. RunType'
    BY <1>21, FinishType DEF Outcome, FailApplying
  <2>4. BoundType'
    BY <1>21, CountType DEF FailApplying
  <2> QED BY <2>1, <2>2, <2>3, <2>4 DEF TypeOK
<1>22. CASE Refuse
  <2>1. WishType'
    BY <1>22, KeptType DEF Refuse
  <2>2. HostType'
    BY <1>22, HostTypes, KeptType DEF hostVars, Refuse
  <2>3. RunType'
    BY <1>22, FinishType DEF Outcome, Refuse
  <2>4. BoundType'
    BY <1>22, CountType DEF Refuse
  <2> QED BY <2>1, <2>2, <2>3, <2>4 DEF TypeOK
<1>23. CASE StartBroker
  <2>1. WishType'
    BY <1>23, KeptType DEF StartBroker
  <2>2. HostType'
    BY <1>23, HostTypes, BoxTypes, StateTypes DEF Started, StartBroker
  <2>3. RunType'
    BY <1>23, KeptType DEF StartBroker
  <2>4. BoundType'
    BY <1>23, CountType DEF StartBroker
  <2> QED BY <2>1, <2>2, <2>3, <2>4 DEF TypeOK
<1>24. CASE StopBroker
  <2>1. WishType'
    BY <1>24, KeptType DEF StopBroker
  <2>2. HostType'
    BY <1>24, HostTypes, StateTypes DEF Running, StopBroker
  <2>3. RunType'
    BY <1>24, KeptType DEF StopBroker
  <2>4. BoundType'
    BY <1>24, CountType DEF StopBroker
  <2> QED BY <2>1, <2>2, <2>3, <2>4 DEF TypeOK
<1>25. CASE RestartBroker
  <2>1. WishType'
    BY <1>25, KeptType DEF RestartBroker
  <2>2. HostType'
    BY <1>25, HostTypes, BoxTypes, StateTypes DEF Started, Running, RestartBroker
  <2>3. RunType'
    BY <1>25, KeptType DEF RestartBroker
  <2>4. BoundType'
    BY <1>25, CountType DEF RestartBroker
  <2> QED BY <2>1, <2>2, <2>3, <2>4 DEF TypeOK
<1>26. CASE EditEnv
  <2>1. WishType'
    BY <1>26, KeptType DEF TypeOK, WishType, EditEnv
  <2>2. HostType'
    BY <1>26, KeptType DEF EditEnv
  <2>3. RunType'
    BY <1>26, KeptType DEF EditEnv
  <2>4. BoundType'
    BY <1>26, BoundsAssumption DEF TypeOK, BoundType, EditEnv
  <2> QED BY <2>1, <2>2, <2>3, <2>4 DEF TypeOK
<1>27. CASE RenewCert
  <2>1. WishType'
    BY <1>27, KeptType DEF TypeOK, WishType, RenewCert
  <2>2. HostType'
    BY <1>27, KeptType DEF RenewCert
  <2>3. RunType'
    BY <1>27, KeptType DEF RenewCert
  <2>4. BoundType'
    BY <1>27, BoundsAssumption DEF TypeOK, BoundType, RenewCert
  <2> QED BY <2>1, <2>2, <2>3, <2>4 DEF TypeOK
<1>28. CASE LoseFile
  <2>1. WishType'
    BY <1>28, KeptType DEF LoseFile
  <2>2. HostType'
    BY <1>28, KeptType DEF TypeOK, HostType, LoseFile
  <2>3. RunType'
    BY <1>28, KeptType DEF LoseFile
  <2>4. BoundType'
    BY <1>28, BoundsAssumption DEF TypeOK, BoundType, LoseFile
  <2> QED BY <2>1, <2>2, <2>3, <2>4 DEF TypeOK
<1>29. CASE UNCHANGED vars
  BY <1>29, KeptType, CountType DEF vars, TypeOK
<1> QED
  BY <1>1, <1>2, <1>3, <1>4, <1>5, <1>6, <1>7, <1>8, <1>9, <1>10, <1>11, <1>12, <1>13, <1>14, <1>15, <1>16, <1>17, <1>18, <1>19, <1>20, <1>21, <1>22, <1>23, <1>24, <1>25, <1>26, <1>27, <1>28, <1>29
     DEF Next, RunStep

\* Every variable keeps its type, whatever the specifications, credentials and
\* certificates, and however many edits, failures and outside changes there are.
THEOREM TypeCorrect == Spec => []TypeOK
BY TypeInit, TypeStep, PTL DEF Spec

-------------------------------------------------------------------------------
(* A deploy asks before it bounces                                               *)

DeployPhase == {"rmCreds", "mkCreds", "write", "probe", "ask", "askForce",
                "start", "bounce", "up", "force"}
SharedPhase == {"cert", "rmCert", "mkCert"}

RemovePhase == {"stop", "down", "rm", "rmUnit", "rmSecrets", "purge"}

\* Each phase belongs to its command.
PhaseInv ==
  /\ pc \in DeployPhase => op = "deploy"
  /\ pc \in RemovePhase => op = "remove"
  /\ pc \in SharedPhase => op # "remove"
  /\ pc = "load" => op = "certs"
  /\ pc = "reload" => op # "certs"

\* A deploy with --restart is approved; a bounce of a broker that runs is approved
\* when it is due, unless the broker has been started since the probe.
ConsentInv ==
  /\ op = "deploy" /\ flag => yes
  /\ pc \in {"bounce", "up"} => yes
  /\ pc = "force" /\ Running /\ outside = 0 => yes

\* A remove that has got past its stop has stopped the broker.
StoppedInv ==
  /\ pc \in {"rmUnit", "rmSecrets", "purge"} /\ outside = 0 => ~Running
  /\ pc = "reload" /\ op = "remove" /\ outside = 0 => ~Running

Safe == TypeOK /\ PhaseInv /\ ConsentInv /\ StoppedInv

\* Nobody's interference is forgotten.
LEMMA OutsideGrows ==
  ASSUME TypeOK, [Next]_vars, outside' = 0
  PROVE  outside = 0
<1>1. outside \in Nat
  BY BoundsAssumption DEF TypeOK, BoundType
<1>2. outside' = outside \/ outside' = outside + 1
  BY DEF Next, RunStep, Begin, RemoveCreds, CreateCreds, CompareCert, RemoveCert, CreateCert,
         LoadCert, WriteArtifact, Reload, ProbeUnit, ProbeContainer, Unanswered, Ask,
         ApplyDeploy, StopUnit, RemoveUnit, RemoveSecrets, Down, RemoveByName, PurgeData,
         Fail, FailApplying, Refuse, StartBroker, StopBroker, RestartBroker, EditEnv,
         RenewCert, LoseFile, Fault, Meanwhile, boundVars, vars
<1> QED BY <1>1, <1>2

LEMMA SafeInit == Init => Safe
BY TypeInit DEF Init, Safe, PhaseInv, ConsentInv, StoppedInv, DeployPhase, SharedPhase, RemovePhase

LEMMA SafeStep == Safe /\ [Next]_vars => Safe'
<1> SUFFICES ASSUME Safe, [Next]_vars PROVE Safe'
  OBVIOUS
<1>1. TypeOK'
  BY TypeStep DEF Safe
<1>2. outside' = 0 => outside = 0
  BY OutsideGrows DEF Safe
<1>3. outside \in Nat
  BY BoundsAssumption DEF Safe, TypeOK, BoundType
<1> USE DEF Safe, PhaseInv, ConsentInv, StoppedInv, DeployPhase, SharedPhase, RemovePhase, Outcome, Running, Idle,
        Goto, Finish, hostVars, runVars
<1>4. ASSUME NEW o \in {"deploy", "certs", "remove"}, NEW f \in BOOLEAN, Begin(o, f)
      PROVE PhaseInv' /\ ConsentInv' /\ StoppedInv'
  <2>0. PhaseInv'
    BY <1>4 DEF Begin, First
  <2>1. ConsentInv'
    BY <1>4, <1>2 DEF Begin, First
  <2>2. StoppedInv'
    BY <1>4, <1>2 DEF Begin, First
  <2> QED BY <2>0, <2>1, <2>2
<1>5. CASE RemoveCreds
  <2>0. PhaseInv'
    BY <1>5 DEF RemoveCreds, SetSecret, TypeOK, RunType
  <2>1. ConsentInv'
    BY <1>5, <1>2, <1>3 DEF RemoveCreds, SetSecret
  <2>2. StoppedInv'
    BY <1>5, <1>2, <1>3 DEF RemoveCreds, SetSecret, TypeOK, RunType
  <2> QED BY <1>1, <2>0, <2>1, <2>2
<1>6. CASE CreateCreds
  <2>0. PhaseInv'
    BY <1>6 DEF CreateCreds, SetSecret, TypeOK, RunType
  <2>1. ConsentInv'
    BY <1>6, <1>2, <1>3 DEF CreateCreds, SetSecret
  <2>2. StoppedInv'
    BY <1>6, <1>2, <1>3 DEF CreateCreds, SetSecret, TypeOK, RunType
  <2> QED BY <1>1, <2>0, <2>1, <2>2
<1>7. CASE CompareCert
  <2>0. PhaseInv'
    BY <1>7 DEF CompareCert, AfterCert, TypeOK, RunType
  <2>1. ConsentInv'
    BY <1>7, <1>2, <1>3 DEF CompareCert, AfterCert
  <2>2. StoppedInv'
    BY <1>7, <1>2, <1>3 DEF CompareCert, AfterCert, TypeOK, RunType
  <2> QED BY <1>1, <2>0, <2>1, <2>2
<1>8. CASE RemoveCert
  <2>0. PhaseInv'
    BY <1>8 DEF RemoveCert, SetSecret, TypeOK, RunType
  <2>1. ConsentInv'
    BY <1>8, <1>2, <1>3 DEF RemoveCert, SetSecret
  <2>2. StoppedInv'
    BY <1>8, <1>2, <1>3 DEF RemoveCert, SetSecret, TypeOK, RunType
  <2> QED BY <1>1, <2>0, <2>1, <2>2
<1>9. CASE CreateCert
  <2>0. PhaseInv'
    BY <1>9 DEF CreateCert, AfterCert, SetSecret, TypeOK, RunType
  <2>1. ConsentInv'
    BY <1>9, <1>2, <1>3 DEF CreateCert, AfterCert, SetSecret
  <2>2. StoppedInv'
    BY <1>9, <1>2, <1>3 DEF CreateCert, AfterCert, SetSecret, TypeOK, RunType
  <2> QED BY <1>1, <2>0, <2>1, <2>2
<1>10. CASE LoadCert
  <2>0. PhaseInv'
    BY <1>10 DEF LoadCert, TypeOK, RunType
  <2>1. ConsentInv'
    BY <1>10, <1>2, <1>3 DEF LoadCert
  <2>2. StoppedInv'
    BY <1>10, <1>2, <1>3 DEF LoadCert, TypeOK, RunType
  <2> QED BY <1>1, <2>0, <2>1, <2>2
<1>11. CASE WriteArtifact
  <2>0. PhaseInv'
    BY <1>11 DEF WriteArtifact, TypeOK, RunType
  <2>1. ConsentInv'
    BY <1>11, <1>2, <1>3 DEF WriteArtifact
  <2>2. StoppedInv'
    BY <1>11, <1>2, <1>3 DEF WriteArtifact, TypeOK, RunType
  <2> QED BY <1>1, <2>0, <2>1, <2>2
<1>12. CASE Reload
  <2>0. PhaseInv'
    BY <1>12 DEF Reload, TypeOK, RunType
  <2>1. ConsentInv'
    BY <1>12, <1>2, <1>3 DEF Reload
  <2>2. StoppedInv'
    BY <1>12, <1>2, <1>3 DEF Reload, TypeOK, RunType
  <2> QED BY <1>1, <2>0, <2>1, <2>2
<1>13. CASE ProbeUnit
  <2>0. PhaseInv'
    BY <1>13 DEF ProbeUnit, TypeOK, RunType
  <2>1. ConsentInv'
    BY <1>13, <1>2, <1>3 DEF ProbeUnit
  <2>2. StoppedInv'
    BY <1>13, <1>2, <1>3 DEF ProbeUnit, TypeOK, RunType
  <2> QED BY <1>1, <2>0, <2>1, <2>2
<1>14. CASE ProbeContainer
  <2>0. PhaseInv'
    BY <1>14 DEF ProbeContainer, Unanswered, TypeOK, RunType
  <2>1. ConsentInv'
    BY <1>14, <1>2, <1>3 DEF ProbeContainer, Unanswered
  <2>2. StoppedInv'
    BY <1>14, <1>2, <1>3 DEF ProbeContainer, Unanswered, TypeOK, RunType
  <2> QED BY <1>1, <2>0, <2>1, <2>2
<1>15. CASE Ask
  <2>0. PhaseInv'
    BY <1>15 DEF Ask, Apply, TypeOK, RunType
  <2>1. ConsentInv'
    BY <1>15, <1>2, <1>3 DEF Ask, Apply
  <2>2. StoppedInv'
    BY <1>15, <1>2, <1>3 DEF Ask, Apply, TypeOK, RunType
  <2> QED BY <1>1, <2>0, <2>1, <2>2
<1>16. CASE ApplyDeploy
  <2>0. PhaseInv'
    BY <1>16 DEF ApplyDeploy, Applying, SetBox, NoBox, TypeOK, RunType
  <2>1. ConsentInv'
    BY <1>16, <1>2, <1>3 DEF ApplyDeploy, Applying, SetBox, NoBox
  <2>2. StoppedInv'
    BY <1>16, <1>2, <1>3 DEF ApplyDeploy, Applying, SetBox, NoBox, TypeOK, RunType
  <2> QED BY <1>1, <2>0, <2>1, <2>2
<1>17. CASE StopUnit
  <2>0. PhaseInv'
    BY <1>17 DEF StopUnit, ConfirmedStopped, SetBox, NoBox, TypeOK, RunType
  <2>1. ConsentInv'
    BY <1>17, <1>2, <1>3 DEF StopUnit, ConfirmedStopped, SetBox, NoBox
  <2>2. StoppedInv'
    BY <1>17, <1>2, <1>3 DEF StopUnit, ConfirmedStopped, SetBox, NoBox, TypeOK, RunType
  <2> QED BY <1>1, <2>0, <2>1, <2>2
<1>18. CASE RemoveUnit
  <2>0. PhaseInv'
    BY <1>18 DEF RemoveUnit, TypeOK, RunType
  <2>1. ConsentInv'
    BY <1>18, <1>2, <1>3 DEF RemoveUnit
  <2>2. StoppedInv'
    BY <1>18, <1>2, <1>3 DEF RemoveUnit, TypeOK, RunType
  <2> QED BY <1>1, <2>0, <2>1, <2>2
<1>19. CASE RemoveSecrets
  <2>0. PhaseInv'
    BY <1>19 DEF RemoveSecrets, AfterRemoval, TypeOK, RunType
  <2>1. ConsentInv'
    BY <1>19, <1>2, <1>3 DEF RemoveSecrets, AfterRemoval
  <2>2. StoppedInv'
    BY <1>19, <1>2, <1>3 DEF RemoveSecrets, AfterRemoval, TypeOK, RunType
  <2> QED BY <1>1, <2>0, <2>1, <2>2
<1>20. CASE Down
  <2>0. PhaseInv'
    BY <1>20 DEF Down, AfterRemoval, SetBox, NoBox, TypeOK, RunType
  <2>1. ConsentInv'
    BY <1>20, <1>2, <1>3 DEF Down, AfterRemoval, SetBox, NoBox
  <2>2. StoppedInv'
    BY <1>20, <1>2, <1>3 DEF Down, AfterRemoval, SetBox, NoBox, TypeOK, RunType
  <2> QED BY <1>1, <2>0, <2>1, <2>2
<1>21. CASE RemoveByName
  <2>0. PhaseInv'
    BY <1>21 DEF RemoveByName, AfterRemoval, SetBox, NoBox, TypeOK, RunType
  <2>1. ConsentInv'
    BY <1>21, <1>2, <1>3 DEF RemoveByName, AfterRemoval, SetBox, NoBox
  <2>2. StoppedInv'
    BY <1>21, <1>2, <1>3 DEF RemoveByName, AfterRemoval, SetBox, NoBox, TypeOK, RunType
  <2> QED BY <1>1, <2>0, <2>1, <2>2
<1>22. CASE PurgeData
  <2>0. PhaseInv'
    BY <1>22 DEF PurgeData, TypeOK, RunType
  <2>1. ConsentInv'
    BY <1>22, <1>2, <1>3 DEF PurgeData
  <2>2. StoppedInv'
    BY <1>22, <1>2, <1>3 DEF PurgeData, TypeOK, RunType
  <2> QED BY <1>1, <2>0, <2>1, <2>2
<1>23. CASE Fail
  <2>0. PhaseInv'
    BY <1>23 DEF Fail, TypeOK, RunType
  <2>1. ConsentInv'
    BY <1>23, <1>2, <1>3 DEF Fail
  <2>2. StoppedInv'
    BY <1>23, <1>2, <1>3 DEF Fail, TypeOK, RunType
  <2> QED BY <1>1, <2>0, <2>1, <2>2
<1>24. CASE FailApplying
  <2>0. PhaseInv'
    BY <1>24 DEF FailApplying, Applying, SetBox, NoBox, TypeOK, RunType
  <2>1. ConsentInv'
    BY <1>24, <1>2, <1>3 DEF FailApplying, Applying, SetBox, NoBox
  <2>2. StoppedInv'
    BY <1>24, <1>2, <1>3 DEF FailApplying, Applying, SetBox, NoBox, TypeOK, RunType
  <2> QED BY <1>1, <2>0, <2>1, <2>2
<1>25. CASE Refuse
  <2>0. PhaseInv'
    BY <1>25 DEF Refuse, Applying, SetBox, NoBox, TypeOK, RunType
  <2>1. ConsentInv'
    BY <1>25, <1>2, <1>3 DEF Refuse, Applying, SetBox, NoBox
  <2>2. StoppedInv'
    BY <1>25, <1>2, <1>3 DEF Refuse, Applying, SetBox, NoBox, TypeOK, RunType
  <2> QED BY <1>1, <2>0, <2>1, <2>2
<1>26. CASE StartBroker
  <2>0. PhaseInv'
    BY <1>26 DEF StartBroker, Meanwhile, SetBox, NoBox, TypeOK, RunType
  <2>1. ConsentInv'
    BY <1>26, <1>2, <1>3 DEF StartBroker, Meanwhile, SetBox, NoBox
  <2>2. StoppedInv'
    BY <1>26, <1>2, <1>3 DEF StartBroker, Meanwhile, SetBox, NoBox, TypeOK, RunType
  <2> QED BY <1>1, <2>0, <2>1, <2>2
<1>27. CASE StopBroker
  <2>0. PhaseInv'
    BY <1>27 DEF StopBroker, Meanwhile, SetBox, NoBox, TypeOK, RunType
  <2>1. ConsentInv'
    BY <1>27, <1>2, <1>3 DEF StopBroker, Meanwhile, SetBox, NoBox
  <2>2. StoppedInv'
    BY <1>27, <1>2, <1>3 DEF StopBroker, Meanwhile, SetBox, NoBox, TypeOK, RunType
  <2> QED BY <1>1, <2>0, <2>1, <2>2
<1>28. CASE RestartBroker
  <2>0. PhaseInv'
    BY <1>28 DEF RestartBroker, Meanwhile, SetBox, NoBox, TypeOK, RunType
  <2>1. ConsentInv'
    BY <1>28, <1>2, <1>3 DEF RestartBroker, Meanwhile, SetBox, NoBox
  <2>2. StoppedInv'
    BY <1>28, <1>2, <1>3 DEF RestartBroker, Meanwhile, SetBox, NoBox, TypeOK, RunType
  <2> QED BY <1>1, <2>0, <2>1, <2>2
<1>29. CASE EditEnv
  <2>0. PhaseInv'
    BY <1>29 DEF EditEnv, TypeOK, RunType
  <2>1. ConsentInv'
    BY <1>29, <1>2, <1>3 DEF EditEnv
  <2>2. StoppedInv'
    BY <1>29, <1>2, <1>3 DEF EditEnv, TypeOK, RunType
  <2> QED BY <1>1, <2>0, <2>1, <2>2
<1>30. CASE RenewCert
  <2>0. PhaseInv'
    BY <1>30 DEF RenewCert, TypeOK, RunType
  <2>1. ConsentInv'
    BY <1>30, <1>2, <1>3 DEF RenewCert
  <2>2. StoppedInv'
    BY <1>30, <1>2, <1>3 DEF RenewCert, TypeOK, RunType
  <2> QED BY <1>1, <2>0, <2>1, <2>2
<1>31. CASE LoseFile
  <2>0. PhaseInv'
    BY <1>31 DEF LoseFile, TypeOK, RunType
  <2>1. ConsentInv'
    BY <1>31, <1>2, <1>3 DEF LoseFile
  <2>2. StoppedInv'
    BY <1>31, <1>2, <1>3 DEF LoseFile, TypeOK, RunType
  <2> QED BY <1>1, <2>0, <2>1, <2>2
<1>32. CASE UNCHANGED vars
  BY <1>1, <1>32 DEF vars, boundVars
<1> QED
  BY <1>1, <1>4, <1>5, <1>6, <1>7, <1>8, <1>9, <1>10, <1>11, <1>12, <1>13, <1>14, <1>15, <1>16, <1>17, <1>18, <1>19, <1>20, <1>21, <1>22, <1>23, <1>24, <1>25, <1>26, <1>27, <1>28, <1>29, <1>30, <1>31, <1>32
     DEF Next, RunStep

LEMMA SafeAlways == Spec => []Safe
BY SafeInit, SafeStep, PTL DEF Spec

\* A deploy never takes away or replaces a running broker without --restart or a
\* yes, whatever fails, is not answered, edited or left over, for any number of runs.
THEOREM DeployAsksFirst == Spec => NoUnapprovedBounce
<1>1. ASSUME Safe, Next, op = "deploy", ~Idle, Running, box' # box, outside' = 0
      PROVE  yes
  <2>1. outside = 0 /\ outside \in Nat
    BY <1>1, OutsideGrows, BoundsAssumption DEF Safe, TypeOK, BoundType
  <2>2. CASE ApplyDeploy \/ FailApplying
    BY <1>1, <2>1, <2>2 DEF ApplyDeploy, FailApplying, Applying, Applied, SetBox, Safe, ConsentInv
  <2>3. CASE StartBroker \/ StopBroker \/ RestartBroker
    BY <1>1, <2>1, <2>3 DEF StartBroker, StopBroker, RestartBroker, Meanwhile
  <2>4. CASE LoadCert \/ StopUnit \/ Down \/ RemoveByName
    BY <1>1, <2>4 DEF LoadCert, StopUnit, Down, RemoveByName, Safe, PhaseInv, RemovePhase
  <2>5. CASE Refuse
    BY <1>1, <2>5 DEF Refuse, Safe, ConsentInv
  <2>6. ASSUME NEW o \in {"deploy", "certs", "remove"}, NEW f \in BOOLEAN, Begin(o, f) PROVE yes
    BY <1>1, <2>6 DEF Begin
  <2> QED
    BY <1>1, <2>2, <2>3, <2>4, <2>5, <2>6
       DEF Next, RunStep, RemoveCreds, CreateCreds, CompareCert, RemoveCert, CreateCert,
           SetSecret, WriteArtifact, Reload, ProbeUnit, ProbeContainer, Ask, RemoveUnit,
           RemoveSecrets, PurgeData, Fail, EditEnv, RenewCert, LoseFile, hostVars
<1>2. Safe /\ [Next]_vars
      => [op = "deploy" /\ ~Idle /\ Running /\ box' # box /\ outside' = 0 => yes]_vars
  BY <1>1
<1> QED BY <1>2, SafeAlways, PTL DEF Spec, NoUnapprovedBounce

\* A remove takes nothing from a broker that runs: not its unit, its secrets or its
\* data, also when the stop has failed.
THEOREM RemoveStopsFirst == Spec => TeardownStopsFirst
<1> DEFINE Kept == UNCHANGED <<file, unit, store>> /\ (data => data')
<1>1. ASSUME Safe, Next, op = "remove", ~Idle, Running, outside' = 0
      PROVE  Kept
  <2>1. outside = 0 /\ outside \in Nat
    BY <1>1, OutsideGrows, BoundsAssumption DEF Safe, TypeOK, BoundType
  <2>2. pc \notin DeployPhase \cup SharedPhase \cup {"load", "rmUnit", "rmSecrets", "purge", "reload"}
    BY <1>1, <2>1 DEF Safe, PhaseInv, StoppedInv
  <2>3. CASE LoseFile
    BY <2>1, <2>3, <1>1 DEF LoseFile
  <2>4. ASSUME NEW o \in {"deploy", "certs", "remove"}, NEW f \in BOOLEAN, Begin(o, f) PROVE Kept
    BY <1>1, <2>4 DEF Begin
  <2>5. \A b : SetBox(b) => (data => data')
    BY Zenon DEF SetBox
  <2>6. CASE StopUnit \/ Down \/ RemoveByName \/ Refuse \/ Fail \/ FailApplying
    BY <2>5, <2>6 DEF StopUnit, Down, RemoveByName, Refuse, Fail, FailApplying, hostVars
  <2>7. CASE StartBroker \/ StopBroker \/ RestartBroker \/ EditEnv \/ RenewCert
    BY <2>5, <2>7 DEF StartBroker, StopBroker, RestartBroker, EditEnv, RenewCert, hostVars
  <2> QED
    BY <1>1, <2>2, <2>3, <2>4, <2>6, <2>7
       DEF Next, RunStep, RemoveCreds, CreateCreds, CompareCert, RemoveCert, CreateCert,
           LoadCert, WriteArtifact, Reload, ProbeUnit, ProbeContainer, Ask, ApplyDeploy,
           Applying, RemoveUnit, RemoveSecrets, PurgeData, DeployPhase, SharedPhase
<1>2. Safe /\ [Next]_vars
      => [op = "remove" /\ ~Idle /\ Running /\ outside' = 0 => Kept]_vars
  BY <1>1
<1> QED BY <1>2, SafeAlways, PTL DEF Spec, TeardownStopsFirst

-------------------------------------------------------------------------------
(* What a deploy has prepared, and what it leaves level                          *)

\* A deploy that has written its artifact.
Written == /\ op = "deploy"
           /\ pc \in {"reload", "probe", "ask", "askForce", "start", "bounce", "up", "force"}

\* A deploy that has loaded its secrets, and one that has also loaded its unit.
Stored == /\ op = "deploy" /\ platform = "podman" /\ want.tls
          /\ pc \in {"write", "reload", "probe", "ask", "start", "bounce"}
Loaded == op = "deploy" /\ platform = "podman" /\ pc \in {"probe", "ask", "start", "bounce"}

\* What is on disk, loaded and stored past each of these points is this run's,
\* unless somebody has taken the artifact away; a broker that somebody starts then
\* is this run's, too.
PreparedInv ==
  /\ pc \in {"start", "bounce"} => platform = "podman"
  /\ pc \in {"askForce", "up", "force"} => platform = "docker"
  /\ Written => file \in {Rendered(want), NoArtifact}
  /\ Loaded => unit \in {Rendered(want), NoArtifact}
  /\ Stored => store.cert = bundle
  /\ pc = "load" /\ platform = "podman" => store.cert = bundle
  /\ pc = "start" /\ ~blind /\ Running =>
       /\ box.art = Rendered(want) /\ unit = Rendered(want)
       /\ want.tls => box.cert = bundle

\* A deploy, or any command, that still has to act on a change it has found.
Deploying == op = "deploy" /\ changed /\ ~Idle
Changing == changed /\ ~Idle

\* A certificate is replaced for a change; a remove knows of none.
ChangeInv == /\ pc \in {"rmCert", "mkCert"} => changed
             /\ op = "remove" /\ ~Idle => ~changed

\* The container and the unit are the artifact's on disk, or, once a deploy has
\* written it and seen no change, that deploy's.
ArtifactLevel ==
  /\ file # NoArtifact /\ ~Deploying =>
       /\ box.state # "absent" => box.art = file
       /\ platform = "podman" => unit = file
  /\ Written /\ ~changed =>
       /\ box.state # "absent" => box.art = Rendered(want)
       /\ platform = "podman" => unit \in {Rendered(want), NoArtifact}

\* The broker's certificate is the store's.
CertLevel ==
  /\ platform = "podman" /\ file # NoArtifact /\ ~Changing /\ box.state # "absent" /\ box.art.tls =>
       box.cert = store.cert
  /\ platform = "podman" /\ Written /\ ~changed /\ box.state # "absent" /\ want.tls =>
       box.cert = store.cert

\* The host is level, unless a run that did not get through has left it behind or
\* one that is under way knows of a change.
LevelInv == ChangeInv /\ (~behind => ArtifactLevel /\ CertLevel)

\* What each phase of a remove has taken already.
RemovalInv ==
  /\ platform = "podman" => box.state # "stopped"
  /\ pc \in {"stop", "rmUnit", "rmSecrets"} => platform = "podman"
  /\ pc \in {"down", "rm"} => platform = "docker"
  /\ op = "remove" /\ pc \in {"reload", "rmSecrets", "purge"} /\ platform = "podman" => file = NoArtifact
  /\ op = "remove" /\ pc = "reload" => platform = "podman"
  /\ pc \in {"rmSecrets", "purge"} /\ platform = "podman" => unit = NoArtifact
  /\ pc = "purge" /\ platform = "podman" /\ want.tls => store.cert = None
  /\ pc = "purge" /\ outside = 0 => box = NoBox

\* A container that an engine has brought up is running.
LEMMA BroughtUp ==
  ASSUME TypeOK
  PROVE  /\ FromUnit.state \in {"running", "absent"}
         /\ box.state = "absent" => box = NoBox
         /\ Applying => Applied.state \in {"running", "absent"}
<1>1. FromUnit.state \in {"running", "absent"}
  BY DEF FromUnit, NoBox
<1>2. box.state = "absent" => box = NoBox
  BY DEF TypeOK, HostType, Box
<1>3. Created.state = "running"
  BY DEF Created
<1>4. box.state # "absent" => Started.state = "running"
  BY BoxTypes DEF Started, Box
<1> QED
  BY <1>1, <1>2, <1>3, <1>4 DEF Applying, Applied, Upped, Running

\* What is prepared stays prepared until it is applied.
LEMMA PreparedStep ==
  ASSUME Safe, PreparedInv, [Next]_vars
  PROVE  PreparedInv'
<1>a. TypeOK /\ PhaseInv /\ StoppedInv
  BY DEF Safe
<1> USE <1>a DEF PreparedInv, Written, Stored, Loaded, PhaseInv, DeployPhase, SharedPhase, RemovePhase, Rendered, Outcome, Running, Idle, Goto, Finish, hostVars, runVars, wishVars
<1>1. ASSUME NEW o \in {"deploy", "certs", "remove"}, NEW f \in BOOLEAN, Begin(o, f) PROVE PreparedInv'
  BY <1>1 DEF Begin, First
<1>2. CASE RemoveCreds
  BY <1>2 DEF RemoveCreds, SetSecret
<1>3. CASE CreateCreds
  BY <1>3 DEF CreateCreds, SetSecret
<1>4. CASE CompareCert
  BY <1>4 DEF CompareCert, AfterCert, CertMatches
<1>5. CASE RemoveCert
  BY <1>5 DEF RemoveCert, SetSecret
<1>6. CASE CreateCert
  <2>a. store'.cert = bundle
    BY <1>6 DEF CreateCert, SetSecret, TypeOK, HostType
  <2>1. pc' \in {"start", "bounce"} => platform' = "podman"
    BY <2>a, <1>6 DEF CreateCert, SetSecret, AfterCert
  <2>2. pc' \in {"askForce", "up", "force"} => platform' = "docker"
    BY <2>a, <1>6 DEF CreateCert, SetSecret, AfterCert
  <2>3. (Written => file \in {Rendered(want), NoArtifact})'
    BY <2>a, <1>6 DEF CreateCert, SetSecret, AfterCert
  <2>4. (Loaded => unit \in {Rendered(want), NoArtifact})'
    BY <2>a, <1>6 DEF CreateCert, SetSecret, AfterCert
  <2>5. (Stored => store.cert = bundle)'
    BY <2>a, <1>6 DEF CreateCert, SetSecret, AfterCert
  <2>6. (pc = "load" /\ platform = "podman" => store.cert = bundle)'
    BY <2>a, <1>6 DEF CreateCert, SetSecret, AfterCert
  <2>7. (pc = "start" /\ ~blind /\ Running =>
               /\ box.art = Rendered(want) /\ unit = Rendered(want)
               /\ want.tls => box.cert = bundle)'
    BY <2>a, <1>6 DEF CreateCert, SetSecret, AfterCert
  <2> QED BY <2>1, <2>2, <2>3, <2>4, <2>5, <2>6, <2>7
<1>7. CASE LoadCert
  BY <1>7 DEF LoadCert
<1>8. CASE WriteArtifact
  BY <1>8 DEF WriteArtifact
<1>9. CASE Reload
  BY <1>9 DEF Reload
<1>10. CASE ProbeUnit
  BY <1>10 DEF ProbeUnit
<1>11. CASE ProbeContainer
  BY <1>11 DEF ProbeContainer, Unanswered
<1>12. CASE Ask
  <2>1. pc' \in {"start", "bounce"} => platform' = "podman"
    BY <1>12 DEF Ask, Apply, TypeOK, WishType
  <2>2. pc' \in {"askForce", "up", "force"} => platform' = "docker"
    BY <1>12 DEF Ask, Apply, TypeOK, WishType
  <2>3. (Written => file \in {Rendered(want), NoArtifact})'
    BY <1>12 DEF Ask, Apply, TypeOK, WishType
  <2>4. (Loaded => unit \in {Rendered(want), NoArtifact})'
    BY <1>12 DEF Ask, Apply, TypeOK, WishType
  <2>5. (Stored => store.cert = bundle)'
    BY <1>12 DEF Ask, Apply, TypeOK, WishType
  <2>6. (pc = "load" /\ platform = "podman" => store.cert = bundle)'
    BY <1>12 DEF Ask, Apply, TypeOK, WishType
  <2>7. (pc = "start" /\ ~blind /\ Running =>
               /\ box.art = Rendered(want) /\ unit = Rendered(want)
               /\ want.tls => box.cert = bundle)'
    BY <1>12 DEF Ask, Apply, TypeOK, WishType
  <2> QED BY <2>1, <2>2, <2>3, <2>4, <2>5, <2>6, <2>7
<1>13. CASE ApplyDeploy
  BY <1>13 DEF ApplyDeploy, Applying, CanApply, Applied, SetBox
<1>14. CASE StopUnit
  BY <1>14 DEF StopUnit, SetBox, ConfirmedStopped
<1>15. CASE RemoveUnit
  BY <1>15 DEF RemoveUnit
<1>16. CASE RemoveSecrets
  BY <1>16 DEF RemoveSecrets, AfterRemoval, KeptIsFatal, Secrets
<1>17. CASE Down
  BY <1>17 DEF Down, SetBox, AfterRemoval
<1>18. CASE RemoveByName
  BY <1>18 DEF RemoveByName, SetBox, AfterRemoval
<1>19. CASE PurgeData
  BY <1>19 DEF PurgeData
<1>20. CASE Fail
  BY <1>20 DEF Fail
<1>21. CASE FailApplying
  BY <1>21 DEF FailApplying, Applying, Applied, SetBox
<1>22. CASE Refuse
  BY <1>22 DEF Refuse, SetBox, Applying
<1>23. CASE StartBroker
  BY <1>23 DEF StartBroker, SetBox, FromUnit, CanStart, Started, Meanwhile
<1>24. CASE StopBroker
  <2>a. box'.state # "running"
    BY <1>24 DEF StopBroker, SetBox, NoBox, TypeOK, HostType, Box
  <2>1. pc' \in {"start", "bounce"} => platform' = "podman"
    BY <2>a, <1>24 DEF StopBroker, SetBox, Meanwhile
  <2>2. pc' \in {"askForce", "up", "force"} => platform' = "docker"
    BY <2>a, <1>24 DEF StopBroker, SetBox, Meanwhile
  <2>3. (Written => file \in {Rendered(want), NoArtifact})'
    BY <2>a, <1>24 DEF StopBroker, SetBox, Meanwhile
  <2>4. (Loaded => unit \in {Rendered(want), NoArtifact})'
    BY <2>a, <1>24 DEF StopBroker, SetBox, Meanwhile
  <2>5. (Stored => store.cert = bundle)'
    BY <2>a, <1>24 DEF StopBroker, SetBox, Meanwhile
  <2>6. (pc = "load" /\ platform = "podman" => store.cert = bundle)'
    BY <2>a, <1>24 DEF StopBroker, SetBox, Meanwhile
  <2>7. (pc = "start" /\ ~blind /\ Running =>
               /\ box.art = Rendered(want) /\ unit = Rendered(want)
               /\ want.tls => box.cert = bundle)'
    BY <2>a, <1>24 DEF StopBroker, SetBox, Meanwhile
  <2> QED BY <2>1, <2>2, <2>3, <2>4, <2>5, <2>6, <2>7
<1>25. CASE RestartBroker
  <2>1. pc' \in {"start", "bounce"} => platform' = "podman"
    BY <1>25 DEF RestartBroker, SetBox, FromUnit, CanStart, Started, Meanwhile, NoBox
  <2>2. pc' \in {"askForce", "up", "force"} => platform' = "docker"
    BY <1>25 DEF RestartBroker, SetBox, FromUnit, CanStart, Started, Meanwhile, NoBox
  <2>3. (Written => file \in {Rendered(want), NoArtifact})'
    BY <1>25 DEF RestartBroker, SetBox, FromUnit, CanStart, Started, Meanwhile, NoBox
  <2>4. (Loaded => unit \in {Rendered(want), NoArtifact})'
    BY <1>25 DEF RestartBroker, SetBox, FromUnit, CanStart, Started, Meanwhile, NoBox
  <2>5. (Stored => store.cert = bundle)'
    BY <1>25 DEF RestartBroker, SetBox, FromUnit, CanStart, Started, Meanwhile, NoBox
  <2>6. (pc = "load" /\ platform = "podman" => store.cert = bundle)'
    BY <1>25 DEF RestartBroker, SetBox, FromUnit, CanStart, Started, Meanwhile, NoBox
  <2>7. (pc = "start" /\ ~blind /\ Running =>
               /\ box.art = Rendered(want) /\ unit = Rendered(want)
               /\ want.tls => box.cert = bundle)'
    BY <1>25 DEF RestartBroker, SetBox, FromUnit, CanStart, Started, Meanwhile, NoBox
  <2> QED BY <2>1, <2>2, <2>3, <2>4, <2>5, <2>6, <2>7
<1>26. CASE EditEnv
  BY <1>26 DEF EditEnv
<1>27. CASE RenewCert
  BY <1>27 DEF RenewCert
<1>28. CASE LoseFile
  BY <1>28 DEF LoseFile
<1>29. CASE UNCHANGED vars
  BY <1>29 DEF vars, boundVars
<1> QED
  BY <1>1, <1>2, <1>3, <1>4, <1>5, <1>6, <1>7, <1>8, <1>9, <1>10, <1>11, <1>12, <1>13, <1>14, <1>15, <1>16, <1>17, <1>18, <1>19, <1>20, <1>21, <1>22, <1>23, <1>24, <1>25, <1>26, <1>27, <1>28, <1>29
     DEF Next, RunStep

\* What a remove has taken stays taken until it has ended.
LEMMA RemovalStep ==
  ASSUME Safe, RemovalInv, [Next]_vars
  PROVE  RemovalInv'
<1>a. TypeOK /\ PhaseInv /\ StoppedInv
  BY DEF Safe
<1> USE <1>a DEF RemovalInv, PhaseInv, StoppedInv, DeployPhase, SharedPhase, RemovePhase, TypeOK, WishType, Outcome, Running, Idle, Goto, Finish, hostVars, runVars, wishVars
<1>1. ASSUME NEW o \in {"deploy", "certs", "remove"}, NEW f \in BOOLEAN, Begin(o, f) PROVE RemovalInv'
  BY <1>1 DEF Begin, First
<1>2. CASE RemoveCreds
  BY <1>2 DEF RemoveCreds, SetSecret
<1>3. CASE CreateCreds
  BY <1>3 DEF CreateCreds, SetSecret
<1>4. CASE CompareCert
  BY <1>4 DEF CompareCert, AfterCert, CertMatches
<1>5. CASE RemoveCert
  BY <1>5 DEF RemoveCert, SetSecret
<1>6. CASE CreateCert
  BY <1>6 DEF CreateCert, SetSecret, AfterCert
<1>7. CASE LoadCert
  BY <1>7 DEF LoadCert
<1>8. CASE WriteArtifact
  BY <1>8 DEF WriteArtifact
<1>9. CASE Reload
  BY <1>9 DEF Reload, RunType
<1>10. CASE ProbeUnit
  BY <1>10 DEF ProbeUnit
<1>11. CASE ProbeContainer
  BY <1>11 DEF ProbeContainer, Unanswered
<1>12. CASE Ask
  BY <1>12 DEF Ask, Apply
<1>13. CASE ApplyDeploy
  <2>1. box'.state # "stopped" /\ pc' = "applied"
    BY <1>13, BroughtUp DEF ApplyDeploy, SetBox
  <2> QED
    BY <1>13, <2>1 DEF ApplyDeploy
<1>14. CASE StopUnit
  BY <1>14 DEF StopUnit, SetBox, ConfirmedStopped, NoBox
<1>15. CASE RemoveUnit
  BY <1>15 DEF RemoveUnit
<1>16. CASE RemoveSecrets
  <2>1. outside' = 0 => box = NoBox
    BY <1>16, OutsideGrows, BroughtUp DEF RemoveSecrets, HostType, Box, NoBox
  <2>2. pc' = "purge" /\ want.tls => store'.cert = None
    BY <1>16 DEF RemoveSecrets, AfterRemoval, KeptIsFatal, Secrets
  <2> QED
    BY <1>16, <2>1, <2>2 DEF RemoveSecrets, AfterRemoval
<1>17. CASE Down
  BY <1>17 DEF Down, SetBox, AfterRemoval, NoBox
<1>18. CASE RemoveByName
  BY <1>18 DEF RemoveByName, SetBox, AfterRemoval, NoBox
<1>19. CASE PurgeData
  BY <1>19 DEF PurgeData
<1>20. CASE Fail
  BY <1>20 DEF Fail
<1>21. CASE FailApplying
  <2>1. box'.state # "stopped" /\ pc' = "failed"
    BY <1>21, BroughtUp DEF FailApplying, SetBox, NoBox
  <2> QED
    BY <1>21, <2>1 DEF FailApplying
<1>22. CASE Refuse
  BY <1>22 DEF Refuse, SetBox, Applying, NoBox
<1>23. CASE StartBroker
  <2>1. outside' # 0 \/ pc' # "purge"
    BY <1>23, BoundsAssumption DEF StartBroker, SetBox, FromUnit, CanStart, Started, Meanwhile, BoundType, runVars
  <2>2. box'.state # "stopped" \/ platform' # "podman"
    BY <1>23, BroughtUp DEF StartBroker, SetBox, FromUnit, CanStart, Started, Meanwhile, NoBox
  <2> QED
    BY <1>23, <2>1, <2>2 DEF StartBroker, SetBox, FromUnit, CanStart, Started, Meanwhile
<1>24. CASE StopBroker
  <2>1. outside' # 0 \/ pc' # "purge"
    BY <1>24, BoundsAssumption DEF StopBroker, SetBox, Meanwhile, BoundType, runVars
  <2>2. box'.state # "stopped" \/ platform' # "podman"
    BY <1>24, BroughtUp DEF StopBroker, SetBox, Meanwhile, NoBox
  <2> QED
    BY <1>24, <2>1, <2>2 DEF StopBroker, SetBox, Meanwhile
<1>25. CASE RestartBroker
  <2>1. outside' # 0 \/ pc' # "purge"
    BY <1>25, BoundsAssumption DEF RestartBroker, SetBox, FromUnit, CanStart, Started, Meanwhile, BoundType, runVars
  <2>2. box'.state # "stopped" \/ platform' # "podman"
    BY <1>25, BroughtUp DEF RestartBroker, SetBox, FromUnit, CanStart, Started, Meanwhile, NoBox
  <2> QED
    BY <1>25, <2>1, <2>2 DEF RestartBroker, SetBox, FromUnit, CanStart, Started, Meanwhile
<1>26. CASE EditEnv
  BY <1>26 DEF EditEnv
<1>27. CASE RenewCert
  BY <1>27 DEF RenewCert
<1>28. CASE LoseFile
  <2>1. outside' # 0
    BY <1>28, BoundsAssumption DEF LoseFile, BoundType
  <2> QED
    BY <1>28, <2>1 DEF LoseFile
<1>29. CASE UNCHANGED vars
  BY <1>29 DEF vars, boundVars
<1> QED
  BY <1>1, <1>2, <1>3, <1>4, <1>5, <1>6, <1>7, <1>8, <1>9, <1>10, <1>11, <1>12, <1>13, <1>14, <1>15, <1>16, <1>17, <1>18, <1>19, <1>20, <1>21, <1>22, <1>23, <1>24, <1>25, <1>26, <1>27, <1>28, <1>29
     DEF Next, RunStep

\* What a deploy applies is what it has rendered, with the certificate it has read.
LEMMA AppliedHolds ==
  ASSUME TypeOK, PhaseInv, PreparedInv, ApplyDeploy
  PROVE  /\ platform = "podman" /\ ~blind =>
              /\ box'.state = "running" /\ box'.art = Rendered(want) /\ unit = Rendered(want)
              /\ want.tls => box'.cert = store.cert /\ store.cert = bundle
         /\ platform # "podman" =>
              /\ box'.state = "running" /\ box'.art = file /\ file = Rendered(want)
              /\ UpSeesLabel /\ want.tls => box'.cert = certFile
         /\ file \in {Rendered(want), NoArtifact}
<1> USE DEF Applying, CanApply, SetBox, Running, Written, Stored, Loaded, PhaseInv, DeployPhase, Rendered
<1>1. file \in {Rendered(want), NoArtifact}
  BY DEF ApplyDeploy, PreparedInv
<1>2. platform = "podman" => \/ pc = "start" /\ Running /\ box' = box
                             \/ CanStart /\ box' = FromUnit
  <2>1. CASE pc = "start"
    BY <2>1 DEF ApplyDeploy, Applied
  <2>2. CASE pc = "bounce"
    BY <2>2 DEF ApplyDeploy, Applied
  <2>3. CASE pc \in {"up", "force"}
    BY <2>3 DEF PreparedInv
  <2> QED
    BY <2>1, <2>2, <2>3 DEF ApplyDeploy
<1>3. CanStart => /\ FromUnit.state = "running" /\ FromUnit.art = unit
                  /\ unit.tls => FromUnit.cert = store.cert
  BY DEF FromUnit
<1>4. platform = "podman" => /\ unit \in {Rendered(want), NoArtifact}
                             /\ want.tls => store.cert = bundle
  BY DEF ApplyDeploy, PreparedInv
<1>5. platform = "podman" /\ ~blind =>
        /\ box'.state = "running" /\ box'.art = Rendered(want) /\ unit = Rendered(want)
        /\ want.tls => box'.cert = store.cert /\ store.cert = bundle
  BY <1>2, <1>3, <1>4 DEF PreparedInv, CanStart
<1>6. platform # "podman" => pc \in {"up", "force"} /\ file # NoArtifact
  BY DEF ApplyDeploy, PreparedInv
<1>7. Created.state = "running" /\ Created.art = file /\ (want.tls => Created.cert = certFile)
  BY DEF Created, Cert
<1>8. box.state # "absent" =>
        Started.state = "running" /\ Started.art = box.art /\ Started.cert = box.cert
  BY BoxTypes DEF Started, Box
<1>9. CASE pc = "up"
  BY <1>1, <1>5, <1>6, <1>7, <1>8, <1>9 DEF ApplyDeploy, Applied, Upped, Cert
<1>10. CASE pc = "force"
  BY <1>1, <1>5, <1>6, <1>7, <1>10 DEF ApplyDeploy, Applied
<1>11. CASE pc \notin {"up", "force"}
  BY <1>1, <1>5, <1>6, <1>11
<1> QED
  BY <1>9, <1>10, <1>11

\* A host that is level stays level.
LEMMA LevelStep ==
  ASSUME Safe, PreparedInv, RemovalInv, LevelInv, [Next]_vars
  PROVE  LevelInv'
<1>a. TypeOK /\ PhaseInv /\ StoppedInv
  BY DEF Safe
<1> USE <1>a DEF LevelInv, ChangeInv, Deploying, Changing, Written, Stored, Loaded, PhaseInv, DeployPhase, SharedPhase, RemovePhase, Rendered, Outcome, Running, Idle, Goto, Finish, hostVars, runVars, wishVars
<1>1. ASSUME NEW o \in {"deploy", "certs", "remove"}, NEW f \in BOOLEAN, Begin(o, f) PROVE LevelInv'
  BY <1>1 DEF Begin, First, ArtifactLevel, CertLevel
<1>2. CASE RemoveCreds
  BY <1>2 DEF RemoveCreds, SetSecret, ArtifactLevel, CertLevel
<1>3. CASE CreateCreds
  BY <1>3 DEF CreateCreds, SetSecret, ArtifactLevel, CertLevel
<1>4. CASE CompareCert
  BY <1>4 DEF CompareCert, AfterCert, CertMatches, ArtifactLevel, CertLevel
<1>5. CASE RemoveCert
  BY <1>5 DEF RemoveCert, SetSecret, ArtifactLevel, CertLevel
<1>6. CASE CreateCert
  BY <1>6 DEF CreateCert, SetSecret, AfterCert, ArtifactLevel, CertLevel
<1>7. CASE LoadCert
  <2>1. /\ box'.state = box.state /\ box'.art = box.art
        /\ platform = "podman" => box'.cert = certFile
    BY <1>7, BoxTypes DEF LoadCert, Box
  <2>2. platform = "podman" /\ ~behind' => certFile = bundle /\ store.cert = bundle
    BY <1>7 DEF LoadCert, PreparedInv
  <2>3. ChangeInv'
    BY <1>7 DEF LoadCert
  <2>4. ~behind' => ArtifactLevel'
    BY <2>1, <2>2, <1>7 DEF LoadCert, ArtifactLevel
  <2>5. ~behind' => CertLevel'
    BY <2>1, <2>2, <1>7 DEF LoadCert, ArtifactLevel, CertLevel
  <2> QED
    BY <2>3, <2>4, <2>5
<1>8. CASE WriteArtifact
  <2>1. file' = Rendered(want) /\ Rendered(want) # NoArtifact
    BY <1>8, BoxTypes, ValuesAssumption DEF WriteArtifact, Artifact, NoArtifact
  <2>2. ChangeInv'
    BY <1>8 DEF WriteArtifact
  <2>3. ~behind' => ArtifactLevel'
    BY <2>1, <1>8 DEF WriteArtifact, ArtifactLevel
  <2>4. ASSUME ~behind', ~changed', box.state # "absent"
        PROVE  file = Rendered(want) /\ ~changed /\ box.art = Rendered(want)
    BY <2>1, <2>4, <1>8 DEF WriteArtifact, ArtifactLevel
  <2>5. ASSUME ~behind', ~changed', box.state # "absent", platform = "podman", want.tls
        PROVE  box.cert = store.cert
    BY <2>1, <2>4, <2>5, <1>8 DEF WriteArtifact, CertLevel
  <2>6. ~behind' => CertLevel'
    BY <2>1, <2>4, <2>5, <1>8 DEF WriteArtifact, CertLevel
  <2> QED
    BY <2>2, <2>3, <2>6
<1>9. CASE Reload
  BY <1>9 DEF Reload, ArtifactLevel, CertLevel
<1>10. CASE ProbeUnit
  BY <1>10 DEF ProbeUnit, ArtifactLevel, CertLevel
<1>11. CASE ProbeContainer
  BY <1>11 DEF ProbeContainer, Unanswered, ArtifactLevel, CertLevel
<1>12. CASE Ask
  <2>1. behind' \/ (pc' \in {"bounce", "up", "force"} /\ Written)
    BY <1>12 DEF Ask, Apply
  <2>2. behind' \/ UNCHANGED <<op, want, changed, behind, platform, file, unit, store, box>>
    BY <1>12 DEF Ask, Apply
  <2>3. ChangeInv'
    BY <1>12 DEF Ask, Apply
  <2>4. ~behind' => ArtifactLevel'
    BY <2>1, <2>2, <1>12 DEF Ask, Apply, ArtifactLevel
  <2>5. ~behind' => CertLevel'
    BY <2>1, <2>2, <1>12 DEF Ask, Apply, ArtifactLevel, CertLevel
  <2> QED
    BY <2>3, <2>4, <2>5
<1>13. CASE ApplyDeploy
  <2>1. pc' = "applied" /\ op = "deploy" /\ behind' = blind
    BY <1>13 DEF ApplyDeploy, Applying, CanApply, Applied, SetBox
  <2>2. ChangeInv'
    BY <1>13 DEF ApplyDeploy, Applying, CanApply, Applied, SetBox
  <2>3. ~behind' => ArtifactLevel'
    BY <2>1, <1>13, AppliedHolds DEF ApplyDeploy, ArtifactLevel
  <2>4. ~behind' => CertLevel'
    BY <2>1, <1>13, AppliedHolds DEF ApplyDeploy, CertLevel
  <2> QED
    BY <2>2, <2>3, <2>4
<1>14. CASE StopUnit
  <2>1. box' = box \/ box'.state = "absent"
    BY <1>14 DEF StopUnit, SetBox, ConfirmedStopped, NoBox
  <2>2. ChangeInv'
    BY <1>14 DEF StopUnit, SetBox, ConfirmedStopped
  <2>3. ~behind' => ArtifactLevel'
    BY <2>1, <1>14 DEF StopUnit, SetBox, ConfirmedStopped, ArtifactLevel
  <2>4. ~behind' => CertLevel'
    BY <2>1, <1>14 DEF StopUnit, SetBox, ConfirmedStopped, ArtifactLevel, CertLevel
  <2> QED
    BY <2>2, <2>3, <2>4
<1>15. CASE RemoveUnit
  BY <1>15 DEF RemoveUnit, ArtifactLevel, CertLevel
<1>16. CASE RemoveSecrets
  <2>1. platform = "podman" => file = NoArtifact
    BY <1>16 DEF RemoveSecrets, AfterRemoval, KeptIsFatal, Secrets, RemovalInv
  <2>2. ChangeInv'
    BY <1>16 DEF RemoveSecrets, AfterRemoval, KeptIsFatal, Secrets
  <2>3. ~behind' => ArtifactLevel'
    BY <2>1, <1>16 DEF RemoveSecrets, AfterRemoval, KeptIsFatal, Secrets, ArtifactLevel
  <2>4. ~behind' => CertLevel'
    BY <2>1, <1>16 DEF RemoveSecrets, AfterRemoval, KeptIsFatal, Secrets, ArtifactLevel, CertLevel
  <2> QED
    BY <2>2, <2>3, <2>4
<1>17. CASE Down
  <2>1. box'.state = "absent" \/ file' = NoArtifact
    BY <1>17 DEF Down, SetBox, AfterRemoval, NoBox
  <2>2. ChangeInv'
    BY <1>17 DEF Down, SetBox, AfterRemoval
  <2>3. ~behind' => ArtifactLevel'
    BY <2>1, <1>17 DEF Down, SetBox, AfterRemoval, ArtifactLevel
  <2>4. ~behind' => CertLevel'
    BY <2>1, <1>17 DEF Down, SetBox, AfterRemoval, ArtifactLevel, CertLevel
  <2> QED
    BY <2>2, <2>3, <2>4
<1>18. CASE RemoveByName
  <2>1. box' = box \/ box'.state = "absent"
    BY <1>18 DEF RemoveByName, SetBox, AfterRemoval, NoBox
  <2>2. ChangeInv'
    BY <1>18 DEF RemoveByName, SetBox, AfterRemoval
  <2>3. ~behind' => ArtifactLevel'
    BY <2>1, <1>18 DEF RemoveByName, SetBox, AfterRemoval, ArtifactLevel
  <2>4. ~behind' => CertLevel'
    BY <2>1, <1>18 DEF RemoveByName, SetBox, AfterRemoval, ArtifactLevel, CertLevel
  <2> QED
    BY <2>2, <2>3, <2>4
<1>19. CASE PurgeData
  BY <1>19 DEF PurgeData, ArtifactLevel, CertLevel
<1>20. CASE Fail
  <2>1. behind' \/ (op = "remove" /\ ~changed)
    BY <1>20 DEF Fail, TypeOK, RunType
  <2>2. behind' \/ ~behind
    BY <1>20 DEF Fail
  <2>3. ChangeInv'
    BY <1>20 DEF Fail
  <2>4. ~behind' => ArtifactLevel'
    BY <2>1, <2>2, <1>20 DEF Fail, ArtifactLevel
  <2>5. ~behind' => CertLevel'
    BY <2>1, <2>2, <1>20 DEF Fail, ArtifactLevel, CertLevel
  <2> QED
    BY <2>3, <2>4, <2>5
<1>21. CASE FailApplying
  BY <1>21 DEF FailApplying, Applying, Applied, SetBox, ArtifactLevel, CertLevel
<1>22. CASE Refuse
  BY <1>22 DEF Refuse, SetBox, Applying, ArtifactLevel, CertLevel
<1>23. CASE StartBroker
  <2>1. platform = "podman" => /\ box' = FromUnit /\ box.state = "absent" /\ unit # NoArtifact
                               /\ box'.art = unit
                               /\ unit.tls => box'.cert = store.cert
    BY <1>23 DEF StartBroker, SetBox, FromUnit, CanStart, Started, Meanwhile, RemovalInv, TypeOK, HostType, Box, NoBox
  <2>2. platform # "podman" => box.state = "stopped" /\ box'.art = box.art
    BY <1>23, BoxTypes DEF StartBroker, SetBox, FromUnit, CanStart, Started, Meanwhile, Box
  <2>3. ChangeInv'
    BY <1>23 DEF StartBroker, SetBox, FromUnit, CanStart, Started, Meanwhile
  <2>4. ~behind' => ArtifactLevel'
    BY <2>1, <2>2, <1>23 DEF StartBroker, SetBox, FromUnit, CanStart, Started, Meanwhile, ArtifactLevel
  <2>5. ~behind' => CertLevel'
    BY <2>1, <2>2, <1>23 DEF StartBroker, SetBox, FromUnit, CanStart, Started, Meanwhile, ArtifactLevel, CertLevel
  <2> QED
    BY <2>3, <2>4, <2>5
<1>24. CASE StopBroker
  <2>1. box'.state = "absent" \/ (box'.art = box.art /\ platform # "podman" /\ box.state # "absent")
    BY <1>24, BoxTypes DEF StopBroker, SetBox, Meanwhile, Box, NoBox
  <2>2. ChangeInv'
    BY <1>24 DEF StopBroker, SetBox, Meanwhile
  <2>3. ~behind' => ArtifactLevel'
    BY <2>1, <1>24 DEF StopBroker, SetBox, Meanwhile, ArtifactLevel
  <2>4. ~behind' => CertLevel'
    BY <2>1, <1>24 DEF StopBroker, SetBox, Meanwhile, ArtifactLevel, CertLevel
  <2> QED
    BY <2>2, <2>3, <2>4
<1>25. CASE RestartBroker
  <2>1. platform = "podman" => \/ box'.state = "absent"
                               \/ /\ unit # NoArtifact /\ box'.art = unit
                                  /\ unit.tls => box'.cert = store.cert
    BY <1>25 DEF RestartBroker, SetBox, FromUnit, CanStart, Started, Meanwhile, NoBox
  <2>2. platform # "podman" => box.state # "absent" /\ box'.art = box.art
    BY <1>25, BoxTypes DEF RestartBroker, SetBox, FromUnit, CanStart, Started, Meanwhile, Box
  <2>3. ChangeInv'
    BY <1>25 DEF RestartBroker, SetBox, FromUnit, CanStart, Started, Meanwhile
  <2>4. ~behind' => ArtifactLevel'
    BY <2>1, <2>2, <1>25 DEF RestartBroker, SetBox, FromUnit, CanStart, Started, Meanwhile, ArtifactLevel
  <2>5. ~behind' => CertLevel'
    BY <2>1, <2>2, <1>25 DEF RestartBroker, SetBox, FromUnit, CanStart, Started, Meanwhile, ArtifactLevel, CertLevel
  <2> QED
    BY <2>3, <2>4, <2>5
<1>26. CASE EditEnv
  BY <1>26 DEF EditEnv, ArtifactLevel, CertLevel
<1>27. CASE RenewCert
  BY <1>27 DEF RenewCert, ArtifactLevel, CertLevel
<1>28. CASE LoseFile
  BY <1>28 DEF LoseFile, ArtifactLevel, CertLevel
<1>29. CASE UNCHANGED vars
  BY <1>29 DEF vars, boundVars, ArtifactLevel, CertLevel
<1> QED
  BY <1>1, <1>2, <1>3, <1>4, <1>5, <1>6, <1>7, <1>8, <1>9, <1>10, <1>11, <1>12, <1>13, <1>14, <1>15, <1>16, <1>17, <1>18, <1>19, <1>20, <1>21, <1>22, <1>23, <1>24, <1>25, <1>26, <1>27, <1>28, <1>29
     DEF Next, RunStep


-------------------------------------------------------------------------------
(* Theorems                                                                      *)

Known == Safe /\ PreparedInv /\ RemovalInv /\ LevelInv

LEMMA KnownAlways == Spec => []Known
<1>1. Init => Known
  BY SafeInit DEF Init, Known, PreparedInv, RemovalInv, LevelInv, ChangeInv, ArtifactLevel,
                  CertLevel, Written, Stored, Loaded, Idle, Outcome, NoBox, Running
<1>2. Known /\ [Next]_vars => Known'
  BY SafeStep, PreparedStep, RemovalStep, LevelStep DEF Known
<1> QED
  BY <1>1, <1>2, PTL DEF Spec

\* Where `compose up` recreates on a changed digest label, a deploy that says it has
\* applied has: the container that runs then is this run's, with this run's
\* certificate, on either platform and for any number of runs.
THEOREM AppliedRuns == ASSUME UpSeesLabel PROVE Spec => AppliedIsCurrent
<1>1. ASSUME Known, Next, pc' = "applied", pc # pc', ~blind
      PROVE  Holds(box')
  <2>1. ApplyDeploy
    BY <1>1 DEF Next, RunStep, Begin, First, RemoveCreds, CreateCreds, CompareCert, RemoveCert,
           CreateCert, AfterCert, LoadCert, WriteArtifact, Reload, ProbeUnit, ProbeContainer,
           Unanswered, Ask, Apply, StopUnit, RemoveUnit, RemoveSecrets, Down, RemoveByName,
           AfterRemoval, PurgeData, Fail, FailApplying, Refuse, StartBroker, StopBroker,
           RestartBroker, EditEnv, RenewCert, LoseFile, Goto, Finish, runVars
  <2> QED
    BY <1>1, <2>1, AppliedHolds, UpSeesLabel DEF Known, Safe, Holds
<1>2. Known /\ [Next]_vars => [pc' = "applied" /\ pc # pc' /\ ~blind => Holds(box')]_vars
  BY <1>1
<1> QED
  BY <1>2, KnownAlways, PTL DEF Spec, AppliedIsCurrent

\* A deploy that finds nothing to do leaves a broker that runs what it was asked
\* for, unless an earlier deploy or certificate load has been declined or has failed.
THEOREM NothingIsCurrent == Spec => NothingToDoIsTrue
<1>1. ASSUME Known, Next, pc' = "nothing", pc # pc', ~behind
      PROVE  Holds(box)
  <2>1. ProbeUnit \/ ProbeContainer
    BY <1>1 DEF Next, RunStep, Begin, First, RemoveCreds, CreateCreds, CompareCert, RemoveCert,
           CreateCert, AfterCert, LoadCert, WriteArtifact, Reload, Ask, Apply, ApplyDeploy,
           StopUnit, RemoveUnit, RemoveSecrets, Down, RemoveByName, AfterRemoval, PurgeData,
           Fail, FailApplying, Refuse, StartBroker, StopBroker, RestartBroker, EditEnv,
           RenewCert, LoseFile, Goto, Finish, runVars
  <2>2. /\ Running /\ ~changed /\ pc = "probe" /\ op = "deploy"
        /\ platform = "podman" \/ (want.tls => box.cert = certFile)
    BY <1>1, <2>1 DEF ProbeUnit, ProbeContainer, BoxCertDiffers, Unanswered, Goto, Finish,
                      Known, Safe, PhaseInv, DeployPhase
  <2>3. Written /\ box.state # "absent"
    BY <2>2 DEF Written, Running
  <2>4. box.art = Rendered(want)
    BY <1>1, <2>2, <2>3 DEF Known, LevelInv, ArtifactLevel
  <2>5. platform = "podman" /\ want.tls => box.cert = bundle
    BY <1>1, <2>2, <2>3 DEF Known, LevelInv, CertLevel, PreparedInv, Stored
  <2> QED
    BY <2>2, <2>4, <2>5 DEF Holds, Running
<1>2. Known /\ [Next]_vars => [pc' = "nothing" /\ pc # pc' /\ ~behind => Holds(box)]_vars
  BY <1>1
<1> QED
  BY <1>2, KnownAlways, PTL DEF Spec, NothingToDoIsTrue

\* A remove that says so has removed the container, the unit, the certificate's
\* secret, and the data if asked, unless others have acted on the host.
THEOREM RemovalIsComplete == Spec => RemovedIsGone
<1> DEFINE Gone == /\ box' = NoBox
                   /\ flag => ~data'
                   /\ platform = "podman" => /\ file' = NoArtifact /\ unit' = NoArtifact
                                             /\ want.tls => store'.cert = None
<1>1. ASSUME Known, Next, pc' = "removed", pc # pc', outside' = 0
      PROVE  Gone
  <2>1. outside = 0
    BY <1>1, OutsideGrows DEF Known, Safe
  <2>2. RemoveSecrets \/ Down \/ RemoveByName \/ PurgeData
    BY <1>1 DEF Next, RunStep, Begin, First, RemoveCreds, CreateCreds, CompareCert, RemoveCert,
           CreateCert, AfterCert, LoadCert, WriteArtifact, Reload, ProbeUnit, ProbeContainer,
           Unanswered, Ask, Apply, ApplyDeploy, StopUnit, RemoveUnit, Fail, FailApplying,
           Refuse, StartBroker, StopBroker, RestartBroker, EditEnv, RenewCert, LoseFile,
           Goto, Finish, runVars
  <2>3. CASE RemoveSecrets
    <3>1. platform = "podman" /\ op = "remove" /\ ~Running
      BY <1>1, <2>1, <2>3 DEF RemoveSecrets, Known, Safe, PhaseInv, RemovePhase, StoppedInv,
                              RemovalInv
    <3>2. box = NoBox
      BY <1>1, <3>1 DEF Known, Safe, TypeOK, HostType, Box, NoBox, Running, RemovalInv
    <3>3. file = NoArtifact /\ unit = NoArtifact
      BY <1>1, <2>3, <3>1 DEF RemoveSecrets, Known, RemovalInv
    <3>4. ~flag /\ (want.tls => store'.cert = None)
      BY <1>1, <2>3 DEF RemoveSecrets, AfterRemoval, KeptIsFatal, Secrets, Goto, Finish,
                        Known, Safe, TypeOK, RunType
    <3> QED
      BY <2>3, <3>2, <3>3, <3>4 DEF RemoveSecrets
  <2>4. CASE Down \/ RemoveByName
    BY <1>1, <2>4 DEF Down, RemoveByName, AfterRemoval, SetBox, Goto, Finish, Known, RemovalInv
  <2>5. CASE PurgeData
    BY <1>1, <2>1, <2>5 DEF PurgeData, Known, RemovalInv, Safe, PhaseInv, RemovePhase
  <2> QED
    BY <2>2, <2>3, <2>4, <2>5
<1>2. Known /\ [Next]_vars => [pc' = "removed" /\ pc # pc' /\ outside' = 0 => Gone]_vars
  BY <1>1
<1> QED
  BY <1>2, KnownAlways, PTL DEF Spec, RemovedIsGone
================================================================================
