---------------------------- MODULE ContainerDeploy ----------------------------
(***************************************************************************)
(* The broker container of one host: `broker deploy`, `remove`, `start`,   *)
(* `stop`, `restart` and `configure server-certs`, on docker and podman.   *)
(*                                                                         *)
(* What a deploy wants is in the env file and in the certificate files,    *)
(* what it prepares is on disk (the compose file or quadlet unit) and in   *)
(* podman's secret store, what runs is the container.  The tool remembers  *)
(* nothing: whether a running broker has to be bounced is worked out from  *)
(* what an earlier deploy has left on disk.  Each external call is a step; *)
(* between two of them the run can fail or be killed, the files it will    *)
(* read can be edited, and the engine can restart the broker.              *)
(***************************************************************************)
EXTENDS Naturals

CONSTANTS
  Specs,        \* what the artifact says, apart from TLS
  Creds,        \* values of the credentials
  Certs,        \* contents of the certificate files
  None,         \* no artifact, no secret
  UpSeesLabel,  \* TRUE: `compose up` recreates on a changed digest label
  MaxEdits,     \* bound: edits of the env file and renewals of the certificate
  MaxFaults,    \* bound: calls that fail
  MaxOutside    \* bound: what others do to the host

ASSUME ValuesAssumption ==
  Specs # {} /\ Creds # {} /\ Certs # {} /\ None \notin Specs \cup Creds \cup Certs
ASSUME BoundsAssumption ==
  UpSeesLabel \in BOOLEAN /\ MaxEdits \in Nat /\ MaxFaults \in Nat /\ MaxOutside \in Nat

VARIABLES
  platform,
  (* what is wanted *)
  env,        \* the env file: what to deploy, the credentials, whether with TLS
  certFile,   \* the certificate files it points to
  (* the host *)
  file,       \* the artifact on disk
  unit,       \* podman: the unit as systemd has loaded it
  store,      \* podman: the secrets; the digest label of the certificate is its value
  box,        \* the container, and what it was created with
  data,       \* the data directory holds data
  (* the run *)
  op, pc,
  want,       \* the env file as this run has loaded it
  bundle,     \* the certificate as this run has read it
  flag,       \* --restart of a deploy, --delete-data of a remove
  changed,    \* there is a change to bounce a running broker for
  yes,        \* the bounce is approved
  (* history *)
  blind,      \* this run took an unanswered probe for "not active"
  behind,     \* a deploy has ended since the last applied one without applying
  (* bounds *)
  edits, faults, outside

wishVars  == <<platform, env, certFile>>
hostVars  == <<file, unit, store, box, data>>
runVars   == <<op, pc, want, bundle, flag, changed, yes, blind, behind>>
boundVars == <<edits, faults, outside>>
vars == <<wishVars, hostVars, runVars, boundVars>>

-------------------------------------------------------------------------------
(* Values *)

Config   == [spec : Specs, creds : Creds, tls : BOOLEAN]
Artifact == [spec : Specs, tls : BOOLEAN]
Box      == [state : {"running", "stopped"}, art : Artifact, creds : Creds,
             cert : Certs \cup {None}]

NoArtifact == [spec |-> None, tls |-> FALSE]
NoBox == [state |-> "absent", art |-> NoArtifact, creds |-> None, cert |-> None]
Empty == [creds |-> None, cert |-> None]

Outcome == {"applied", "nothing", "declined", "failed", "removed", "loaded"}
Phase == Outcome \cup {"rmCreds", "mkCreds", "cert", "rmCert", "mkCert", "load",
                       "write", "reload", "probe", "ask", "askForce", "start",
                       "bounce", "up", "force",
                       "stop", "down", "rm", "rmUnit", "rmSecrets", "purge"}
Idle == pc \in Outcome

Running == box.state = "running"

\* The artifact names its secrets and holds none of their values.
Rendered(c) == [spec |-> c.spec, tls |-> c.tls]

\* The certificate a deploy of c is to use, if it is read now.
Cert(c) == IF c.tls THEN certFile ELSE None

\* The secrets a deploy of c has.
Secrets(c) == {"creds"} \cup (IF c.tls THEN {"cert"} ELSE {})

\* The running broker is what this run was asked for, with a certificate this run
\* has read.  (On podman `cert` is what the broker serves, on docker what the
\* container was created with.)
Holds(b) ==
  /\ b.state = "running" /\ b.art = Rendered(want)
  /\ want.tls => b.cert \in {bundle, certFile}

-------------------------------------------------------------------------------
(* What the engines do *)

\* docker: a container created from the compose file and this run's values.
Created == [state |-> "running", art |-> file, creds |-> want.creds, cert |-> Cert(want)]

\* docker: the container as it is, started; what it mounts is what it was given.
Started == [box EXCEPT !.state = "running"]

\* podman: a start of the unit replaces the container, from the unit as loaded and
\* the secrets as stored; without them it does not start.
CanStart == unit # NoArtifact /\ store.creds # None /\ (unit.tls => store.cert # None)
FromUnit ==
  IF CanStart
  THEN [state |-> "running", art |-> unit, creds |-> store.creds,
        cert |-> IF unit.tls THEN store.cert ELSE None]
  ELSE NoBox

\* `compose up` without --force-recreate.
Upped ==
  IF box.state = "absent" \/ box.art # file \/ (UpSeesLabel /\ box.cert # Cert(want))
  THEN Created ELSE Started

SetBox(b) == box' = b /\ data' = (data \/ b.state = "running")

-------------------------------------------------------------------------------
Init ==
  /\ platform \in {"docker", "podman"}
  /\ env \in Config /\ certFile \in Certs
  /\ file = NoArtifact /\ unit = NoArtifact /\ store = Empty /\ box = NoBox /\ data = FALSE
  /\ op = "remove" /\ pc = "removed"
  /\ want = env /\ bundle = None
  /\ flag = FALSE /\ changed = FALSE /\ yes = FALSE /\ blind = FALSE /\ behind = FALSE
  /\ edits = 0 /\ faults = 0 /\ outside = 0

Goto(p) ==
  /\ pc' = p
  /\ UNCHANGED <<op, want, bundle, flag, changed, yes, blind, behind>>

\* The run is over.  A deploy or a certificate load that has not got through
\* leaves the host behind; one that has, and knew what it did, brings it level.
Finish(o) ==
  /\ pc' = o
  /\ behind' = CASE o \in {"declined", "failed"} -> behind \/ op \in {"deploy", "certs"}
                 [] o = "applied" -> blind
                 [] o = "loaded"  -> behind \/ certFile # bundle
                 [] OTHER -> behind
  /\ UNCHANGED <<op, want, bundle, flag, changed, yes, blind>>

Fault == faults < MaxFaults /\ faults' = faults + 1 /\ UNCHANGED <<edits, outside>>

-------------------------------------------------------------------------------
(* A command begins: it loads the env file, and its probes pass.             *)

First(o, c) ==
  CASE o = "deploy" -> IF platform = "podman" THEN "rmCreds" ELSE "write"
    [] o = "certs"  -> IF platform = "podman" THEN "cert" ELSE "load"
    [] o = "remove" -> IF platform = "podman" THEN "stop" ELSE "down"

Begin(o, f) ==
  /\ Idle
  /\ o = "certs" => env.tls /\ ~f
  /\ op' = o /\ flag' = f
  /\ want' = env /\ bundle' = Cert(env)
  /\ pc' = First(o, env)
  /\ changed' = FALSE /\ blind' = FALSE
  /\ yes' = (o = "deploy" /\ f)
  /\ UNCHANGED <<wishVars, hostVars, behind, boundVars>>

-------------------------------------------------------------------------------
(* podman: load the secrets, each one removed and created again; the         *)
(* certificate comes last, and is left alone if its digest matches.          *)

SetSecret(s, v) == store' = [store EXCEPT ![s] = v] /\ UNCHANGED <<file, unit, box, data>>

RemoveCreds ==
  /\ pc = "rmCreds" /\ SetSecret("creds", None)
  /\ Goto("mkCreds")
  /\ UNCHANGED <<wishVars, boundVars>>

CreateCreds ==
  /\ pc = "mkCreds" /\ SetSecret("creds", want.creds)
  /\ Goto(IF want.tls THEN "cert" ELSE "write")
  /\ UNCHANGED <<wishVars, boundVars>>

AfterCert == IF op = "deploy" THEN "write" ELSE "load"

\* Broken on purpose: a certificate that is in the store already is unchanged.
CertMatchesAny == store.cert # None

CertMatches == store.cert = bundle

\* An inspect that fails counts as a mismatch.
CompareCert ==
  /\ pc = "cert"
  /\ \/ CertMatches /\ Goto(AfterCert) /\ UNCHANGED boundVars
     \/ /\ \/ ~CertMatches /\ UNCHANGED boundVars
           \/ CertMatches /\ Fault
        /\ pc' = "rmCert" /\ changed' = TRUE
        /\ UNCHANGED <<op, want, bundle, flag, yes, blind, behind>>
  /\ UNCHANGED <<wishVars, hostVars>>

RemoveCert ==
  /\ pc = "rmCert" /\ SetSecret("cert", None)
  /\ Goto("mkCert")
  /\ UNCHANGED <<wishVars, boundVars>>

CreateCert ==
  /\ pc = "mkCert" /\ SetSecret("cert", bundle)
  /\ Goto(AfterCert)
  /\ UNCHANGED <<wishVars, boundVars>>

\* `configure server-certs` ends with a load over the CLI: the certificate files
\* are read again, and the running broker serves them.
LoadCert ==
  /\ pc = "load" /\ Running
  /\ box' = IF platform = "podman" THEN [box EXCEPT !.cert = certFile] ELSE box
  /\ Finish("loaded")
  /\ UNCHANGED <<wishVars, file, unit, store, data, boundVars>>

-------------------------------------------------------------------------------
(* Deploy: write the artifact, probe, decide, apply                          *)

WriteArtifact ==
  /\ pc = "write"
  /\ changed' = (changed \/ file # Rendered(want))
  /\ file' = Rendered(want)
  /\ pc' = IF platform = "podman" THEN "reload" ELSE "probe"
  /\ UNCHANGED <<wishVars, unit, store, box, data, op, want, bundle, flag, yes, blind,
                 behind, boundVars>>

Reload ==
  /\ pc = "reload"
  /\ unit' = file
  /\ Goto(IF op = "deploy" THEN "probe" ELSE "rmSecrets")
  /\ UNCHANGED <<wishVars, file, store, box, data, boundVars>>

\* podman: is the service active?  No answer is taken for "no".
ProbeUnit ==
  /\ pc = "probe" /\ platform = "podman"
  /\ \/ ~Running /\ Goto("start") /\ UNCHANGED boundVars
     \/ Running /\ changed /\ Goto("ask") /\ UNCHANGED boundVars
     \/ Running /\ ~changed /\ flag /\ Goto("bounce") /\ UNCHANGED boundVars
     \/ Running /\ ~changed /\ ~flag /\ Finish("nothing") /\ UNCHANGED boundVars
     \/ /\ Running /\ Fault
        /\ pc' = "start" /\ blind' = TRUE
        /\ UNCHANGED <<op, want, bundle, flag, changed, yes, behind>>
  /\ UNCHANGED <<wishVars, hostVars>>

\* Broken on purpose: the running container's certificate is not compared.
BoxCertDiffersNever == want.tls /\ box.cert \notin Certs \cup {None}

\* docker: the digest label of the container against the certificate files.
BoxCertDiffers == want.tls /\ box.cert # certFile

\* Broken on purpose: no answer is taken for "not running" here, too.
UnansweredIsDown == Fault /\ Goto("force")

\* docker: is the container running?  No answer ends the run.
Unanswered == Fault /\ Finish("failed")

\* A certificate whose comparison fails counts as changed.
ProbeContainer ==
  /\ pc = "probe" /\ platform = "docker"
  /\ \/ ~Running /\ Goto("force") /\ UNCHANGED boundVars
     \/ Running /\ changed /\ Goto("ask") /\ UNCHANGED boundVars
     \/ Running /\ ~changed /\ BoxCertDiffers /\ Goto("askForce") /\ UNCHANGED boundVars
     \/ Running /\ ~changed /\ want.tls /\ Fault /\ Goto("askForce")
     \/ /\ Running /\ ~changed /\ ~BoxCertDiffers
        /\ IF flag THEN Goto("force") ELSE Finish("nothing")
        /\ UNCHANGED boundVars
     \/ Unanswered
  /\ UNCHANGED <<wishVars, hostVars>>

Apply == IF platform = "podman" THEN "bounce" ELSE IF pc = "ask" THEN "up" ELSE "force"

\* --restart is an approval; without it the operator is asked, and may take time.
Ask ==
  /\ pc \in {"ask", "askForce"}
  /\ \/ /\ pc' = Apply /\ yes' = TRUE
        /\ UNCHANGED <<op, want, bundle, flag, changed, blind, behind>>
     \/ ~yes /\ Finish("declined")
  /\ UNCHANGED <<wishVars, hostVars, boundVars>>

\* What the last call of a deploy makes of the container; a start of an active
\* unit does nothing.
Applied ==
  CASE pc = "start"  -> IF Running THEN box ELSE FromUnit
    [] pc = "bounce" -> FromUnit
    [] pc = "up"     -> Upped
    [] pc = "force"  -> Created

\* The engine can do what the last call asks for.
CanApply ==
  CASE pc = "start"           -> Running \/ CanStart
    [] pc = "bounce"          -> CanStart
    [] pc \in {"up", "force"} -> file # NoArtifact

Applying == pc \in {"start", "bounce", "up", "force"}

ApplyDeploy ==
  /\ Applying /\ CanApply
  /\ SetBox(Applied)
  /\ Finish("applied")
  /\ UNCHANGED <<wishVars, file, unit, store, boundVars>>

-------------------------------------------------------------------------------
(* Remove *)

\* Broken on purpose: a stop that has failed is put up with.
ConfirmedStoppedAlways == TRUE

\* What systemd says after a stop that has failed; no answer does not confirm.
ConfirmedStopped == ~Running

StopUnit ==
  /\ pc = "stop"
  /\ \/ SetBox(NoBox) /\ UNCHANGED boundVars
     \/ ConfirmedStopped /\ Fault /\ UNCHANGED <<box, data>>
  /\ Goto("rmUnit")
  /\ UNCHANGED <<wishVars, file, unit, store>>

RemoveUnit ==
  /\ pc = "rmUnit"
  /\ file' = NoArtifact
  /\ Goto("reload")
  /\ UNCHANGED <<wishVars, unit, store, box, data, boundVars>>

AfterRemoval == IF flag THEN Goto("purge") ELSE Finish("removed")

\* Broken on purpose: a certificate that is left behind is only warned about.
KeptIsFatalNever(kept) == kept = Secrets(want) \cup {"none"}

\* Every secret is attempted; only the one with the private key is worth failing for.
KeptIsFatal(kept) == "cert" \in kept

\* The secrets of the env file as it is now, whatever was loaded by an earlier one.
RemoveSecrets ==
  /\ pc = "rmSecrets"
  /\ \E kept \in SUBSET Secrets(want) :
       /\ IF kept = {} THEN UNCHANGED boundVars ELSE Fault
       /\ store' = [s \in {"creds", "cert"} |->
                      IF s \in Secrets(want) \ kept THEN None ELSE store[s]]
       /\ IF KeptIsFatal(kept) THEN Finish("failed") ELSE AfterRemoval
  /\ UNCHANGED <<wishVars, file, unit, box, data>>

\* docker: compose down with the file on disk; without one, stop and remove by name.
Down ==
  /\ pc = "down"
  /\ \/ /\ file # NoArtifact \/ box.state = "absent"
        /\ SetBox(NoBox)
        /\ AfterRemoval
     \/ /\ file = NoArtifact /\ box.state # "absent"
        /\ SetBox([box EXCEPT !.state = "stopped"])
        /\ Goto("rm")
  /\ UNCHANGED <<wishVars, file, unit, store, boundVars>>

RemoveByName ==
  /\ pc = "rm" /\ ~Running
  /\ SetBox(NoBox)
  /\ AfterRemoval
  /\ UNCHANGED <<wishVars, file, unit, store, boundVars>>

PurgeData ==
  /\ pc = "purge"
  /\ data' = FALSE
  /\ Finish("removed")
  /\ UNCHANGED <<wishVars, file, unit, store, box, boundVars>>

-------------------------------------------------------------------------------
(* Failure *)

\* A call fails without effect, a check refuses, or the process is killed.
Fail ==
  /\ ~Idle /\ Fault
  /\ Finish("failed")
  /\ UNCHANGED <<wishVars, hostVars>>

\* The last call of a deploy fails with an effect: the old container is gone, or
\* the new one is there and nobody has heard of it.
FailApplying ==
  /\ Applying /\ CanApply /\ Applied # box
  /\ Fault
  /\ \E b \in {NoBox, Applied} : SetBox(b)
  /\ Finish("failed")
  /\ UNCHANGED <<wishVars, file, unit, store>>

\* The engine refuses what cannot be done; a podman restart stops the broker first.
Refuse ==
  /\ \/ Applying /\ ~CanApply
     \/ pc = "load" /\ ~Running
     \/ pc = "rm" /\ Running
  /\ IF pc = "bounce" THEN SetBox(NoBox) ELSE UNCHANGED <<box, data>>
  /\ Finish("failed")
  /\ UNCHANGED <<wishVars, file, unit, store, boundVars>>

-------------------------------------------------------------------------------
(* The one-call commands, the operator's files, and others on the host.       *)
(* While a run is in progress a one-call command is somebody else's.          *)

Meanwhile ==
  /\ IF Idle THEN UNCHANGED outside ELSE outside < MaxOutside /\ outside' = outside + 1
  /\ UNCHANGED <<edits, faults>>

StartBroker ==
  /\ ~Running /\ Meanwhile
  /\ IF platform = "podman" THEN CanStart /\ SetBox(FromUnit)
                            ELSE box.state = "stopped" /\ SetBox(Started)
  /\ UNCHANGED <<wishVars, file, unit, store, runVars>>

StopBroker ==
  /\ Running /\ Meanwhile
  /\ SetBox(IF platform = "podman" THEN NoBox ELSE [box EXCEPT !.state = "stopped"])
  /\ UNCHANGED <<wishVars, file, unit, store, runVars>>

\* `broker restart`, or the engine's own restart of a broker that has died.
RestartBroker ==
  /\ Running /\ Meanwhile
  /\ SetBox(IF platform = "podman" THEN FromUnit ELSE Started)
  /\ UNCHANGED <<wishVars, file, unit, store, runVars>>

EditEnv ==
  /\ edits < MaxEdits /\ edits' = edits + 1
  /\ env' \in Config \ {env}
  /\ UNCHANGED <<platform, certFile, hostVars, runVars, faults, outside>>

RenewCert ==
  /\ edits < MaxEdits /\ edits' = edits + 1
  /\ certFile' \in Certs \ {certFile}
  /\ UNCHANGED <<platform, env, hostVars, runVars, faults, outside>>

\* Somebody removes the artifact by hand.
LoseFile ==
  /\ outside < MaxOutside /\ outside' = outside + 1
  /\ file # NoArtifact /\ file' = NoArtifact
  /\ UNCHANGED <<wishVars, unit, store, box, data, runVars, edits, faults>>

-------------------------------------------------------------------------------
RunStep ==
  \/ RemoveCreds \/ CreateCreds \/ CompareCert \/ RemoveCert \/ CreateCert \/ LoadCert
  \/ WriteArtifact \/ Reload \/ ProbeUnit \/ ProbeContainer \/ Ask \/ ApplyDeploy
  \/ StopUnit \/ RemoveUnit \/ RemoveSecrets \/ Down \/ RemoveByName \/ PurgeData

Next ==
  \/ \E o \in {"deploy", "certs", "remove"}, f \in BOOLEAN : Begin(o, f)
  \/ RunStep \/ Fail \/ FailApplying \/ Refuse
  \/ StartBroker \/ StopBroker \/ RestartBroker
  \/ EditEnv \/ RenewCert \/ LoseFile

Spec == Init /\ [][Next]_vars

-------------------------------------------------------------------------------
(* Properties *)

WishType == platform \in {"docker", "podman"} /\ env \in Config /\ certFile \in Certs
HostType ==
  /\ file \in Artifact \cup {NoArtifact} /\ unit \in Artifact \cup {NoArtifact}
  /\ store \in [creds : Creds \cup {None}, cert : Certs \cup {None}]
  /\ box \in Box \cup {NoBox}
  /\ data \in BOOLEAN
RunType ==
  /\ want \in Config /\ bundle \in Certs \cup {None}
  /\ op \in {"deploy", "certs", "remove"} /\ pc \in Phase
  /\ flag \in BOOLEAN /\ changed \in BOOLEAN /\ yes \in BOOLEAN
  /\ blind \in BOOLEAN /\ behind \in BOOLEAN
BoundType == edits \in 0..MaxEdits /\ faults \in 0..MaxFaults /\ outside \in 0..MaxOutside

\* The variables keep their types: Config, Box and the phases above are all the
\* states of the env file, of a container and of a run.
TypeOK == WishType /\ HostType /\ RunType /\ BoundType

\* A deploy does not take a running broker away, or replace it, without --restart
\* or a yes, whatever calls fail and whatever the probes fail to answer, unless
\* somebody else has started the broker meanwhile (the M4 comment of deployDocker;
\* the lossy probe of deployPodman).
NoUnapprovedBounce ==
  [][op = "deploy" /\ ~Idle /\ Running /\ box' # box /\ outside' = 0 => yes]_vars

\* After a deploy that has applied, the running container is the one this run has
\* rendered and has a certificate this run has read, whatever earlier runs were
\* declined or failed half-way; only a podman run whose probe got no answer is
\* excused (deployDocker: "after a deploy, the running container reflects ...").
AppliedIsCurrent == [][pc' = "applied" /\ pc # pc' /\ ~blind => Holds(box')]_vars

\* "Nothing to do" is said of a broker that runs what the env file asks for, if
\* no deploy or certificate load was declined or failed since the last one that
\* applied.  The tool compares with the artifact on disk, the digest label of
\* the store (podman) or of the container (docker), never with the broker.
NothingToDoIsTrue == [][pc' = "nothing" /\ pc # pc' /\ ~behind => Holds(box)]_vars

\* The unit file, the loaded unit, the secrets and the data are only removed while
\* the broker is down, also when its stop has failed (deletePodman).
TeardownStopsFirst ==
  [][/\ op = "remove" /\ ~Idle /\ Running /\ outside' = 0
     => UNCHANGED <<file, unit, store>> /\ (data => data')]_vars

\* A remove that says so has removed the container, the unit and the certificate's
\* secret, and the data if asked, whatever an earlier remove has left half-done.
RemovedIsGone ==
  [][/\ pc' = "removed" /\ pc # pc' /\ outside' = 0
     => /\ box' = NoBox
        /\ flag => ~data'
        /\ platform = "podman" => /\ file' = NoArtifact /\ unit' = NoArtifact
                                  /\ want.tls => store'.cert = None]_vars

\* What deploy prints when it leaves a broker alone: it "is already running on this
\* compose file", "is already active on this unit" (deployDocker, deployPodman).
NothingMeansCurrent ==
  [][pc' = "nothing" /\ pc # pc' => box.art = file]_vars
===============================================================================
