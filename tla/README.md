# A TLA+ model of solace-cnt-scripts

solace-cnt-scripts is one Go command-line program that deploys Solace PubSub+
brokers (as containers, or through an operator on Kubernetes) and administers
them: it configures and switches data replication between two sites, tests HA
redundancy, exports and imports broker configuration. It keeps no state of its
own. Its state is elsewhere: in the brokers, in the cluster, in the files and
secrets of a container host. Several invocations may run at once, on different
machines, and nothing locks what they share. That, and not the program's text, is
what the modules here are about: which orders of calls, refusals, failures and
readings can occur, and what holds after each of them.

Every definition is translated from `src/`; `PROJECT.json` ("map") names the lines.

## 1. Inventory

| component | where its state is | operations | what is hard |
|---|---|---|---|
| replication role switch (`broker/switchplan.go`, `cli/replication.go`) | roles and admin states at two brokers; the plan of each run | preflight gates, read, plan, ask, demote, confirm, re-read, promote, verify | concurrent runs, stale readings, lost replies, late commands |
| mate channels (`broker/matechannel.go`, `broker/sempmate.go`, `k8s/matechannel.go`) | one script file per site | read roles, set role, primary active, show replication | a role write over CLI is three calls on a shared file; success is not proof |
| replication configuration (`broker/replicationops.go`, `broker/replication.go`) | mate, VPN replication states and queues of one broker | read mate, read VPNs, phase 1 script, phase 2 script | stop at the first refused line, no rollback, re-runs, the queue keyword |
| script runner (`broker/broker.go`) | three files per script name on the broker | upload, execute with stop-on-error, read the transcript, remove | shared names, transcript scan |
| redundancy test, leader check (`broker/verify_ops.go`, `verify_local.go`) | activity and redundancy state of an HA group | release, poll, revert; check, assert leader | timeouts between release and revert, check then act |
| import (`broker/importops.go`, `driver.go`, `blocks.go`, `diff.go`, `transform.go`, `inject.go`, `annotate.go`, `sections.go`) | the broker's whole configuration; a script in the broker | plan, question, capture of teardowns, one script that tears down and rebuilds in chunks, report, verify | partial teardown, lost or incomplete output, refusals nobody recognises, re-runs |
| export and edits (`broker/config_ops.go`, `cli/exportconfig.go`) | files | read, write | - |
| container deployment (`container/*.go`) | compose file or quadlet unit, podman's secret store, the container, the data directory | deploy, start, stop, restart, remove, load of a certificate, host preparation | what is on disk against what runs; declined or failed restart; probes without an answer |
| Kubernetes deployment (`k8s/prep.go`, `deploy.go`, `adminsecret.go`, `secrets.go`, `ops.go`, `namespace.go`, `preflight.go`, `cli/ops_k8s.go`) | broker resource, Secrets, claims, pods, namespace | deploy, restart, server certificates, remove, check | the Solace operator acts in its own time; permissions; what a Secret says against what a pod mounted; check then delete |
| operator (`k8s/operator.go`, `watch.go`, `operatorversion.go`) | definitions, operator deployment, its watch list, a cluster role binding of a fixed name | deploy, remove, start, stop | one operator for many env files; read-modify-write of the watch list; cascade of the definitions |
| commands, gates, exit codes (`cli/*.go`) | none | dispatch, confirmation | an answer may come at any time |
| configuration and rendering (`config`, `render`, `cli/context.go`, `broker/verify_local.go`) | none | load: references, defaults, checks, paths; names; role of a host; what an artifact carries | the same file must mean the same on every host; two checks that must agree; names that must not collide |
| conversion of old files (`convert`), completion, reports, vulnerability judge | none | pure functions | - |

How they interact: a command of `cli` loads and validates one env file (`config`),
asks its questions, and calls `broker`, `container` or `k8s`, each of which runs
one external process at a time (`engine`). Components meet only in the systems
they write to: a switch and a configure meet in the roles of a broker, two
switches in the script file of a site as well, two deployments in the shared
operator.

What makes each correct, in one line:

- switch: a role is given up before it is taken up; success means the file;
  failure leaves a state that the next run can finish from.
- configure: success means converged, from whatever an earlier run left; it stops
  nothing that need not stop; no VPN is enabled in the wrong role.
- redundancy test: success means that a failover took place and that activity is
  home; the backup gives activity up only to a primary that can take it; every
  wait ends.
- configuration: what a file sets reaches the broker; hosts that share a file form one
  group; what was accepted is not refused half-way through.
- import: nothing is torn down without consent, what was torn down is named, success
  means the artifact is there, and a second import repairs what the first has left.
- container deployment: what runs after a deploy that applied is what the env file
  said; no running broker is bounced without consent; a teardown stops first.
- Kubernetes broker: the generated password stays the one the data was booted with;
  success leaves no pod on an old certificate; a removal takes what it says.
- operator: it watches every namespace that somebody still claims, is taken over by
  nobody without consent, and no broker is lost with its definitions.

## 2. Modules

| module | models |
|---|---|
| `RolePair` | abstract: for each VPN the sites that hold the active role; Release, then Acquire |
| `ReplicationSwitch` | every run of `broker perform data-replication`, call by call, and both brokers |
| `ReplicationSwitchObserved` | the same with a history variable, for the counterexample `SwitchReread` |
| `ReplicationConfigure` | `broker configure data-replication` at one broker, line by line |
| `ContainerDeploy` | the container of one host: deploy, remove, start, stop, restart, `configure server-certs`, on docker and podman |
| `RedundancyTest` | `broker perform redundancy-test` and the HA group it is run on, reading by reading |
| `ImportPromise` | abstract: what an import may take, with whose consent, and what its success means |
| `ConfigImport` | `broker perform export-config` and `import-config`: the import, the script it leaves in the broker, and the broker |
| `ClusterBroker` | `broker deploy`, `restart`, `configure server-certs` and `remove` on Kubernetes, with the Solace operator and the pods |
| `SharedOperator` | `operator deploy`, `remove`, `start`, `stop` by several env files on one cluster |
| `ExecGuard`, `EnvFile` | pure: the commands and paths a file may name; what a file means and the checks it must pass |
| `EnvHosts` | one file loaded and deployed by several hosts, each in its own environment |
| `ReplicationSwitch_proofs`, `ReplicationConfigure_proofs`, `ContainerDeploy_proofs`, `RedundancyTest_proofs`, `ClusterBroker_proofs`, `SharedOperator_proofs`, `ConfigImport_proofs`, `EnvHosts_proofs` | theorems and their proofs |
| `MC...` | instances for TLC |

### ReplicationSwitch

The state has two halves. The brokers: `role` and `admin` of every VPN at each
site, `primaryActive` (which HA node holds activity), `mateNamed` (whether the
broker names the other site as its mate), `script` (the file
`repl-set-role` at a site reached over CLI) and `late` (commands whose caller has
gone). Each run: its phase `pc`, its env file `file`, and the local variables of
the Go functions: the sites visited (`seen`), the readings (`view`), the plan
(`moves`, `todo`) and how far the write in hand has come (`step`).

One action is one call at one site, because between two calls everybody else can
act. `CheckPrimaryActive` and `CheckMateNamed` are the iterations of the two gates
of `SwitchPreflight`, which visit every site before refusing; sites are visited in
any order, since the code ranges over Go maps. `ReadBefore`, `ConfirmDemotions`,
`Reread`, `Verify` are the iterations of the four reading loops. `Plan` is
`BuildSwitchPlan`, `Answer` the exact-`yes` gate. `Upload`, `Execute` (or
`ExecuteNothing`) and `RemoveScript` are the three calls of a role write over
a CLI channel, `PostSEMP` the one over SEMP. `Fail` and `FailInFlight` are every way a
call or the process can fail; `ExecuteLate` is the broker executing a command
afterwards. The `Outside` actions are an operator at a broker, `configure
data-replication`, and an HA failover.

VPNs are numbered in file order. An env file is reduced to `[VPNs -> Sites]`, the
`activeAt` of each VPN. The local channel writes through the script runner, whose
three files are abstracted to the same one script file.

### ReplicationConfigure

The broker is its mate (`name`, `addrs`) and for each VPN `admin`, `role` and
`queue`. A run holds the two readings (`have`, `view`) and what is left of the script it
waits for (`script`, a set of lines; `Before` is the order in which the code
writes them; lines between which the order is immaterial are not ordered).
`ReadVPNs` is everything `ConfigureReplication` decides between its second reading
and the first script; `ExecuteLine` and `RefuseLine` are the broker at one line
under stop-on-error; `LoseContact` is a transport failure, after which the rest
of the script may go on as one of the `orphans`.

What the broker accepts (`Accepts`) and does (`Effect`, `QueueAfter`) is not in
the repository. The rules are the ones its comments state: the mate changes only
while replication is enabled on no VPN, a name does not replace another name,
each form of `no shutdown` is refused in the case the other is for.
Whether a role change alone makes or drops the queue is the question
`reenableLine` marks NEEDS VERIFICATION; the constant `QueueTracksRole` covers both
answers. Every refusal is assumed to be worded in a way `rejectionIn` and the
stop-on-error wrapper know.

### ContainerDeploy

What is wanted is `env` (the artifact apart from TLS, the credentials as one value,
whether there is a certificate) and `certFile`, the contents of the certificate
files. The host is the artifact on disk (`file`), the `unit` systemd has loaded,
podman's secret `store` (a secret's digest label is its value), the container
(`box`, with what it was created with) and `data`. A run holds what it has loaded
(`want`), the certificate it has read (`bundle`), and the decision the Go functions
pass around (`changed`, `yes` for an approved bounce).

`Begin` starts a command; then one action is one external call. A podman deploy removes
and creates each secret (`RemoveCreds` to `CreateCert`, with the digest comparison
`CompareCert`), writes the artifact (`WriteArtifact`, which also decides `changed`),
reloads (`Reload`), probes (`ProbeUnit`) and asks (`Ask`) or applies
(`ApplyDeploy`); a docker deploy starts at `WriteArtifact` and uses
`ProbeContainer`. `StopUnit` to `RemoveSecrets` are `deletePodman`, `Down` and
`RemoveByName` are `deleteDocker`, `PurgeData` is `--delete-data`. `LoadCert` is the
end of `configure server-certs`. `Fail` is a call that fails without effect, a check
that refuses, or a kill; `FailApplying` the last call failing half-way; `Refuse`
what the engine cannot do. Edits of the file, renewals of the certificate, somebody
deleting the artifact and starts, stops and restarts by others can come between any
two calls.

What the engines do is taken from the comments of the code and marked external:
a start of a quadlet unit replaces the container and re-reads the store (marked
"ASSUMED, NOT VERIFIED" in `deployPodman`), a start of an active unit does nothing, a
docker container keeps the values it was created with, `compose up` recreates a
container whose file or digest label differs (`UpSeesLabel`).

### RedundancyTest

The group is what its two nodes would say: `released` and `up` are the
Configuration and the Redundancy Status of the primary, `holder` the node that
holds activity, `mate` whether the backup is there, `reverting` a revert that the
backup has accepted. `seen` is the primary's picture of its mate, which may be older
than the truth. A run has its phase `pc`, the polls it has spent in the wait in hand
(`tries`), and a reading it has still to use (`reading`). `mode` is the platform: on
Kubernetes (`Redundancy`, verify_ops.go) both nodes are read, one call after the
other (`PollPrimary`, then `PollUnreleased` or `PollHome`); on a container host
(`RedundancyCoordinated`, verify_local.go) the primary alone, and the mate is reached
over SEMP for `Preflight` and `Revert`.

The actions of a run follow the functions: `CheckHealth`, `Release`, `PollReleased`,
`NoRelease`, `PollUnreleased` are `releaseToBackup`; `CheckBackup`, `Revert` and
`PollHome` the second half. `Stay` is a poll that finds nothing yet; at
`Attempts` of them the wait fails. `Fail` is a failed call or a kill, `FailInFlight`
the same with the command executed.

How the group moves is not in the repository and is marked external: a released
primary gives activity up (`GiveUp`), either node takes what nobody holds, `Hello`
brings the primary's picture up to date, `Settle` is redundancy coming up and going
down, `GiveBack` a revert, which takes place if the primary is ready. Whether a
standby backup accepts a revert is not known, and both outcomes are allowed. A backup
that restarts (`LoseMate`, `MateReturns`) is back only after the primary has noticed
that it was gone.

### ConfigImport

The artifact (`art`) and the broker (`conf`) are sets of objects, each of a `Kind` that
says what its lines do when the object is there already, in a message-VPN or in a
section of the capture; the sections are told apart by what the classification in
`sections.go` makes of them. `Exported` is what export writes, `Edited` a file changed by
hand. A run is `Plan` (the read of the target), `Answer`, one `Capture` per VPN to be torn
down, `Build` (which also decides that there is nothing to run), `Upload`, `Collect`
and `Verify`. The script is a second actor: `ApplyChunk`, `RefuseChunk` and `Finish` go on
whether the import still listens or not, and `markers` is what has arrived of what
it printed. `Refused` and `Parts` say what the broker rejects and what it keeps of a
chunk it stops in, `Torn` and `Parsed` what the report makes of the markers.
`Break`, `Kill` and `Die` are the connection, the caller and the orphan; `Meddle` is another
administrator. Verdicts are the code's own outcomes ("cut short", "unknown", "not run",
"differs" and so on).

`ImportPromise` knows none of this: objects come and go, an import may take from a
message-VPN only what was agreed to, and `Succeed` is possible only when what is wanted is
there. `KeepsPromise` is the refinement; its mapping drops what the plan said it would
not apply (`Wanted`) and reads "success" as the verdict "verified".

### ClusterBroker

The env file is where the admin password is (unset, built here, named), the certificate on
disk and whether the namespace is one of Kubernetes' own; `may` is what the identity
is allowed. The cluster is the namespace, the resource (`cr`, with the Secret it names),
per node the password its `data` was first booted with and the certificate its
pod mounted, the Secrets, and whether something of somebody else's is there. A
command is one record whose `phase` is where it stands: `StartDeploy` (with every gate
before the first write), `EnsureNamespace`, `CreateSecrets`, `DeployBroker`, `Confirm`,
`OfferRestart`, `RestartPod`; `StartServerCerts`, `LoadCert`; `StartRemove`, `DeleteResource`,
`DeleteClaims`, `DeleteSecrets`, `Occupancy`, `DeleteNamespace`. `Generate`, `StartPod` and `PodGoes`
are the Solace operator and Kubernetes, at any time. A pod comes up only if the Secrets it
mounts are there (`CanStart`); that is so for one the tool restarts, too (`Up`).

`stale`, `late` and `blind` are history: a run that wrote a new certificate and did not get to
the end of its restarts, an object that came while the namespace question was open, and a
deploy that went on past a resource it could not read. They are the conditions of
the properties; in each case the code has printed an error or a warning that says so.

### SharedOperator

A place is a namespace an operator may be installed in. The cluster is the Deployment
of each place with its watch list (`{}` stands for every namespace, as the empty
value does) and version, the place the fixed-name binding serves, the definitions and the
brokers. `claim` is history: the files whose last write asked for their namespaces. A
deploy reads once (`ReadForDeploy`, where the watch list to write is decided), asks
(`Answer`) and then applies three documents; a remove decides by what is left of
the watch list (`Release`) between keeping, narrowing (`SetWatch`) and deleting
(`DeleteBundle`), with the gate on the definitions before and after (`GateOpen`,
`GateAgain`). `BreakBundle` and `BreakDelete` leave any part of what they wrote.

### ExecGuard, EnvFile, EnvHosts

A file is a record of the fields the properties tell apart. Secrets are a value or the
name of a variable, commands are sequences over a small vocabulary of tokens (flags,
binaries, subcommands, escalators, unclean ones), paths are the forms the code
distinguishes (absolute, relative, `~/`, `~user`, with a space). `ExecGuard` has one operator per
function of `execguard.go` and `hostpath.go`; `EnvFile` one per check of `Validate`, one
per name derived from a file, and `Prepared`, `Accepts` and `Loaded` in the order of `Load`.
Values that have only a shape (quantities, ports, labels, durations) are members of
`malformed`. `EnvHosts` is the machine: `Load(h)` in the environment of host `h` (home directory,
exported variables, host name, addresses), `DeployKubernetes(h)` and `DeployContainer(h, pod)`,
which find the role, check the commands once more and render what is carried to the
broker.

`EnvFiles` is the type of a file: any strings, sequences of any length, paths among
`WrittenPaths`. Names of Secrets are strings put together as the code does it, so that two of
them can meet; `NamesAssumption` adds only that a name with a suffix is not empty. The host variable of a
container's secret is its suffix and, for a user, what the name folds to: the suffixes of the fixed
secrets and `-user-...-password` never meet.

## 3. Runs

| run | instance | shows |
|---|---|---|
| `SwitchOneFile` | 2 VPNs that live at different sites, 2 overlapping runs, same file, all channels CLI, 3 failures, late commands; from every state of the pair | `ImplementsRolePair`, `NeverTwoActives` (the inductive invariant of the proof), `PlacedStays` |
| `SwitchTwoFiles` | 1 VPN, 3 overlapping runs, any files, 1 failure, late commands; from every healthy pair | `SplitBrainReported` |
| `SwitchInTurn` | 2 VPNs, 2 runs one after the other, with one of two files each (sites crossed, or both VPNs at one site), CLI at home and SEMP away, 1 failure, 1 outside change | `SuccessIsTrue`, `RerunConverges`, `VerifyCatches`, `RunsEnd` |
| `ConfigureRerun` | 3 VPNs (2 listed), 1 refusal, 1 lost call, `QueueTracksRole` | `RerunsSucceed` |
| `ConfigureShared` | 2 VPNs (1 listed), 1 lost call, 1 orphan, 1 outside change | `AppliedIsTrue`, `PlanAccepted`, `MatchingMateStopsNothing`, `ComesUpInRole` |
| `ContainerHost` | docker or podman, 1 specification with and without TLS, 2 certificates, 3 edits or renewals, 2 failures, 1 change by somebody else, any sequence of commands | `NoUnapprovedBounce`, `AppliedIsCurrent`, `NothingToDoIsTrue`, `TeardownStopsFirst`, `RemovedIsGone` |
| `Redundancy` | both platforms, 2 runs (one at a time, or overlapping), 2 polls for each wait, 1 failure, 1 loss of the backup or command of an operator | `SuccessMeansFailover`, `SuccessIsHome`, `RevertFindsPrimaryReady`, `RunsEnd` |
| `ImportBroker` | 3 brokers to export from, 3 scopes, edited files, a new and a populated target, 2 VPNs and 8 objects of six kinds, 2 imports, 2 mishaps (failed calls, breaks, unrecognised refusals, lost markers, other administrators) | `KeepsPromise`, `DestroyedIsNamed`, `RebuiltIsWhole`, `Recovers`, `GapIsLoud` |
| `ClusterBroker` | 2 nodes, one on a volume of its own, 4 sets of permissions (one lacks only that to delete the namespace), 2 certificates, 3 commands, 1 failed call, 2 generated passwords, 1 stranger | `PasswordIsHeld`, `CertServed`, `NoRefusalHalfway`, `RemovedIsGone`, `NamespaceTakesNothingSeen` |
| `OperatorShared` | 3 env files (2 in one place, 1 that wants every namespace, 2 versions, different permissions), 3 places, perhaps an operator already elsewhere, 5 commands one at a time, 1 failure half-way, 1 broker | `ClaimsAreServed`, `SharedOnlyByConsent`, `CascadeTakesNobody` |
| `EnvFile` | 3 hosts, 2 environments, every platform; the files of `MCEnvHosts`: slices that vary Secrets, pull credentials, users, ports, storage, commands, paths, sites, groups (also with one name for two nodes) and sizes | `NothingDropped`, `GroupForms`, `CommandsStillPass`, `Anchored`, `SitesMirror` |
| `EnvReference` | a site reached over SEMP whose password is a variable | violated: `ReferenceIsAccepted` (finding 1) |

`TypeOK` of a module is in no run: for the seven components in section 5 it is a theorem, in
`EnvHosts` the invariants would fail to evaluate on a value of another kind.

Counterexamples to run by hand. Each configuration below checks one property that a document
or comment states and the code does not keep (section 4); TLC prints the shortest
behaviour. `tlc -config <name>.cfg <module>`:

| configuration | module | property |
|---|---|---|
| `SwitchReread.cfg` | `MCReplicationSwitchObserved` | `RereadBeforeEachPromotion` (2) |
| `ConfigureRejected.cfg` | `MCReplicationConfigure` | `RestIsShutDown` (3) |
| `ContainerDeclined.cfg` | `MCContainerDeploy` | `NothingMeansCurrent` (4) |
| `RedundancyRerun.cfg` | `MCRedundancyTest` | `RerunIsNotRefused` (5) |
| `ImportRerun.cfg` | `MCConfigImport` | `Recovers`, for an artifact with CLI users (6) |
| `OperatorRetry.cfg` | `MCSharedOperator` | `AskedMeansGone` (7) |
| `EnvQuadlet.cfg` | `MCEnvHosts` | `UnitDirAnchored` (8) |

Bounds. Two VPNs are enough for a plan that moves one and skips one, and for
something to happen between two promotions; the VPNs of a pair meet nowhere
else. Two runs are enough for one to invalidate the reading of the other; three
give disagreeing files a third party whose demotion separates the two.
Failures are bounded by `MaxFaults`, other people's writes by `MaxOutside`, refusals by
`MaxRefusals` and orphans by `MaxOrphans`; each is at least one where a property
depends on it, and the theorems have no bound.
A host needs three edits to leave a state, come back to it and leave it again, which is
what deceives a comparison with what is on disk; two failures put one into a deploy
and one into its repair.
Two polls are a wait that goes on and one that ends; with two runs one can be in a wait
while the other changes what is waited for, and an unfinished run can leave
its state to a later one.
An import needs two runs to meet what the first has left, and two mishaps to leave it
and to disturb the repair; its eight objects have one of each kind the broker
treats differently, on both sides of the `clear` and of the VPN boundary.
A cluster needs three commands for deploy, edit, deploy or deploy, remove, deploy, and two
nodes for a restart that stops between them. Five operator commands let two files claim,
one widen, one narrow and one delete. Files are enumerated in slices rather than as one
product: each slice varies every field that the property it was made for reads, and all the checks of
`Validate` are applied to each.
`CHECK_DEADLOCK FALSE` in every run: a run is over when it has its exit code.

Conditions of the properties that are not decoration:

- `ImplementsRolePair`, `NeverTwoActives` and `PlacedStays` need one env file. With
  two files a split brain can be made; `SplitBrainReported` says what is left.
- `ImplementsRolePair` needs nobody else at the brokers (`MaxOutside` = 0); the
  source does not promise more, since nothing can lock a broker.
- `SuccessIsTrue` and `RerunConverges` are checked without `Overlap` and
  `Lingering`. A command that executes after its run has failed can change the pair
  after a later run has verified it, and can make a re-run stop because the
  VPN has "moved"; both are states a third run repairs.
- `AppliedIsCurrent` excuses a podman run whose probe got no answer (`blind`): it
  sends a start that does nothing, so an approved change is not applied and the
  run reports success. The comment of `deployPodman` calls that guess free; it is
  free of a bounce, which `NoUnapprovedBounce` checks, not of the stale broker.
- `NothingToDoIsTrue` needs that no deploy or certificate load was declined or has
  failed since the last that applied (`behind`); `ContainerDeclined` shows why.
- `NoUnapprovedBounce`, `TeardownStopsFirst` and `RemovedIsGone` say nothing once
  somebody else has started or stopped the broker during a run: the probe and the
  call that rests on it are two calls.
- `SuccessIsHome` and `RevertFindsPrimaryReady` need one run at a time (`alone`) and
  nobody else at the group. A second run can release the primary between a reading and
  what is done about it, and nothing in the code prevents it. Whatever state earlier
  runs that failed or were killed have left is included. `SuccessMeansFailover` and
  `RunsEnd` have no such condition.
- `DestroyedIsNamed` is silent about an import one of whose refusals was worded in a way the
  driver does not look for, and in its second half about one that lost a marker in the
  middle of the output: nothing that is printed could then be right.
- `Recovers` needs an artifact without CLI users (finding 6), without sections that the build does not
  know (which `GapIsLoud` is about) and whose virtual hostnames have their VPN.
- `PasswordIsHeld` needs an identity that may list claims, and a deploy that could read the resource of
  a broker that was there; `CertServed` that no earlier run stopped between the
  Secret and the last pod (`stale`). The second hides a real limit: see section 4.
- `ClaimsAreServed` needs one operator command at a time (`MaxAtOnce` = 1). With 2 it is
  refuted: two deploys read the same watch list, and the second write drops the
  namespace of the first. Nothing in the code or in kubectl's apply prevents it. It also needs
  files whose lists have no namespace in common: a removal takes the whole list of its
  file off, without a look at whose else it is (`OperatorRelease`, `k8s/watch.go`).
- `NoRefusalHalfway` has one exception, which the code documents (`k8s/deploy.go:136-138`): the permission
  to delete the namespace is asked about after everything else is gone. The property says what
  such a refusal leaves: a namespace without anything of this deployment.
- `GroupForms` excuses a table that gives one machine's name with another's address, for what it says of two
  hosts. It promises a node its entry only if no other node has its name. The table is keyed by
  name, and of two nodes with one name the later overwrites the other (`HolderOf`); a host that
  takes its role from its address or from `--pod` can then be missing from its own
  table. A host that recognises itself by name cannot, because two matches are an error.
- `Anchored` excuses a `podman.quadletDir` that is written relative (finding 8), and the default of a
  rootless one: it is under the home directory, as modelled, only where `XDG_CONFIG_HOME` is unset, and
  otherwise whatever that variable says (`config/load.go:379-388`).
- `NothingDropped` counts a credential on the platforms where it is documented to reach the
  broker (`Credentials`): not `semp.monitorPass` on docker and podman, where nothing reads it, nor
  `image.pass` there, with which the tool itself logs in, nor the key's passphrase on Kubernetes.

Fairness. `SwitchInTurn` and `Redundancy` assume weak fairness of each run: each wait in the code
is one external process or one answer at the terminal, and the next call is made
when it returns. `ConfigureRerun` assumes in addition that somebody runs the
command again after a failure, which is what its messages ask for. Nothing is assumed
of the HA group: a wait ends by its ceiling (`poll`), whatever the brokers do. The runs
without a temporal property assume nothing.

## 4. Findings

1. `resolveSecretRefs` (`config/secretref.go:69-91`) fills a SEMP site's password from the
   variable `passEnv` names and keeps `passEnv`; `validateReplViaSEMP`
   (`config/validate.go:1180`) then counts two passwords and refuses the file.
   `replication.sites[].via.semp.passEnv`, which `docs/configuration.md:431-443` lists and
   `:528` shows in an example, cannot be used (`EnvReference`).
2. `promoteConfirmed` (`broker/switchplan.go:396`) is documented to re-read
   "immediately before each promotion"; it reads once before all of them
   (`:411-418`). During the promotion of VPN 1 an operator makes VPN 2 active at the other
   site, and VPN 2 is promoted. `VerifyCatches` shows what the verify makes of it: a failed run.
3. `replPhase2Rejected` (`broker/replicationops.go:377`) tells the operator that
   the VPN phase 2 stopped on and every later one are left shut down. When phase 1
   was skipped, they are left as they were.
4. `deployDocker` and `deployPodman` (`container/manager.go:882`, `:804`) say that the
   broker "is already running on this compose file", "already active on this unit",
   when the file on disk is unchanged. After a declined restart the file is the new one
   and the broker is on the old one: the next deploy says so wrongly and never asks
   again.
5. `docs/operations.md:635-638` advises, for a redundancy test that "dies partway" and
   leaves the primary released, among others to "simply re-run" it. A re-run is
   refused by the health check (`broker/verify_ops.go:163`, `verify_local.go:176`),
   which wants the primary Enabled and Up.
6. `docs/operations.md:1420-1422` says of an import that failed that re-running it "is the
   recovery". The create of a CLI user that is there already is refused
   (`broker/transform.go:216-232` removes ahead only what is not a user), so a re-run
   stops where the first one had created users.
7. `docs/operations.md:1135-1137` says that a removal with `--delete-crd` can be retried. After a
   removal that kept the definitions, the next finds no operator and ends with
   "nothing to remove" (`k8s/watch.go:391-405`), definitions and all.
8. `docs/configuration.md:111-113` says of `podman.quadletDir`, with the two other container-host
   directories, that "a relative value is still refused", and `config/validate.go:294-295` calls one an
   operator error. `validateHostPaths` checks its characters only (`:298`), nothing asks
   whether it is absolute, and nothing rebases it (`config/hostpath.go:218`): a relative value is accepted, and
   the unit is written and removed relative to the directory the command is run from.

Only 1 is a run of the check; 2 to 8 are the configurations of the second table above.

Seen while modelling and checked by none of them:

- a Kubernetes deploy that fails, or whose restart is declined, after the Secret was written: the next
  deploy compares the file with the Secret, finds them equal and reports success with the
  pods on the old certificate (`docs/operations.md:976-985`; condition `stale` of `CertServed`);
- `BrokerPodsExist` looks at the primary's pod alone, so no restart is offered while only
  the backup or the monitor runs (`k8s/prep.go:401-419`);
- a deploy that could not read the resource of a broker with no claims yet can take away its
  reference to the admin Secret (condition `blind` of `PasswordIsHeld`);
- an import whose output stops without its last line is called "cut short", not "unknown" as in
  `docs/operations.md:1412-1417`;
- `cpuset` counts a cpu named twice as two (`config/scaling.go:95-111`); nothing refuses a container
  group whose nodes share a name, the key of the group table (`config/validate.go:1472-1494`,
  `docs/configuration.md:197`; `GroupForms` says what is left of the table); `tlsServerSecret`
  and `imagePullSecret` may take the operator's own name (`config/validate.go:1388-1396`);
  `image.user` without a password builds no pull Secret and says nothing; `expandTilde` reports
  "starts with '~'" for any path with a space;
- the certificate secret of an earlier env file survives `broker remove` if TLS was
  dropped from the file meanwhile (`container/manager.go:1075`); a docker remove leaves the compose
  file where the comment of `Delete` says it is removed (`:1007`); a podman deploy that
  ends between `secret rm` and `secret create` leaves a running broker that cannot be
  restarted until the next deploy (`:603`).

## 5. Proofs

TLAPS proves, for every value of the constants that satisfies the named ASSUMEs:

- `TypeCorrect` for each of the seven components below other than the env file; that of the
  redundancy test bounds the polls of a wait (`CeilingInv`).
- `SwitchSafe` and `SwitchImplementsRolePair`, for one env file and
  `MaxOutside` = 0. That no VPN becomes active twice is not inductive. The
  strengthening `NeverTwoActives` has four parts. `ReadingsHold`: only the site the file
  names is ever made active, so a reading "not active" of the other site stays
  true. `BothRead`: nothing follows from the readings before both sites are read.
  `SplitNotPlanned`: a VPN active at both sites is in nobody's plan.
  `CommandsSafe`: a command in a script file or still to execute late is safe at
  whatever time it executes, because a promotion is only issued after its
  run has seen the other site not active. Each step then maps to a step of
  `RolePair` or to a stutter.
- `SwitchKeepsPlaced` (`PlacedStays`), which needs only that commands go where the
  file of their run says.
- `SplitBrainIsReported` (`SplitBrainReported`), for any files, overlap and late commands, and
  `MaxOutside` = 0. The property speaks of the end of all runs; `SplitAnswered` says it of every
  state: a VPN active at both sites has somebody who answers for it (a run that
  has failed, has still to write, or whose verify has found or will find the
  site that should not be active), or was so from the beginning, and then every run is
  held back at its plan (`HeldBack`). The run that makes a VPN active a second time answers
  for it itself, because its own verify is still ahead of it, and a run whose command
  executes late has failed.
- `SuccessMeansPlaced` (`SuccessIsTrue`), without `Overlap` and `Lingering`, from `InTurn`: at
  most one run is in progress, and unless somebody else has written, what it has read
  before the plan, in the re-read and in the verify is what the brokers hold.
- `RerunsConverge` (`RerunConverges`), for the same runs, finitely many and more of them than
  faults, from a pair that can serve (`ServingSpec`). The invariant `OneFaultEach` counts: a run
  that has failed, or whose demotions or promotions are no longer as it made them
  (`Scarred`), has had a fault of its own, so the scarred runs are never more than the faults, and one run
  at least ends without. Such a run ends well, and after a success every later run finds
  nothing to move (`StaysDone`). `RolesServe` is what makes a re-run possible
  at all: no failed run leaves a role that the next one would refuse to plan from, and
  `Expected` that no run in progress can then stop for any reason but a fault.
- `VPNComesUpInRole` (`ComesUpInRole`), from `RolesInOrder`: of every script under way,
  a VPN that is still to be enabled either has its role or has its role line
  still ahead of the enable.
- `AppliedMeansConverged` (`AppliedIsTrue`), `NoLineRefused` (`PlanAccepted`) and `MatchingMateNeverStops`
  (`MatchingMateStopsNothing`) of configure, from one invariant, `PlanInStep`: while nobody else
  writes, the broker is what the readings say with the lines that are gone from the script
  applied. For phase 1 (`MatePhaseInStep`): what is up has its stop to come, what is left of the old mate
  its removal, and the naming of the mate is always still to come. For phase 2
  (`VPNPhaseInStep`): a listed VPN is up exactly when its enable is behind it, and then has its role. An empty
  script is the converged broker; the next line of the order is always one the broker's
  rules accept, because what they ask for is behind it.
- `DeployAsksFirst` (`NoUnapprovedBounce`) and `RemoveStopsFirst`
  (`TeardownStopsFirst`), from `PhaseInv` (each phase belongs to its command),
  `ConsentInv` (a bounce that is due is approved, or the broker was down when it was
  probed and nobody has started it) and `StoppedInv` (past its stop, a remove has a
  stopped broker).
- `AppliedRuns` (`AppliedIsCurrent`), `NothingIsCurrent` (`NothingToDoIsTrue`) and
  `RemovalIsComplete` (`RemovedIsGone`) of the container host. The
  first is proved for an engine whose `compose up` recreates on a changed digest label
  (`UpSeesLabel`). `PreparedInv` says that what a deploy has written, loaded and stored is still
  its own when it is applied, or gone; `LevelInv` that container, unit, store and disk
  agree unless a run that did not get through has left them apart (`behind`) or the run
  under way knows of a change; `RemovalInv` what each phase of a remove has taken.
- `PasswordSurvives` (`PasswordIsHeld`), `SuccessServesCert` (`CertServed`), `NoRefusalIsHalfway`
  (`NoRefusalHalfway`), `RemovalIsComplete` (`RemovedIsGone`) and `NamespaceGoesEmpty`
  (`NamespaceTakesNothingSeen`) of the broker on Kubernetes, for any nodes, permissions,
  certificates, renewals, failures and commands. `PasswordInv` is the long argument: data exists only
  where the Secret that holds its password does, so a deploy that is about to leave the password to
  the operator finds no data or a broker of that kind. `CertInv`: every pod is current except those
  the command under way has still to come to, or one cut short has left. `GatesInv` says that
  past its first gate a command has every permission it will use, `RemovalInv` what each
  phase of a removal has taken, `Telling` that an outcome is not told before the end. The
  conditions `blind`, `stale` and `late` are those of the properties; nothing is assumed
  beyond the ASSUMEs of the module.
- `NoSuccessWithoutFailover` (`SuccessMeansFailover`), from `GroupInv` (a picture of an
  active mate is a true one, or the mate has just given activity up, or is gone) and
  `HistoryInv` (a run past its health check can see an active backup only if one was
  active during the run).
- `RevertIsSafe` (`RevertFindsPrimaryReady`) and `SuccessFindsPrimary`
  (`SuccessIsHome`), from `AloneInv` and `ReadyInv`: what the only run has read of
  the primary still holds when it acts, because an enabled primary that is up
  and linked goes down only by a release, and releases are this run's own;
  `FreshInv` says that no wait starts with a reading of an earlier one.
- `DeployersAreServed` (`ClaimsAreServed`), `TakenOverByConsent` (`SharedOnlyByConsent`)
  and `GateSparesBrokers` (`CascadeTakesNobody`), for any number of env files, places,
  identities, failures and brokers. All need one operator command at a time
  (`OneByOne`); the first also that no two files ask for the same namespace
  (`NothingInCommon`): with one in common, the removal by one file takes the
  namespace off for both. `OnlyOne` says what one at a time means for `cmd`;
  `PlanFits`, `RemovalFits` and `GateFits` say that what the command in progress has read of the
  operator, and has made of it, still fits the cluster when it writes.

- `ImportKeepsPromise` (`KeepsPromise`): the import implements `ImportPromise`, for any objects,
  artifact, scope, VPNs and mishaps. `ImportAgreed` says that every chunk, of this import or of a script
  another has left running, takes only from the VPN it tears down, to which the
  operator has agreed; `VerifiedMatches` that a run that ended verified with nobody else
  writing left what is wanted.
- `ReportNamesDestruction` (`DestroyedIsNamed`), `RebuiltMeansWhole` (`RebuiltIsWhole`) and
  `GapNeverSilent` (`GapIsLoud`). `ChunksComplete`: the chunks tear down exactly the VPNs the
  question named. `ScriptSpeaks`: the markers are those of the chunks behind the place the
  script has come to, and a failure is the last of them and where it stands. `ReportTrue`: the report
  read from what has arrived of the markers says no more than that. `RebuiltToTheEnd`: only
  the last line of the output makes a report "rebuilt", and it is printed
  when every chunk is behind. The order in which a capture lists VPNs is a constant (`VpnOrder`, any
  enumeration of each set that names no VPN twice, `ListedOnce`); the code adds to it only that the
  default VPN is built first.
- `RerunIsTheRecovery` (`Recovers`), for any broker and whatever earlier imports have left of it,
  and for an artifact without CLI users (`NoUsers`; with them a re-run is refused, finding 6). It also
  assumes of the brokers an import starts from that no object is in a VPN that is not there
  (`ObjectsAreHoused`), which `EverythingHoused` keeps. First what the build makes of any plan
  (`WellBuilt`): every VPN that is there is torn down, and before anything is rebuilt in it;
  no two chunks that rebuild are about the same object; each object of the artifact is created
  by one chunk, after the VPN it is in. Then `CalmRun`, along the script of a run in which nothing
  fails and nobody interferes: the question, the captures and the script rest on a reading that still
  holds; at each chunk the broker is what was read, with the chunks behind applied (`Progress`),
  so the next is accepted (`NextChunkAccepted`), and when all are behind the broker
  is what the verify compares with (`ScriptDelivers`).
- `EveryStepShortens` (redundancy test) and `EveryStepComesNearer` (switch) are what can be proved of
  the two `RunsEnd`. A run of the switch is moved by its own steps only, and each of
  them, a failure included, takes it to a later stage, to another site or VPN, or to the next
  call of a write. A redundancy test gets no further from its end whatever the group does,
  and nearer with each step, by a count (`StepsLeft`) that the number of polls
  bounds. That a step is always possible, and taken, is left to TLC. So with `VerifyNeverMisses`
  and `VerifyCatches`: while a VPN is active at both sites, a verify either has found something
  wrong or has the site still ahead that should not be active (`HasItAhead`), and ends only in failure.
- `NothingIsDropped` (`NothingDropped`), `HostsFormOneGroup` (`GroupForms`), `AcceptedCommandsRun`
  (`CommandsStillPass`), `LoadedPathsAnchored` (`Anchored`) and `LoadedSitesMirror` (`SitesMirror`), for
  any hosts (finitely many), environments, files of the type `EnvFiles` and approvals. The
  invariant is short: what a host has loaded is the file, accepted (`LoadedAsAccepted`), and
  what it has deployed was rendered from that (`DeployedAsLoaded`). The work is in what `Load` does between the check and the use.
  `PreparedFields` follows each field through references, defaults and home directories,
  `LoadedHost` through the move of the paths that comes after the checks; what was
  checked is then compared with what is used, field by field: no two Secrets share a name
  (`SecretNamesApart`), so each is still what was built under it (`BuiltAsNamed`); no two of a container's
  secrets share a variable (`ContainerVariablesApart`); a router names one site (`RouterNamesItsSite`);
  two hosts that took one role would be two machines that fit one entry (`TwoAreTwo`); a name is
  held by a node that has it (`TableOfGroup`), and a host that knew itself by a name
  two nodes have would have matched both (`KnownByOwnName`).

Left to TLC. Every invariant and action property of the passing runs is stated by a theorem; the four
liveness properties (`RunsEnd` of both modules, `RerunsSucceed`, `VerifyCatches`) are out of
the prover's reach, which has neither fairness nor ENABLED. What `FoldToEnvVar`, a tier or the
kubelet make of one particular value is a table over a vocabulary in `ExecGuard` and `EnvFile`;
the theorems use that the checks and the uses read the same table, the run that the
entries are what they should be.

## 6. Not modelled

The appliance form of the mate lines and of an import; parsers of broker output (they are taken to
return what the broker holds, or an error, which is a failure action); two configure runs at
one broker line by line in the same script files; two deploys of the same broker on Kubernetes; `broker perform assert-leader`;
the decoding of YAML and the search for domain certificates in directories; the host preparation
edits; the status, check and preview reports; the conversion of old env files; the
wording of messages, except where a finding is about it; everything listed
`not_modelled` in `PROJECT.json`.

## 7. Plan

Done: the role switch with its abstract specification, configure at one broker, the container
host, the redundancy test, the Kubernetes broker, the shared operator and their theorems; the import with its
abstract specification and theorems; the env file, its hosts and their theorems.

Left, in this order:

1. The leader check (check, then assert), which acts on the group of `RedundancyTest`.
2. Composition of configure at both sites with the switch.
3. Two deploys of one broker on Kubernetes at the same time.
