----------------------------- MODULE RedundancyTest -----------------------------
(***************************************************************************)
(* `broker perform redundancy-test`: release the primary, wait until the   *)
(* backup has taken over, un-release, wait, revert the backup, wait until  *)
(* activity is home.                                                       *)
(*                                                                         *)
(* On Kubernetes both nodes are read; on a container host only the         *)
(* primary, whose report of its mate stands in for the backup, and the     *)
(* revert goes to the mate over SEMP.  Each reading and each command is a  *)
(* step.  The group moves by itself between them.                          *)
(***************************************************************************)
EXTENDS Naturals, FiniteSets

CONSTANTS
  Runs,         \* invocations
  Attempts,     \* PollAttempts
  MaxFaults,    \* bound: calls that fail
  MaxOutside    \* bound: nodes lost and returned, operators at the brokers

ASSUME AttemptsAssumption == Attempts \in Nat \ {0}
ASSUME BoundsAssumption == MaxFaults \in Nat /\ MaxOutside \in Nat

VARIABLES
  mode,       \* "cluster": both nodes are read; "host": the primary alone
  alone,      \* at most one run at a time
  (* the group *)
  released,   \* the primary's Configuration Status is Enabled-Released
  up,         \* the primary's Redundancy Status is Up
  holder,     \* the node that holds activity
  seen,       \* the primary takes its mate for active
  reverting,  \* the backup is to give activity back
  mate,       \* the backup is there, and linked to the primary
  (* each run *)
  pc,
  tries,      \* unsuccessful polls of the wait in hand
  reading,    \* a reading of the primary that is still to be used
  tookOver,   \* history: the backup has held activity, or was giving it back, since
              \* the run began
  (* bounds *)
  faults, outside

groupVars == <<released, up, holder, seen, reverting, mate>>
runVars   == <<pc, tries, reading, tookOver>>
fixedVars == <<mode, alone>>
vars == <<fixedVars, groupVars, runVars, faults, outside>>

Over  == {"idle", "ok", "refused", "failed"}
Phase == Over \cup {"health", "preflight", "release", "released", "noRelease", "unreleased",
                    "backup", "revert", "home"}

-------------------------------------------------------------------------------
(* What `show redundancy` says                                               *)

EnabledUp == ~released /\ up
LocalActive == holder = "primary"
MateActive == holder # "primary" /\ seen

\* The fields of a reading of the primary that the conditions use.
Primary == [config |-> IF released THEN "Enabled-Released" ELSE "Enabled",
            up |-> up, local |-> LocalActive, mateActive |-> MateActive, link |-> mate]
Unread == [config |-> "", up |-> FALSE, local |-> FALSE, mateActive |-> FALSE, link |-> FALSE]

Up(p) == p.config = "Enabled" /\ p.up
Healthy(p) == Up(p) /\ p.link

-------------------------------------------------------------------------------
Init ==
  /\ mode \in {"cluster", "host"} /\ alone \in BOOLEAN
  /\ released = FALSE /\ up = TRUE /\ mate = TRUE
  /\ \/ holder = "primary" /\ seen = FALSE
     \/ holder = "backup" /\ seen = TRUE
  /\ reverting = FALSE
  /\ pc = [r \in Runs |-> "idle"] /\ tries = [r \in Runs |-> 0]
  /\ reading = [r \in Runs |-> Unread] /\ tookOver = [r \in Runs |-> FALSE]
  /\ faults = 0 /\ outside = 0

Goto(r, p) == pc' = [pc EXCEPT ![r] = p] /\ tries' = [tries EXCEPT ![r] = 0]

\* Broken on purpose: no ceiling.
StayForever(r) == UNCHANGED <<pc, tries>>

Stay(r) ==
  /\ tries' = [tries EXCEPT ![r] = @ + 1]
  /\ pc' = [pc EXCEPT ![r] = IF tries[r] + 1 = Attempts THEN "failed" ELSE @]

ReadPrimary(r) == reading' = [reading EXCEPT ![r] = Primary]
Quiet == UNCHANGED <<fixedVars, faults, outside>>

-------------------------------------------------------------------------------
(* The steps of a run                                                        *)

Begin(r) ==
  /\ pc[r] \in Over
  /\ alone => \A s \in Runs : pc[s] \in Over
  /\ Goto(r, "health")
  /\ reading' = [reading EXCEPT ![r] = Unread]
  /\ tookOver' = [tookOver EXCEPT ![r] = holder = "backup" \/ reverting]
  /\ UNCHANGED groupVars /\ Quiet

AfterHealth(p) == IF p.local THEN "release" ELSE "backup"

CheckHealth(r) ==
  /\ pc[r] = "health"
  /\ IF mode = "host" THEN ReadPrimary(r) ELSE UNCHANGED reading
  /\ Goto(r, IF ~Healthy(Primary) THEN "refused"
             ELSE IF mode = "host" THEN "preflight" ELSE AfterHealth(Primary))
  /\ UNCHANGED <<groupVars, tookOver>> /\ Quiet

\* The mate's SEMP is tried before anything is changed; what is done next is
\* decided by the reading of before.
Preflight(r) ==
  /\ pc[r] = "preflight"
  /\ Goto(r, IF mate THEN AfterHealth(reading[r]) ELSE "failed")
  /\ reading' = [reading EXCEPT ![r] = Unread]
  /\ UNCHANGED <<groupVars, tookOver>> /\ Quiet

Release(r) ==
  /\ pc[r] = "release"
  /\ released' = TRUE
  /\ Goto(r, "released")
  /\ UNCHANGED <<up, holder, seen, reverting, mate, reading, tookOver>> /\ Quiet

IsReleased(p) == p.config = "Enabled-Released" /\ ~p.up /\ p.mateActive

PollReleased(r) ==
  /\ pc[r] = "released"
  /\ IF IsReleased(Primary) THEN Goto(r, "noRelease") ELSE Stay(r)
  /\ UNCHANGED <<groupVars, reading, tookOver>> /\ Quiet

NoRelease(r) ==
  /\ pc[r] = "noRelease"
  /\ released' = FALSE
  /\ Goto(r, "unreleased")
  /\ UNCHANGED <<up, holder, seen, reverting, mate, reading, tookOver>> /\ Quiet

\* On Kubernetes a poll reads the primary, then the backup; on a host the primary.
PollPrimary(r) ==
  /\ pc[r] \in {"unreleased", "home"} /\ mode = "cluster" /\ reading[r] = Unread
  /\ ReadPrimary(r)
  /\ UNCHANGED <<groupVars, pc, tries, tookOver>> /\ Quiet

\* Broken on purpose: the primary may still be on its way up.
IsUnreleasedEarly(p, backup) == p.config = "Enabled" /\ p.mateActive

IsUnreleased(p, backup) == Up(p) /\ p.mateActive /\ (mode = "cluster" => backup)

\* Broken on purpose: it is enough that the mate is not active.
IsHomeByMate(p, backup) == Up(p) /\ ~p.mateActive

IsHome(p, backup) ==
  Up(p) /\ ~p.mateActive /\ p.local /\ (mode = "cluster" => ~backup)

\* What a poll knows of the primary.
Polled(r) == IF mode = "cluster" THEN reading[r] ELSE Primary

Poll(r, found, next) ==
  /\ Polled(r) # Unread
  /\ IF mode = "cluster" /\ ~mate THEN Goto(r, "failed")
     ELSE IF found THEN Goto(r, next) ELSE Stay(r)
  /\ reading' = [reading EXCEPT ![r] = Unread]
  /\ UNCHANGED <<groupVars, tookOver>> /\ Quiet

PollUnreleased(r) ==
  pc[r] = "unreleased" /\ Poll(r, IsUnreleased(Polled(r), holder = "backup"), "backup")

\* Broken on purpose: if the primary is not active, then the backup is.
BackupActiveAssumed == ~LocalActive

\* On a host the primary answers for the backup.
BackupActive == IF mode = "cluster" THEN mate /\ holder = "backup" ELSE MateActive

CheckBackup(r) ==
  /\ pc[r] = "backup"
  /\ Goto(r, IF BackupActive THEN "revert" ELSE "failed")
  /\ UNCHANGED <<groupVars, reading, tookOver>> /\ Quiet

\* Whether a backup that is standby accepts a revert is not known.
Revert(r) ==
  /\ pc[r] = "revert" /\ mate
  /\ reverting' = (reverting \/ holder = "backup")
  /\ \/ Goto(r, "home")
     \/ holder # "backup" /\ Goto(r, "failed")
  /\ UNCHANGED <<released, up, holder, seen, mate, reading, tookOver>> /\ Quiet

PollHome(r) == pc[r] = "home" /\ Poll(r, IsHome(Polled(r), holder = "backup"), "ok")

-------------------------------------------------------------------------------
(* Failure of a call, or the end of the process; the command may have got through. *)

Fault == faults < MaxFaults /\ faults' = faults + 1 /\ UNCHANGED <<fixedVars, outside>>

Fail(r) ==
  /\ pc[r] \notin Over /\ Fault
  /\ Goto(r, "failed")
  /\ UNCHANGED <<groupVars, reading, tookOver>>

FailInFlight(r) ==
  /\ Fault /\ Goto(r, "failed")
  /\ \/ pc[r] = "release" /\ released' = TRUE /\ UNCHANGED reverting
     \/ pc[r] = "noRelease" /\ released' = FALSE /\ UNCHANGED reverting
     \/ pc[r] = "revert" /\ mate /\ holder = "backup" /\ reverting' = TRUE /\ UNCHANGED released
  /\ UNCHANGED <<up, holder, seen, mate, reading, tookOver>>

\* The mate cannot be reached.
NoMate(r) ==
  /\ pc[r] = "revert" /\ ~mate
  /\ Goto(r, "failed")
  /\ UNCHANGED <<groupVars, reading, tookOver>> /\ Quiet

-------------------------------------------------------------------------------
(* The group                                                                 *)

GroupStep == UNCHANGED <<mode, alone, pc, tries, reading, faults, outside>>

Move(h) ==
  /\ holder' = h
  /\ tookOver' = [r \in Runs |-> tookOver[r] \/ h = "backup"]

\* A released primary gives activity up and goes down.
GiveUp ==
  /\ released /\ (up \/ holder = "primary")
  /\ up' = FALSE
  /\ Move(IF holder = "primary" THEN "none" ELSE holder)
  /\ UNCHANGED <<released, seen, reverting, mate>> /\ GroupStep

BackupTakes ==
  /\ holder = "none" /\ mate /\ (reverting => ~EnabledUp)
  /\ Move("backup") /\ reverting' = FALSE
  /\ UNCHANGED <<released, up, seen, mate>> /\ GroupStep

PrimaryTakes ==
  /\ holder = "none" /\ ~released
  /\ Move("primary") /\ seen' = FALSE /\ reverting' = FALSE
  /\ UNCHANGED <<released, up, mate>> /\ GroupStep

\* The primary hears what its mate is.
Hello ==
  /\ seen # (mate /\ holder = "backup")
  /\ seen' = ~seen
  /\ UNCHANGED <<released, up, holder, reverting, mate, tookOver>> /\ GroupStep

\* An enabled primary whose mate is there comes up; without its mate it goes down.
Settle ==
  /\ ~released /\ up # mate
  /\ up' = mate
  /\ UNCHANGED <<released, holder, seen, reverting, mate, tookOver>> /\ GroupStep

\* A revert takes place if the primary is ready, and is forgotten otherwise.
GiveBack ==
  /\ reverting /\ holder = "backup"
  /\ IF EnabledUp THEN Move("none") /\ UNCHANGED reverting
                  ELSE reverting' = FALSE /\ UNCHANGED <<holder, tookOver>>
  /\ UNCHANGED <<released, up, seen, mate>> /\ GroupStep

-------------------------------------------------------------------------------
(* Others                                                                    *)

Outside == outside < MaxOutside /\ outside' = outside + 1
           /\ UNCHANGED <<fixedVars, pc, tries, reading, faults>>

LoseMate ==
  /\ mate /\ mate' = FALSE /\ Outside
  /\ reverting' = FALSE
  /\ Move(IF holder = "backup" THEN "none" ELSE holder)
  /\ UNCHANGED <<released, up, seen>>

\* The primary has noticed the loss by then: hellos are faster than a restart.
MateReturns ==
  /\ ~mate /\ ~seen /\ mate' = TRUE
  /\ UNCHANGED <<released, up, holder, seen, reverting, tookOver>> /\ GroupStep

\* `no redundancy release-activity` by hand.
Restore ==
  /\ released /\ released' = FALSE /\ Outside
  /\ UNCHANGED <<up, holder, seen, reverting, mate, tookOver>>

-------------------------------------------------------------------------------
RunStep(r) ==
  \/ CheckHealth(r) \/ Preflight(r) \/ Release(r) \/ PollReleased(r) \/ NoRelease(r)
  \/ PollPrimary(r) \/ PollUnreleased(r) \/ CheckBackup(r) \/ Revert(r) \/ PollHome(r)
  \/ NoMate(r)

Next ==
  \/ \E r \in Runs : Begin(r) \/ RunStep(r) \/ Fail(r) \/ FailInFlight(r)
  \/ GiveUp \/ BackupTakes \/ PrimaryTakes \/ Hello \/ Settle \/ GiveBack
  \/ LoseMate \/ MateReturns \/ Restore

Spec == Init /\ [][Next]_vars

\* Each call of a run returns, or fails.
FairSpec == Spec /\ \A r \in Runs : WF_vars(RunStep(r))

-------------------------------------------------------------------------------
(* Properties *)

Reading == [config : {"", "Enabled", "Enabled-Released"}, up : BOOLEAN, local : BOOLEAN,
            mateActive : BOOLEAN, link : BOOLEAN]

GroupType ==
  /\ mode \in {"cluster", "host"} /\ alone \in BOOLEAN
  /\ released \in BOOLEAN /\ up \in BOOLEAN /\ seen \in BOOLEAN
  /\ reverting \in BOOLEAN /\ mate \in BOOLEAN
  /\ holder \in {"primary", "backup", "none"}

RunType ==
  /\ pc \in [Runs -> Phase] /\ tries \in [Runs -> 0..Attempts]
  /\ reading \in [Runs -> Reading] /\ tookOver \in [Runs -> BOOLEAN]

\* The variables keep their types; no wait polls more than PollAttempts times.
TypeOK ==
  /\ GroupType /\ RunType
  /\ faults \in 0..MaxFaults /\ outside \in 0..MaxOutside

Ends(r, p) == pc[r] # p /\ pc'[r] = p

\* "Reverted back to Primary node successfully" is said after a failover: the backup
\* has held activity during this run, or was giving it back as the run began, also
\* if runs overlap, calls fail and nodes go (Redundancy, RedundancyCoordinated).
SuccessMeansFailover == [][\A r \in Runs : Ends(r, "ok") => tookOver[r]]_vars

\* If nobody else acts, success leaves the group as it should be: the primary holds
\* activity, enabled and up, although the two nodes are read one after the other.
SuccessIsHome ==
  [][\A r \in Runs : Ends(r, "ok") /\ alone /\ outside' = 0
       => holder = "primary" /\ EnabledUp]_vars

\* The backup is told to give activity up only when the primary has it already or
\* can take it, whatever earlier runs were cut short, if nobody else acts.
RevertFindsPrimaryReady ==
  [][\A r \in Runs : pc[r] = "revert" /\ pc'[r] = "home" /\ alone /\ outside' = 0
       => holder = "primary" \/ EnabledUp]_vars

\* Every run ends, whatever the group does: each wait has its ceiling.
RunsEnd == \A r \in Runs : pc[r] \notin Over ~> pc[r] \in Over

\* "Restore it ... or simply re-run `broker perform redundancy-test` once the cause is
\* fixed" (docs/operations.md): no run is refused for what an earlier one has left.
RerunIsNotRefused ==
  [][\A r \in Runs : Ends(r, "refused") /\ alone /\ outside' = 0 => ~released]_vars
===============================================================================
