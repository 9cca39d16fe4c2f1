--------------------------- MODULE ReplicationSwitch ---------------------------
(***************************************************************************)
(* `broker perform data-replication`: move the active replication role of  *)
(* message-VPNs between the two brokers of a DR pair.                      *)
(*                                                                         *)
(* Every invocation is a run r.  A run talks to each broker through one    *)
(* channel call at a time, so the grain of the model is one call at one    *)
(* site: several runs, started from either site and from env files that    *)
(* may disagree, interleave between any two calls, and so do an operator   *)
(* at a broker CLI and `configure data-replication` (the Outside actions). *)
(* Nothing locks the brokers.                                              *)
(*                                                                         *)
(* Over a CLI channel a role write is itself two calls that other runs can *)
(* come between: upload a script under a fixed file name, then execute     *)
(* whatever that file holds.  Over SEMP it is one.                         *)
(***************************************************************************)
EXTENDS Naturals

CONSTANTS
  Sites,       \* the two replication sites, by virtual-router-name
  VPNs,        \* replication.vpns, each VPN named by its place in the file
  Runs,        \* the invocations of the command
  Files,       \* the env files in use: [VPNs -> Sites], the activeAt of each VPN
  ViaCLI,      \* <<run, site>> pairs reached by CLI script; the rest is SEMP
  Overlap,     \* TRUE: runs may be in progress at the same time
  Lingering,   \* TRUE: a command may execute after its run has given up on it
  MaxFaults,   \* bound: calls that fail, in the whole behaviour
  MaxOutside   \* bound: changes made by somebody else

ASSUME SitesAssumption == \E a, b \in Sites : a # b /\ Sites = {a, b}
ASSUME VPNsAssumption == VPNs \subseteq Nat
ASSUME RunsAssumption == Runs # {}
ASSUME FilesAssumption == Files \subseteq [VPNs -> Sites]
ASSUME ViaCLIAssumption == ViaCLI \subseteq Runs \X Sites
ASSUME BoundsAssumption ==
  /\ Overlap \in BOOLEAN /\ Lingering \in BOOLEAN
  /\ MaxFaults \in Nat /\ MaxOutside \in Nat

VARIABLES
  (* the two brokers *)
  role,           \* role[s][v]: the configured replication role
  admin,          \* admin[s][v]: replication admin state; "none" if v is absent
  primaryActive,  \* primaryActive[s]: the primary HA node holds activity at s
  mateNamed,      \* mateNamed[s]: s names the file's other site as its mate
  script,         \* script[s]: the command in the set-role script file at s, if any
  late,           \* commands whose caller is gone but which may still execute
  (* each run *)
  pc,             \* pc[r]: the phase of run r
  file,           \* file[r]: the env file run r was given
  seen,           \* seen[r]: the sites already visited in this phase
  view,           \* view[r][s]: what run r last read of site s
  bad,            \* bad[r]: a check of this phase has already failed at a site
  moves,          \* moves[r]: the VPNs the plan moves
  todo,           \* todo[r]: the moves this write phase has still to make
  step,           \* step[r]: progress of the write in hand
  (* bounds *)
  faults, outside

brokerVars == <<role, admin, primaryActive, mateNamed>>
wireVars   == <<script, late>>
readVars   == <<seen, view, bad>>
writeVars  == <<moves, todo, step>>
boundVars  == <<faults, outside>>
vars == <<brokerVars, wireVars, pc, file, readVars, writeVars, boundVars>>

-------------------------------------------------------------------------------
(* Values *)

Role     == {"active", "standby", "n/a"}
Admin    == {"enabled", "shutdown", "none"}
Reading  == [admin : Admin, role : Role]
Settable == {"active", "standby"}
Command  == [site : Sites, vpn : VPNs, role : Settable]

Outcome == {"ok", "failed", "refused", "declined"}
Running == {"primary", "mate", "roles", "plan", "ask", "demote", "confirm",
            "reread", "promote", "verify"}
Phase   == {"idle"} \cup Running \cup Outcome

Other(s) == CHOOSE t \in Sites : t # s

Unread  == [admin |-> "none", role |-> "n/a"]
NoView  == [s \in Sites |-> [v \in VPNs |-> Unread]]

\* The role the file of run r gives v at site s.
Want(r, s, v) == IF file[r][v] = s THEN "active" ELSE "standby"

\* One broker's reply to `show message-vpn * replication`.
ReadRoles(s) == [v \in VPNs |-> [admin |-> admin[s][v], role |-> role[s][v]]]

-------------------------------------------------------------------------------
Init ==
  /\ admin \in [Sites -> [VPNs -> Admin]]
  /\ role \in [Sites -> [VPNs -> Role]]
  /\ \A s \in Sites, v \in VPNs : role[s][v] = "n/a" <=> admin[s][v] = "none"
  /\ primaryActive \in [Sites -> BOOLEAN]
  /\ mateNamed \in [Sites -> BOOLEAN]
  /\ script = [s \in Sites |-> {}]
  /\ late = {}
  /\ pc = [r \in Runs |-> "idle"]
  /\ file \in [Runs -> Files]
  /\ seen = [r \in Runs |-> {}]
  /\ view = [r \in Runs |-> NoView]
  /\ bad = [r \in Runs |-> FALSE]
  /\ moves = [r \in Runs |-> {}]
  /\ todo = [r \in Runs |-> {}]
  /\ step = [r \in Runs |-> "ready"]
  /\ faults = 0
  /\ outside = 0

-------------------------------------------------------------------------------
(* Moving between phases *)

\* Run r goes on to phase p with nothing read in it yet.
Enter(r, p) ==
  /\ pc' = [pc EXCEPT ![r] = p]
  /\ seen' = [seen EXCEPT ![r] = {}]
  /\ bad' = [bad EXCEPT ![r] = FALSE]

\* Run r is over; what it knew goes with its process.
Finish(r, o) ==
  /\ Enter(r, o)
  /\ view' = [view EXCEPT ![r] = NoView]
  /\ moves' = [moves EXCEPT ![r] = {}]
  /\ todo' = [todo EXCEPT ![r] = {}]
  /\ step' = [step EXCEPT ![r] = "ready"]

\* Broken on purpose: compares before the site is added.
LastOffByOne(r, s) == seen[r] = Sites

\* s is the last of the sites a phase has to visit.
Last(r, s) == seen[r] \cup {s} = Sites

Visit(r, s) == seen' = [seen EXCEPT ![r] = seen[r] \cup {s}]

-------------------------------------------------------------------------------
(* Before the first write *)

Start(r) ==
  /\ pc[r] = "idle"
  /\ Overlap \/ \A q \in Runs : pc[q] \notin Running
  /\ Enter(r, "primary")
  /\ UNCHANGED <<brokerVars, wireVars, file, view, writeVars, boundVars>>

\* A gate asks every site before it refuses, so that it can name all of them.
Gate(r, s, ok, next) ==
  /\ s \in Sites \ seen[r]
  /\ \/ /\ ~Last(r, s)
        /\ Visit(r, s)
        /\ bad' = [bad EXCEPT ![r] = bad[r] \/ ~ok]
        /\ UNCHANGED <<pc, view, writeVars>>
     \/ /\ Last(r, s) /\ (bad[r] \/ ~ok)
        /\ Finish(r, "refused")
     \/ /\ Last(r, s) /\ ~bad[r] /\ ok
        /\ Enter(r, next)
        /\ UNCHANGED <<view, writeVars>>
  /\ UNCHANGED <<brokerVars, wireVars, file, boundVars>>

CheckPrimaryActive(r, s) ==
  /\ pc[r] = "primary"
  /\ Gate(r, s, primaryActive[s], "mate")

CheckMateNamed(r, s) ==
  /\ pc[r] = "mate"
  /\ Gate(r, s, mateNamed[s], "roles")

\* Read the listed VPNs at s, and go on to phase next after the last site.
Read(r, s, next) ==
  /\ s \in Sites \ seen[r]
  /\ view' = [view EXCEPT ![r] = [view[r] EXCEPT ![s] = ReadRoles(s)]]
  /\ Visit(r, s)
  /\ pc' = [pc EXCEPT ![r] = IF Last(r, s) THEN next ELSE pc[r]]
  /\ UNCHANGED <<brokerVars, wireVars, file, bad, moves, step, boundVars>>

ReadBefore(r, s) ==
  /\ pc[r] = "roles"
  /\ Read(r, s, "plan")
  /\ UNCHANGED todo

-------------------------------------------------------------------------------
(* The plan, from the two readings *)

NotEnabled(r, v) == \E s \in Sites : view[r][s][v].admin # "enabled"
SplitAtRead(r, v) == \A s \in Sites : view[r][s][v].role = "active"

\* Broken on purpose: the plan no longer refuses a VPN that is active at both sites.
RefusalOfDownOnly(r) == \E v \in VPNs : NotEnabled(r, v)

Refusal(r) == \E v \in VPNs : NotEnabled(r, v) \/ SplitAtRead(r, v)

\* Broken on purpose: standby at the other site is taken for "already there".
AlreadyStandby(r, v) == view[r][Other(file[r][v])][v].role = "standby"

AlreadyCorrect(r, v) ==
  /\ view[r][file[r][v]][v].role = "active"
  /\ view[r][Other(file[r][v])][v].role = "standby"

Moves(r) == {v \in VPNs : ~AlreadyCorrect(r, v)}

Plan(r) ==
  /\ pc[r] = "plan"
  /\ \/ /\ Refusal(r)
        /\ Finish(r, "refused")
     \/ /\ ~Refusal(r) /\ Moves(r) = {}
        /\ Finish(r, "ok")
     \/ /\ ~Refusal(r) /\ Moves(r) # {}
        /\ moves' = [moves EXCEPT ![r] = Moves(r)]
        /\ view' = [view EXCEPT ![r] = NoView]
        /\ Enter(r, "ask")
        /\ UNCHANGED <<todo, step>>
  /\ UNCHANGED <<brokerVars, wireVars, file, boundVars>>

\* The exact-`yes` question; the operator may take any time to answer it.
Answer(r) ==
  /\ pc[r] = "ask"
  /\ \/ /\ todo' = [todo EXCEPT ![r] = moves[r]]
        /\ Enter(r, "demote")
        /\ UNCHANGED <<view, moves, step>>
     \/ Finish(r, "declined")
  /\ UNCHANGED <<brokerVars, wireVars, file, boundVars>>

-------------------------------------------------------------------------------
(* One role write: demote at the site the file does not name, promote at   *)
(* the one it does, in file order.                                         *)

NextWrite(r, v) ==
  /\ pc[r] \in {"demote", "promote"}
  /\ v \in todo[r]
  /\ \A w \in todo[r] : v <= w

\* Broken on purpose: the demotion goes to the wrong site.
WriteOfOneSite(r, v) ==
  [site |-> file[r][v], vpn |-> v,
   role |-> IF pc[r] = "demote" THEN "standby" ELSE "active"]
\* Broken on purpose: the promotion comes first.
WriteOfPromoteFirst(r, v) ==
  IF pc[r] = "demote"
  THEN [site |-> file[r][v], vpn |-> v, role |-> "active"]
  ELSE [site |-> Other(file[r][v]), vpn |-> v, role |-> "standby"]

WriteOf(r, v) ==
  IF pc[r] = "demote"
  THEN [site |-> Other(file[r][v]), vpn |-> v, role |-> "standby"]
  ELSE [site |-> file[r][v], vpn |-> v, role |-> "active"]

\* The reading taken before promoting shows v active somewhere again.
MovedSince(r, v) ==
  pc[r] = "promote" /\ \E s \in Sites : view[r][s][v].role = "active"

Apply(c) == role' = [role EXCEPT ![c.site] = [role[c.site] EXCEPT ![c.vpn] = c.role]]

PhaseAfter(p) == IF p = "demote" THEN "confirm" ELSE "verify"

\* The write of v is made; the phase ends with the last one.
Advance(r, v) ==
  /\ todo' = [todo EXCEPT ![r] = todo[r] \ {v}]
  /\ step' = [step EXCEPT ![r] = "ready"]
  /\ IF todo[r] = {v}
     THEN Enter(r, PhaseAfter(pc[r])) /\ view' = [view EXCEPT ![r] = NoView]
     ELSE UNCHANGED <<pc, readVars>>
  /\ UNCHANGED moves

\* CLI channel: put the command in the script file of that site ...
Upload(r, v) ==
  /\ NextWrite(r, v) /\ step[r] = "ready" /\ ~MovedSince(r, v)
  /\ <<r, WriteOf(r, v).site>> \in ViaCLI
  /\ script' = [script EXCEPT ![WriteOf(r, v).site] = {WriteOf(r, v)}]
  /\ step' = [step EXCEPT ![r] = "uploaded"]
  /\ UNCHANGED <<brokerVars, late, pc, file, readVars, moves, todo, boundVars>>

\* ... execute whatever the file holds by then ...
Execute(r, v) ==
  /\ NextWrite(r, v) /\ step[r] = "uploaded"
  /\ \E c \in script[WriteOf(r, v).site] : Apply(c)
  /\ step' = [step EXCEPT ![r] = "executed"]
  /\ UNCHANGED <<admin, primaryActive, mateNamed, wireVars, pc, file, readVars,
                 moves, todo, boundVars>>

\* ... which is nothing when another run has removed it, or the broker refuses
\* the line in words the transcript scan does not know ...
ExecuteNothing(r, v) ==
  /\ NextWrite(r, v) /\ step[r] = "uploaded"
  /\ \/ script[WriteOf(r, v).site] = {} /\ UNCHANGED faults
     \/ faults < MaxFaults /\ faults' = faults + 1
  /\ step' = [step EXCEPT ![r] = "executed"]
  /\ UNCHANGED <<brokerVars, wireVars, pc, file, readVars, moves, todo, outside>>

\* ... and remove the file.  A removal that fails is only warned about, and
\* leaves a file that the next upload replaces before anything reads it.
RemoveScript(r, v) ==
  /\ NextWrite(r, v) /\ step[r] = "executed"
  /\ script' = [script EXCEPT ![WriteOf(r, v).site] = {}]
  /\ Advance(r, v)
  /\ UNCHANGED <<brokerVars, late, file, boundVars>>

\* SEMP channel: one request, and code="ok" means that it was applied.
PostSEMP(r, v) ==
  /\ NextWrite(r, v) /\ step[r] = "ready" /\ ~MovedSince(r, v)
  /\ <<r, WriteOf(r, v).site>> \notin ViaCLI
  /\ Apply(WriteOf(r, v))
  /\ Advance(r, v)
  /\ UNCHANGED <<admin, primaryActive, mateNamed, wireVars, file, boundVars>>

-------------------------------------------------------------------------------
(* Confirm the demotions, re-read both sites once, promote, verify *)

Demoted(r, s) == {v \in moves[r] : Other(file[r][v]) = s}
DemotedAt(r)  == {s \in Sites : Demoted(r, s) # {}}
Confirmed(r, s) == \A v \in Demoted(r, s) : role[s][v] = "standby"

ConfirmDemotions(r, s) ==
  /\ pc[r] = "confirm"
  /\ s \in DemotedAt(r) \ seen[r]
  /\ \/ ~Confirmed(r, s) /\ Finish(r, "failed")
     \/ /\ Confirmed(r, s) /\ seen[r] \cup {s} # DemotedAt(r)
        /\ Visit(r, s)
        /\ UNCHANGED <<pc, view, bad, writeVars>>
     \/ /\ Confirmed(r, s) /\ seen[r] \cup {s} = DemotedAt(r)
        /\ Enter(r, "reread")
        /\ UNCHANGED <<view, writeVars>>
  /\ UNCHANGED <<brokerVars, wireVars, file, boundVars>>

Reread(r, s) ==
  /\ pc[r] = "reread"
  /\ Read(r, s, "promote")
  /\ todo' = [todo EXCEPT ![r] = IF Last(r, s) THEN moves[r] ELSE {}]

\* The next VPN to promote is active somewhere in that reading: stop here.
StopMoved(r, v) ==
  /\ NextWrite(r, v) /\ step[r] = "ready" /\ MovedSince(r, v)
  /\ Finish(r, "failed")
  /\ UNCHANGED <<brokerVars, wireVars, file, boundVars>>

\* Broken on purpose: the verify looks at the active roles only.
ActiveAsTheFileSays(r, s) == \A v \in VPNs : file[r][v] = s => role[s][v] = "active"
\* Broken on purpose: the verify looks at the standby roles only.
StandbyAsTheFileSays(r, s) == \A v \in VPNs : file[r][v] # s => role[s][v] = "standby"
\* Broken on purpose: the verify looks at the moved VPNs only.
MovesAsTheFileSays(r, s) == \A v \in moves[r] : role[s][v] = Want(r, s, v)

\* The end state is the exit code, for the skipped VPNs as well.
AsTheFileSays(r, s) == \A v \in VPNs : role[s][v] = Want(r, s, v)

Verify(r, s) ==
  /\ pc[r] = "verify"
  /\ s \in Sites \ seen[r]
  /\ \/ /\ ~Last(r, s)
        /\ Visit(r, s)
        /\ bad' = [bad EXCEPT ![r] = bad[r] \/ ~AsTheFileSays(r, s)]
        /\ UNCHANGED <<pc, view, writeVars>>
     \/ /\ Last(r, s)
        /\ Finish(r, IF bad[r] \/ ~AsTheFileSays(r, s) THEN "failed" ELSE "ok")
  /\ UNCHANGED <<brokerVars, wireVars, file, boundVars>>

-------------------------------------------------------------------------------
(* Failure *)

\* What a run that fails leaves of its script: an upload that broke off may have
\* arrived; after it the file is removed, unless the removal fails as well or
\* the process is killed.
ScriptLeft(r) ==
  \/ UNCHANGED script
  \/ \E v \in VPNs :
       /\ NextWrite(r, v) /\ <<r, WriteOf(r, v).site>> \in ViaCLI
       /\ \/ /\ step[r] = "ready" /\ ~MovedSince(r, v)
             /\ script' = [script EXCEPT ![WriteOf(r, v).site] = {WriteOf(r, v)}]
          \/ /\ step[r] # "ready"
             /\ script' = [script EXCEPT ![WriteOf(r, v).site] = {}]

\* A call is not answered, its reply is refused or unreadable, or the process
\* is killed, with nothing executed by the call in hand.
Fail(r) ==
  /\ pc[r] \in Running
  /\ faults < MaxFaults /\ faults' = faults + 1
  /\ ScriptLeft(r)
  /\ Finish(r, "failed")
  /\ UNCHANGED <<brokerVars, late, file, outside>>

\* The command that fails under run r while it is being executed.
InFlight(r, v) ==
  IF <<r, WriteOf(r, v).site>> \in ViaCLI
  THEN IF step[r] = "uploaded" THEN script[WriteOf(r, v).site] ELSE {}
  ELSE IF MovedSince(r, v) THEN {} ELSE {WriteOf(r, v)}

\* The same, but the broker has the command: it has executed it, or will.
FailInFlight(r, v) ==
  /\ NextWrite(r, v)
  /\ \E c \in InFlight(r, v) :
       \/ Apply(c) /\ UNCHANGED late
       \/ Lingering /\ late' = late \cup {c} /\ UNCHANGED role
  /\ faults < MaxFaults /\ faults' = faults + 1
  /\ ScriptLeft(r)
  /\ Finish(r, "failed")
  /\ UNCHANGED <<admin, primaryActive, mateNamed, file, outside>>

ExecuteLate(c) ==
  /\ c \in late
  /\ Apply(c)
  /\ late' = late \ {c}
  /\ UNCHANGED <<admin, primaryActive, mateNamed, script, pc, file, readVars,
                 writeVars, boundVars>>

-------------------------------------------------------------------------------
(* Somebody else: an operator at a broker CLI, `configure data-replication` *)
(* at one site, an HA failover within a site.                               *)

RunVars == <<wireVars, pc, file, readVars, writeVars, faults>>

OutsideRole(s, v) ==
  /\ outside < MaxOutside /\ outside' = outside + 1
  /\ admin[s][v] # "none"
  /\ \E x \in Settable : role[s][v] # x /\ Apply([site |-> s, vpn |-> v, role |-> x])
  /\ UNCHANGED <<admin, primaryActive, mateNamed, RunVars>>

OutsideAdmin(s, v) ==
  /\ outside < MaxOutside /\ outside' = outside + 1
  /\ admin[s][v] # "none"
  /\ admin' = [admin EXCEPT ![s] = [admin[s] EXCEPT
                 ![v] = IF admin[s][v] = "enabled" THEN "shutdown" ELSE "enabled"]]
  /\ UNCHANGED <<role, primaryActive, mateNamed, RunVars>>

OutsideFailover(s) ==
  /\ outside < MaxOutside /\ outside' = outside + 1
  /\ primaryActive' = [primaryActive EXCEPT ![s] = ~primaryActive[s]]
  /\ UNCHANGED <<role, admin, mateNamed, RunVars>>

OutsideMate(s) ==
  /\ outside < MaxOutside /\ outside' = outside + 1
  /\ mateNamed' = [mateNamed EXCEPT ![s] = ~mateNamed[s]]
  /\ UNCHANGED <<role, admin, primaryActive, RunVars>>

-------------------------------------------------------------------------------
RunStep(r) ==
  \/ \E s \in Sites : \/ CheckPrimaryActive(r, s) \/ CheckMateNamed(r, s)
                      \/ ReadBefore(r, s) \/ ConfirmDemotions(r, s)
                      \/ Reread(r, s) \/ Verify(r, s)
  \/ Plan(r) \/ Answer(r)
  \/ \E v \in VPNs : \/ Upload(r, v) \/ Execute(r, v) \/ ExecuteNothing(r, v)
                     \/ RemoveScript(r, v) \/ PostSEMP(r, v) \/ StopMoved(r, v)

RunFault(r) == Fail(r) \/ \E v \in VPNs : FailInFlight(r, v)

Somebody ==
  \E s \in Sites : \/ OutsideFailover(s) \/ OutsideMate(s)
                   \/ \E v \in VPNs : OutsideRole(s, v) \/ OutsideAdmin(s, v)

Next ==
  \/ \E r \in Runs : Start(r) \/ RunStep(r) \/ RunFault(r)
  \/ \E c \in late : ExecuteLate(c)
  \/ Somebody

Spec == Init /\ [][Next]_vars

-------------------------------------------------------------------------------
(* Properties *)

TypeOK ==
  /\ role \in [Sites -> [VPNs -> Role]]
  /\ admin \in [Sites -> [VPNs -> Admin]]
  /\ primaryActive \in [Sites -> BOOLEAN]
  /\ mateNamed \in [Sites -> BOOLEAN]
  /\ script \in [Sites -> SUBSET Command]
  /\ \A s \in Sites : \A c \in script[s] : c.site = s
  /\ late \subseteq Command
  /\ pc \in [Runs -> Phase]
  /\ file \in [Runs -> Files]
  /\ seen \in [Runs -> SUBSET Sites]
  /\ view \in [Runs -> [Sites -> [VPNs -> Reading]]]
  /\ bad \in [Runs -> BOOLEAN]
  /\ moves \in [Runs -> SUBSET VPNs]
  /\ todo \in [Runs -> SUBSET VPNs]
  /\ step \in [Runs -> {"ready", "uploaded", "executed"}]
  /\ faults \in Nat
  /\ outside \in Nat

\* v is active at both sites.
Split(v) == \A s \in Sites : role[s][v] = "active"

\* The pair is where file f wants it.
Matches(f) ==
  \A v \in VPNs : role[f[v]][v] = "active" /\ role[Other(f[v])][v] = "standby"

AllOver == \A r \in Runs : pc[r] \in Outcome

\* As far as this command is concerned: while nobody else writes, and as long
\* as every run is given the same env file, any number of runs that overlap and
\* fail anywhere move each VPN by giving the role up before taking it up
\* (switchplan.go: "no promotion begins until every demotion in the working
\* set has been confirmed").
holder == [v \in VPNs |-> {s \in Sites : role[s][v] = "active"}]
Pair == INSTANCE RolePair WITH holder <- holder
ImplementsRolePair == Pair!Spec

\* A VPN that is where the file wants it keeps its clients: as long as every run
\* is given that file, no run moves it away again, however stale its plan, nor
\* does a retry, nor a command that executes late (switchplan.go: "a single-VPN
\* failover leaves the other VPNs' clients connected").
Placed(r, v) ==
  role[file[r][v]][v] = "active" /\ role[Other(file[r][v])][v] = "standby"
PlacedStays == [][\A r \in Runs, v \in VPNs : Placed(r, v) => Placed(r, v)']_vars

\* Two runs given opposite files can promote a VPN at both sites; the verify
\* makes that somebody's exit code.  Once every run is over, a VPN left active
\* at both sites after some run succeeded means that another one failed.
SplitBrainReported ==
  AllOver /\ (\E r \in Runs : pc[r] = "ok") /\ (\E v \in VPNs : Split(v))
    => \E r \in Runs : pc[r] = "failed"

\* Without overlap and with nobody else writing, a run that reports success leaves
\* the pair as its file says: a reading taken before the last call still holds.
SuccessIsTrue ==
  [][\A r \in Runs : outside = 0 /\ pc[r] # "ok" /\ pc'[r] = "ok"
       => Matches(file[r])']_vars

\* Standby at both sites is a state to come back from: if every run had the same
\* file, none was declined, nobody else wrote and fewer runs failed than were
\* started, the pair ends as the file says.
RerunConverges ==
  /\ outside = 0 /\ AllOver
  /\ \A r \in Runs : pc[r] # "declined"
  /\ \A q, r \in Runs : file[q] = file[r]
 => \A r \in Runs : Matches(file[r])

\* No run is stuck, whatever anybody else does meanwhile: once started it comes to
\* one of its outcomes, because every wait in it is a broker call or a question that
\* is answered.
Fairness == \A r \in Runs : WF_vars(Start(r)) /\ WF_vars(RunStep(r))
RunsEnd == <>AllOver

\* A pair that passes every precheck but the reading of the roles ...
Healthy ==
  /\ admin = [s \in Sites |-> [v \in VPNs |-> "enabled"]]
  /\ primaryActive = [s \in Sites |-> TRUE]
  /\ mateNamed = [s \in Sites |-> TRUE]
HealthyInit == Init /\ Healthy
HealthySpec == HealthyInit /\ [][Next]_vars

\* ... and one that no VPN is active at both sites of.
ServingInit == HealthyInit /\ \A v \in VPNs : ~Split(v)
ServingSpec == ServingInit /\ [][Next]_vars /\ Fairness

\* switchplan.go: "the verify afterwards catches an arrival that lands after" the
\* re-read.  Whoever made a VPN active at both sites, and whichever site the verify
\* reads first, a run that begins to verify over a split brain fails, unless the
\* split brain ends while it verifies.
VerifyCatches ==
  \A r \in Runs, v \in VPNs :
    (pc[r] = "verify" /\ seen[r] = {} /\ Split(v))
      ~> (pc[r] = "failed" \/ (pc[r] = "verify" /\ ~Split(v)))

-------------------------------------------------------------------------------
(* Why a switch never makes two actives: the inductive strengthening of     *)
(* ImplementsRolePair, for one env file and nobody else writing.            *)

OneEnvFile == \A f, g \in Files : f = g

HoldsReadings == {"roles", "plan", "reread", "promote"}

\* Nobody but its runs can make v active at the site the file does not name,
\* and they never do: so a reading "not active there" stays true, ...
ReadingsHold ==
  \A r \in Runs : pc[r] \in HoldsReadings =>
    \A s \in seen[r], v \in VPNs :
      /\ s = Other(file[r][v]) /\ view[r][s][v].role # "active" => role[s][v] # "active"
      /\ Split(v) => view[r][s][v].role = "active"

\* ... both sites are read before anything follows from the readings, ...
BothRead == \A r \in Runs : pc[r] \in {"plan", "promote"} => seen[r] = Sites

\* ... a VPN active at both sites is in nobody's plan, ...
SplitNotPlanned == \A r \in Runs, v \in VPNs : Split(v) => v \notin moves[r] \cup todo[r]

\* ... and a command that may still execute is safe whenever it does.
Safe(c) ==
  /\ \A r \in Runs : c.site = IF c.role = "active" THEN file[r][c.vpn]
                                                   ELSE Other(file[r][c.vpn])
  /\ c.role = "active" => role[Other(c.site)][c.vpn] # "active"
  /\ ~Split(c.vpn)

CommandsSafe ==
  /\ \A c \in late : Safe(c)
  /\ \A s \in Sites : \A c \in script[s] : Safe(c)

NeverTwoActives == ReadingsHold /\ BothRead /\ SplitNotPlanned /\ CommandsSafe
===============================================================================
