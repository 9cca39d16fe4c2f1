-------------------------- MODULE ReplicationConfigure --------------------------
(***************************************************************************)
(* `broker configure data-replication`: converge one broker to the env     *)
(* file's replication block.                                               *)
(*                                                                         *)
(* A run reads the broker twice (its mate, then its VPNs), decides, and    *)
(* sends at most two scripts.  The broker executes a script line by line   *)
(* and stops at the first line it refuses; nothing is rolled back.  A      *)
(* script whose caller has lost contact goes on executing inside the       *)
(* broker.  A run that failed is simply run again.                         *)
(*                                                                         *)
(* What the broker accepts is external: the rules are those the source     *)
(* states and builds its two phases around.  Modelled for the software     *)
(* broker's grammar.                                                       *)
(***************************************************************************)
EXTENDS Naturals, FiniteSets

CONSTANTS
  VPNs,            \* the VPNs of the broker, in file order and then by name
  Listed,          \* replication.vpns
  ActiveHere,      \* the listed VPNs whose activeAt is this site
  Addrs,           \* mate endpoints (host, port and transport)
  Names,           \* virtual-router-names
  NoName,          \* ... and none
  MateName,        \* the mate's name and endpoints in the env file
  MateAddrs,
  QueueTracksRole, \* TRUE: a role change makes or drops the replication queue
  MaxRefusals,     \* bound: lines refused for a reason in the environment
  MaxFaults,       \* bound: calls that fail
  MaxOrphans,      \* bound: scripts that go on executing without their caller
  MaxOutside       \* bound: changes made by somebody else

ASSUME VPNsAssumption ==
  VPNs \subseteq Nat /\ Listed \subseteq VPNs /\ ActiveHere \subseteq Listed
ASSUME MateAssumption ==
  /\ NoName \notin Names /\ MateName \in Names
  /\ MateAddrs \subseteq Addrs /\ MateAddrs # {}
ASSUME BoundsAssumption ==
  /\ QueueTracksRole \in BOOLEAN
  /\ MaxRefusals \in Nat /\ MaxFaults \in Nat /\ MaxOrphans \in Nat /\ MaxOutside \in Nat

VARIABLES
  (* the broker *)
  name,      \* the mate's virtual-router-name
  addrs,     \* the mate's endpoints
  admin,     \* admin[v]: replication admin state; "none" if v is absent
  role,      \* role[v]: the replication role
  queue,     \* queue[v]: v has a replication queue
  orphans,   \* what is left of the scripts that execute without their caller
  (* the run *)
  pc,
  have,      \* the mate it read
  view,      \* the VPNs it read
  script,    \* what is left of the script it waits for
  alone,     \* nobody else has written to the broker since it began (history)
  (* bounds *)
  refusals, faults, outside

brokerVars == <<name, addrs, admin, role, queue>>
runVars    == <<pc, have, view, script>>
boundVars  == <<refusals, faults, outside>>
vars == <<brokerVars, orphans, runVars, alone, boundVars>>

-------------------------------------------------------------------------------
(* Values *)

Admin == {"enabled", "shutdown", "none"}
Role  == {"active", "standby", "n/a"}
Mates == [name : Names \cup {NoName}, addrs : SUBSET Addrs]
Views == [VPNs -> [admin : Admin, queue : BOOLEAN]]

VPNLine  == [op : {"stop", "state", "enable", "force", "shutdown"}, arg : VPNs]
MateLine == [op : {"noVia", "via"}, arg : Addrs] \cup [op : {"noName", "name"}, arg : Names]
Line     == VPNLine \cup MateLine
Script   == SUBSET Line

Over  == {"idle", "declined", "refused", "failed", "ok"}
Phase == Over \cup {"ask", "mate", "vpns", "phase1", "phase2"}

L(op, arg) == [op |-> op, arg |-> arg]

RoleAtSite(v) == IF v \in ActiveHere THEN "active" ELSE "standby"

\* The order of the lines of a script: by stage; in the VPN stage by VPN, and of
\* one VPN the role before the enable.
Stage == [stop |-> 1, noVia |-> 2, noName |-> 3, via |-> 4, name |-> 5,
          state |-> 6, enable |-> 6, force |-> 6, shutdown |-> 7]

\* Broken on purpose: a VPN is enabled before it is given its role.
BeforeEnablingFirst(k, l) ==
  \/ Stage[k.op] < Stage[l.op]
  \/ /\ Stage[k.op] = 6 /\ Stage[l.op] = 6
     /\ k.arg < l.arg \/ (k.arg = l.arg /\ k.op # "state" /\ l.op = "state")

Before(k, l) ==
  \/ Stage[k.op] < Stage[l.op]
  \/ /\ Stage[k.op] = 6 /\ Stage[l.op] = 6
     /\ k.arg < l.arg \/ (k.arg = l.arg /\ k.op = "state" /\ l.op # "state")

NextLines(s) == {l \in s : \A k \in s : ~Before(k, l)}

-------------------------------------------------------------------------------
Init ==
  /\ name \in Names \cup {NoName}
  /\ addrs \in SUBSET Addrs
  /\ admin \in [VPNs -> Admin]
  /\ role \in [VPNs -> Role]
  /\ queue \in [VPNs -> BOOLEAN]
  /\ \A v \in VPNs : admin[v] = "none" => role[v] = "n/a" /\ ~queue[v]
  /\ orphans = {}
  /\ pc = "idle"
  /\ have = [name |-> NoName, addrs |-> {}]
  /\ view = [v \in VPNs |-> [admin |-> "none", queue |-> FALSE]]
  /\ script = {}
  /\ alone = TRUE
  /\ refusals = 0 /\ faults = 0 /\ outside = 0

-------------------------------------------------------------------------------
(* The broker *)

\* The mate can only be changed while replication is enabled on no VPN, and a
\* name does not replace another one; a VPN line needs its VPN; each form of
\* `no shutdown` is refused in the case the other one is for.
Accepts(l) ==
  CASE l.op \in {"noVia", "via", "noName"} -> \A v \in VPNs : admin[v] # "enabled"
    [] l.op = "name" -> /\ \A v \in VPNs : admin[v] # "enabled"
                        /\ name \in {NoName, l.arg}
    [] l.op = "enable" -> admin[l.arg] # "none" /\ (admin[l.arg] = "enabled" \/ ~queue[l.arg])
    [] l.op = "force" -> admin[l.arg] # "none" /\ (admin[l.arg] = "enabled" \/ queue[l.arg])
    [] OTHER -> admin[l.arg] # "none"

\* The queue an active VPN needs is made when replication is enabled; whether a
\* role change alone makes and drops it is not known from the source.
QueueAfter(v, r, a) ==
  IF QueueTracksRole THEN r = "active" ELSE queue[v] \/ (a = "enabled" /\ r = "active")

Effect(l) ==
  /\ name' = CASE l.op = "name" -> l.arg [] l.op = "noName" -> NoName [] OTHER -> name
  /\ addrs' = CASE l.op = "via" -> addrs \cup {l.arg} [] l.op = "noVia" -> addrs \ {l.arg}
                [] OTHER -> addrs
  /\ admin' = CASE l.op \in {"stop", "shutdown"} -> [admin EXCEPT ![l.arg] = "shutdown"]
                [] l.op \in {"enable", "force"} -> [admin EXCEPT ![l.arg] = "enabled"]
                [] OTHER -> admin
  /\ role' = IF l.op = "state" THEN [role EXCEPT ![l.arg] = RoleAtSite(l.arg)] ELSE role
  /\ queue' = IF l.op \in {"state", "enable", "force"}
              THEN [queue EXCEPT ![l.arg] = QueueAfter(l.arg, role'[l.arg], admin'[l.arg])]
              ELSE queue

-------------------------------------------------------------------------------
(* The two scripts, from the two readings *)

EnabledIn(vw) == {v \in VPNs : vw[v].admin = "enabled"}

Removals(m) ==
  {L("noVia", a) : a \in m.addrs \ MateAddrs}
    \cup {L("noName", n) : n \in {m.name} \ {NoName, MateName}}

\* Broken on purpose: the mate counts as matching when there is nothing to remove.
MateDiffersByRemovals(m) == m.name # MateName \/ Removals(m) # {}
\* Broken on purpose: it never counts as matching.
MateDiffersAlways(m) == m \in Mates

MateDiffers(m) == m.name # MateName \/ m.addrs # MateAddrs

\* Broken on purpose: phase 1 stops the listed VPNs only.
MatePhaseOfListed(m, vw) ==
  {L("stop", v) : v \in EnabledIn(vw) \cap Listed} \cup Removals(m)
    \cup {L("via", a) : a \in MateAddrs} \cup {L("name", MateName)}

\* Phase 1: stop replication everywhere, clear what is not wanted, name the mate.
MatePhase(m, vw) ==
  {L("stop", v) : v \in EnabledIn(vw)} \cup Removals(m)
    \cup {L("via", a) : a \in MateAddrs} \cup {L("name", MateName)}

\* Broken on purpose: the keyword comes from the admin column.
ReenableLineByAdmin(v, vw) == L(IF vw[v].admin = "enabled" THEN "force" ELSE "enable", v)

\* The keyword comes from the queue column of the reading.
ReenableLine(v, vw) == L(IF vw[v].queue THEN "force" ELSE "enable", v)

\* Phase 2: the role of every listed VPN in place; an enable for those that were
\* down or that phase 1 took down; a shutdown for the unlisted ones still up.
VPNPhase(vw, stopped) ==
  {L("state", v) : v \in Listed}
    \cup {ReenableLine(v, vw) : v \in {u \in Listed : vw[u].admin # "enabled" \/ stopped}}
    \cup (IF stopped THEN {} ELSE {L("shutdown", v) : v \in EnabledIn(vw) \ Listed})

-------------------------------------------------------------------------------
(* The run *)

\* The first run, or the next one: after a failure, or some other day.  It finds
\* out which site this broker is, then asks its one question.
Start ==
  /\ pc \in {"idle", "failed", "ok"}
  /\ pc' = "ask"
  /\ alone' = TRUE
  /\ UNCHANGED <<brokerVars, orphans, have, view, script, boundVars>>

Answer ==
  /\ pc = "ask"
  /\ pc' \in {"mate", "declined"}
  /\ UNCHANGED <<brokerVars, orphans, alone, have, view, script, boundVars>>

ReadMate ==
  /\ pc = "mate"
  /\ have' = [name |-> name, addrs |-> addrs]
  /\ pc' = "vpns"
  /\ UNCHANGED <<brokerVars, orphans, view, script, alone, boundVars>>

\* Send a script, or skip the phase that would be empty.
Send(phase, s) ==
  /\ script' = s
  /\ pc' = IF s = {} THEN "ok" ELSE phase

\* Read every VPN, refuse a file that lists one the broker does not have, and
\* send the first script there is something to say in.
ReadVPNs ==
  /\ pc = "vpns"
  /\ view' = [v \in VPNs |-> [admin |-> admin[v], queue |-> queue[v]]]
  /\ \/ /\ \E v \in Listed : admin[v] = "none"
        /\ pc' = "refused"
        /\ UNCHANGED script
     \/ /\ \A v \in Listed : admin[v] # "none"
        /\ IF MateDiffers(have) THEN Send("phase1", MatePhase(have, view'))
                                ELSE Send("phase2", VPNPhase(view', FALSE))
  /\ UNCHANGED <<brokerVars, orphans, have, alone, boundVars>>

\* The script is through: phase 2 follows phase 1, success follows phase 2.
ScriptDone ==
  IF pc = "phase1" THEN Send("phase2", VPNPhase(view, TRUE))
  ELSE script' = {} /\ pc' = "ok"

\* The broker executes the next line of the script the run waits for ...
ExecuteLine(l) ==
  /\ pc \in {"phase1", "phase2"}
  /\ l \in NextLines(script)
  /\ Accepts(l) /\ Effect(l)
  /\ IF script = {l} THEN ScriptDone ELSE script' = script \ {l} /\ UNCHANGED pc
  /\ UNCHANGED <<orphans, have, view, alone, boundVars>>

\* ... or refuses it, by its own rules or for a reason in the environment, and
\* stops there.  Nothing is rolled back.
RefuseLine(l) ==
  /\ pc \in {"phase1", "phase2"}
  /\ l \in NextLines(script)
  /\ \/ ~Accepts(l) /\ UNCHANGED refusals
     \/ refusals < MaxRefusals /\ refusals' = refusals + 1
  /\ pc' = "failed"
  /\ script' = {}
  /\ UNCHANGED <<brokerVars, orphans, have, view, alone, faults, outside>>

\* A call is not answered.  Of a script in hand the broker may have nothing
\* left, because it never got it or was cut off; or it goes on without the run.
LoseContact ==
  /\ pc \in Phase \ Over
  /\ faults < MaxFaults /\ faults' = faults + 1
  /\ pc' = "failed"
  /\ script' = {}
  /\ \/ UNCHANGED orphans
     \/ /\ script # {} /\ Cardinality(orphans) < MaxOrphans
        /\ orphans' = orphans \cup {script}
  /\ UNCHANGED <<brokerVars, have, view, alone, refusals, outside>>

OrphanLine(s, l) ==
  /\ s \in orphans /\ l \in NextLines(s)
  /\ \/ /\ Accepts(l) /\ Effect(l)
        /\ orphans' = (orphans \ {s}) \cup ({s \ {l}} \ {{}})
     \/ /\ ~Accepts(l) /\ UNCHANGED brokerVars
        /\ orphans' = orphans \ {s}
  /\ alone' = FALSE
  /\ UNCHANGED <<runVars, boundVars>>

-------------------------------------------------------------------------------
(* Somebody else: an operator at the broker, or a role switch from the mate *)

OutsideVPN(v) ==
  /\ outside < MaxOutside /\ outside' = outside + 1
  /\ admin[v] # "none"
  /\ \/ \E x \in {"active", "standby"} : role' = [role EXCEPT ![v] = x] /\ UNCHANGED admin
     \/ \E x \in {"enabled", "shutdown"} : admin' = [admin EXCEPT ![v] = x] /\ UNCHANGED role
     \/ admin' = [admin EXCEPT ![v] = "none"] /\ role' = [role EXCEPT ![v] = "n/a"]
  /\ queue' = [queue EXCEPT ![v] = admin'[v] # "none" /\ QueueAfter(v, role'[v], admin'[v])]
  /\ alone' = FALSE
  /\ UNCHANGED <<name, addrs, orphans, runVars, refusals, faults>>

OutsideMate ==
  /\ outside < MaxOutside /\ outside' = outside + 1
  /\ name' \in Names /\ addrs' \in SUBSET Addrs
  /\ alone' = FALSE
  /\ UNCHANGED <<admin, role, queue, orphans, runVars, refusals, faults>>

-------------------------------------------------------------------------------
RunStep ==
  \/ ReadMate \/ ReadVPNs
  \/ \E l \in script : ExecuteLine(l) \/ RefuseLine(l)

Next ==
  \/ Start \/ Answer \/ RunStep \/ LoseContact
  \/ \E s \in orphans : \E l \in s : OrphanLine(s, l)
  \/ OutsideMate \/ \E v \in VPNs : OutsideVPN(v)

Spec == Init /\ [][Next]_vars

-------------------------------------------------------------------------------
(* Properties *)

TypeOK ==
  /\ name \in Names \cup {NoName} /\ addrs \in SUBSET Addrs
  /\ admin \in [VPNs -> Admin] /\ role \in [VPNs -> Role] /\ queue \in [VPNs -> BOOLEAN]
  /\ orphans \in SUBSET Script
  /\ pc \in Phase /\ have \in Mates /\ view \in Views /\ script \in Script
  /\ alone \in BOOLEAN
  /\ refusals \in Nat /\ faults \in Nat /\ outside \in Nat

Converged ==
  /\ name = MateName /\ addrs = MateAddrs
  /\ \A v \in Listed : admin[v] = "enabled" /\ role[v] = RoleAtSite(v)
  /\ \A v \in VPNs \ Listed : admin[v] # "enabled"

\* "Applied" means converged: a run that ends well, with nobody else writing,
\* leaves the broker as the file says, whatever state an earlier run that was
\* refused half way left it in, and although it never reads its writes back.
AppliedIsTrue == pc = "ok" /\ alone => Converged

\* "Which is also why phase 1 runs ONLY when the mate actually differs": while
\* the mate matches, no run stops replication on a listed VPN, not even one that
\* is converging what a failed run has left.
MatchingMateStopsNothing ==
  [][name = MateName /\ addrs = MateAddrs /\ alone /\ alone' =>
       \A v \in Listed : admin[v] = "enabled" => admin'[v] = "enabled"]_vars

\* "A VPN that comes up holding the wrong role, even briefly, is worse than one
\* that comes up a moment later": of this tool's own scripts, the orphans
\* included, none enables a listed VPN that does not hold its role.
ComesUpInRole ==
  [][outside' = 0 =>
       \A v \in Listed : admin[v] # "enabled" /\ admin'[v] = "enabled"
                           => role'[v] = RoleAtSite(v)]_vars

\* "That check is the only thing standing between an ordinary re-run and a
\* site-wide replication stop", and phase 1 "keys on the same predicate": with
\* nobody else writing, the broker's own rules refuse no line of either phase.
\* (Where a role change alone makes or drops the queue, the enable of that VPN
\* is the exception; reenableLine says it needs verification.)
PlanAccepted ==
  alone => \A l \in NextLines(script) :
             Accepts(l) \/ (QueueTracksRole /\ l.op \in {"enable", "force"})

\* "Re-running is SAFE" and gets there: as long as somebody runs the command
\* again after each failure, it ends in success unless it is declined or the
\* file lists a VPN the broker does not have.
Fairness ==
  /\ WF_vars(Start /\ pc # "ok") /\ WF_vars(Answer) /\ WF_vars(RunStep)
FairSpec == Spec /\ Fairness
RerunsSucceed == <>(pc \in {"ok", "declined", "refused"})

\* replPhase2Rejected, of the scripts phase 2 did not get through: "The VPN it
\* stopped on and every one after it are left with replication shut down".
RestIsShutDown ==
  [][pc = "phase2" /\ pc' = "failed" /\ UNCHANGED faults =>
       \A l \in script : admin[l.arg] # "enabled"]_vars

-------------------------------------------------------------------------------
(* Why a VPN comes up in its role: the inductive strengthening of            *)
(* ComesUpInRole.  Every script that is under way, the orphans' too, has     *)
(* either still to write the role of a VPN it is to enable, or the VPN has   *)
(* it; and no script ever writes another role.                               *)

RoleWrittenFirst(s) ==
  \A l \in s : l.op \in {"enable", "force"} /\ L("state", l.arg) \notin s
                 => role[l.arg] = RoleAtSite(l.arg)

RolesInOrder == outside = 0 => \A s \in orphans \cup {script} : RoleWrittenFirst(s)
===============================================================================
