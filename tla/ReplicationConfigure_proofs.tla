---------------------- MODULE ReplicationConfigure_proofs ----------------------
(***************************************************************************)
(* Theorems about ReplicationConfigure, for any VPNs, mate and failures.   *)
(***************************************************************************)
EXTENDS ReplicationConfigure, TLAPS

-------------------------------------------------------------------------------
(* Type correctness *)

LEMMA InitTypeOK == Init => TypeOK
BY DEF Init, TypeOK, Mates, Views, Admin, Script, Phase, Over

LEMMA LineTypes ==
  /\ \A v \in VPNs : /\ L("stop", v) \in Line /\ L("state", v) \in Line
                     /\ L("enable", v) \in Line /\ L("force", v) \in Line
                     /\ L("shutdown", v) \in Line
  /\ \A a \in Addrs : L("noVia", a) \in Line /\ L("via", a) \in Line
  /\ \A n \in Names : L("noName", n) \in Line /\ L("name", n) \in Line
BY DEF L, Line, VPNLine, MateLine

LEMMA MatePhaseType ==
  ASSUME NEW m \in Mates, NEW vw \in Views
  PROVE  MatePhase(m, vw) \in Script
<1>1. m.addrs \subseteq Addrs /\ MateAddrs \subseteq Addrs /\ MateName \in Names
  BY MateAssumption DEF Mates
<1>2. {m.name} \ {NoName, MateName} \subseteq Names
  BY DEF Mates
<1>3. Removals(m) \subseteq Line
  BY <1>1, <1>2, LineTypes DEF Removals
<1>4. QED
  BY <1>1, <1>3, LineTypes DEF MatePhase, EnabledIn, Script

LEMMA VPNPhaseType ==
  ASSUME NEW vw \in Views, NEW stopped \in BOOLEAN
  PROVE  VPNPhase(vw, stopped) \in Script
<1>1. \A v \in VPNs : ReenableLine(v, vw) \in Line
  BY LineTypes DEF ReenableLine
<1>2. Listed \subseteq VPNs
  BY VPNsAssumption
<1>3. QED
  BY <1>1, <1>2, LineTypes DEF VPNPhase, EnabledIn, Script

\* What a line does stays within the types.
LEMMA EffectType ==
  ASSUME TypeOK, NEW l \in Line, Effect(l)
  PROVE  /\ name' \in Names \cup {NoName} /\ addrs' \in SUBSET Addrs
         /\ admin' \in [VPNs -> Admin] /\ role' \in [VPNs -> Role]
         /\ queue' \in [VPNs -> BOOLEAN]
<1>1. name' \in Names \cup {NoName}
  BY DEF TypeOK, Effect, Line, VPNLine, MateLine
<1>2. addrs' \in SUBSET Addrs
  BY DEF TypeOK, Effect, Line, VPNLine, MateLine
<1>3. admin' \in [VPNs -> Admin]
  BY DEF TypeOK, Effect, Admin
<1>4. role' \in [VPNs -> Role]
  BY DEF TypeOK, Effect, Role, RoleAtSite
<1>5. ASSUME NEW v \in VPNs, NEW r, NEW a PROVE QueueAfter(v, r, a) \in BOOLEAN
  <2>1. queue[v] \in BOOLEAN
    BY DEF TypeOK
  <2>2. QED
    BY <2>1 DEF QueueAfter
<1>6. queue' \in [VPNs -> BOOLEAN]
  <2>1. CASE l.op \in {"state", "enable", "force"}
    <3>1. l.arg \in VPNs
      BY <2>1 DEF Line, VPNLine, MateLine
    <3>2. QueueAfter(l.arg, role'[l.arg], admin'[l.arg]) \in BOOLEAN
      BY <1>5, <3>1
    <3>3. queue' = [queue EXCEPT ![l.arg] = QueueAfter(l.arg, role'[l.arg], admin'[l.arg])]
      BY <2>1 DEF Effect
    <3>4. QED
      BY <3>2, <3>3 DEF TypeOK
  <2>2. CASE l.op \notin {"state", "enable", "force"}
    BY <2>2 DEF TypeOK, Effect
  <2>3. QED
    BY <2>1, <2>2
<1>7. QED
  BY <1>1, <1>2, <1>3, <1>4, <1>6

LEMMA NextTypeOK == TypeOK /\ [Next]_vars => TypeOK'
<1> SUFFICES ASSUME TypeOK, [Next]_vars PROVE TypeOK'
  OBVIOUS
<1> USE DEF vars, brokerVars, runVars, boundVars
<1>1. CASE Start \/ Answer
  BY <1>1 DEF TypeOK, Start, Answer, Phase, Over
<1>0. CASE ReadMate
  BY <1>0 DEF TypeOK, ReadMate, Mates, Phase, Over
<1>2. CASE ReadVPNs
  <2>1. view' \in Views
    BY <1>2 DEF TypeOK, ReadVPNs, Views
  <2>2. MatePhase(have, view') \in Script /\ VPNPhase(view', FALSE) \in Script
    BY <2>1, MatePhaseType, VPNPhaseType DEF TypeOK
  <2>3. script' \in Script /\ pc' \in Phase
    BY <1>2, <2>2 DEF TypeOK, ReadVPNs, Send, Phase, Over
  <2>4. QED
    BY <1>2, <2>1, <2>3 DEF TypeOK, ReadVPNs
<1>3. ASSUME NEW l \in script, ExecuteLine(l) PROVE TypeOK'
  <2>1. l \in Line /\ Effect(l)
    BY <1>3 DEF TypeOK, Script, ExecuteLine
  <2>2. VPNPhase(view, TRUE) \in Script
    BY VPNPhaseType DEF TypeOK
  <2>3. script \ {l} \in Script /\ {} \in Script
    BY DEF TypeOK, Script
  <2>4. script' \in Script /\ pc' \in Phase
    BY <1>3, <2>2, <2>3 DEF TypeOK, ExecuteLine, ScriptDone, Send, Phase, Over
  <2>5. QED
    BY <1>3, <2>1, <2>4, EffectType DEF TypeOK, ExecuteLine
<1>4. ASSUME NEW l \in script, RefuseLine(l) PROVE TypeOK'
  BY <1>4 DEF TypeOK, RefuseLine, Phase, Over, Script
<1>5. CASE LoseContact
  BY <1>5 DEF TypeOK, LoseContact, Phase, Over, Script
<1>6. ASSUME NEW s \in orphans, NEW l \in s, OrphanLine(s, l) PROVE TypeOK'
  <2>1. l \in Line /\ s \in Script
    BY DEF TypeOK, Script
  <2>2. orphans' \in SUBSET Script
    BY <1>6, <2>1 DEF TypeOK, OrphanLine, Script
  <2>3. CASE Effect(l)
    BY <1>6, <2>1, <2>2, <2>3, EffectType DEF TypeOK, OrphanLine
  <2>4. CASE UNCHANGED brokerVars
    BY <1>6, <2>2, <2>4 DEF TypeOK, OrphanLine
  <2>5. QED
    BY <1>6, <2>3, <2>4 DEF OrphanLine
<1>7. CASE OutsideMate
  <2>1. outside' \in Nat
    BY <1>7 DEF TypeOK, OutsideMate
  <2>a. alone' \in BOOLEAN
    BY <1>7 DEF OutsideMate
  <2>2. name' \in Names \cup {NoName} /\ addrs' \in SUBSET Addrs
    BY <1>7 DEF OutsideMate
  <2>3. UNCHANGED <<admin, role, queue, orphans, runVars, refusals, faults>>
    BY <1>7 DEF OutsideMate
  <2>4. QED
    BY <2>1, <2>a, <2>2, <2>3 DEF TypeOK
<1>8. ASSUME NEW v \in VPNs, OutsideVPN(v) PROVE TypeOK'
  <2>1. role' \in [VPNs -> Role] /\ admin' \in [VPNs -> Admin]
    BY <1>8 DEF TypeOK, OutsideVPN, Role, Admin
  <2>2. queue' \in [VPNs -> BOOLEAN]
    <3>1. PICK b \in BOOLEAN : queue' = [queue EXCEPT ![v] = b]
      BY <1>8 DEF OutsideVPN
    <3>2. QED
      BY <3>1 DEF TypeOK
  <2>3. outside' \in Nat
    BY <1>8 DEF TypeOK, OutsideVPN
  <2>a. alone' \in BOOLEAN
    BY <1>8 DEF OutsideVPN
  <2>4. UNCHANGED <<name, addrs, orphans, runVars, refusals, faults>>
    BY <1>8 DEF OutsideVPN
  <2>5. QED
    BY <2>1, <2>2, <2>3, <2>a, <2>4 DEF TypeOK
<1>9. CASE UNCHANGED vars
  BY <1>9 DEF TypeOK
<1>10. QED
  BY <1>0, <1>1, <1>2, <1>3, <1>4, <1>5, <1>6, <1>7, <1>8, <1>9 DEF Next, RunStep

\* The broker and the run stay well formed, and no script ever holds a line
\* that is not one of the nine the tool writes.
THEOREM TypeCorrect == Spec => []TypeOK
BY InitTypeOK, NextTypeOK, PTL DEF Spec

-------------------------------------------------------------------------------
(* A VPN comes up in its role *)

LEMMA InitRolesInOrder == Init => RolesInOrder
BY DEF Init, RolesInOrder, RoleWrittenFirst

\* Both scripts the tool writes are in order.
LEMMA PhasesInOrder ==
  ASSUME NEW vw \in Views, NEW m \in Mates, NEW stopped \in BOOLEAN
  PROVE  RoleWrittenFirst(VPNPhase(vw, stopped)) /\ RoleWrittenFirst(MatePhase(m, vw))
                /\ RoleWrittenFirst({})
<1>1. RoleWrittenFirst(VPNPhase(vw, stopped))
  BY DEF RoleWrittenFirst, VPNPhase, ReenableLine, L
<1>2. RoleWrittenFirst(MatePhase(m, vw))
  BY DEF RoleWrittenFirst, MatePhase, Removals, L
<1>3. QED
  BY <1>1, <1>2 DEF RoleWrittenFirst

\* The line that is next to execute, if it enables a VPN, finds its role written.
LEMMA NextEnableInRole ==
  ASSUME NEW s \in Script, RoleWrittenFirst(s), NEW l \in NextLines(s),
         l.op \in {"enable", "force"}
  PROVE  role[l.arg] = RoleAtSite(l.arg)
<1>1. l \in s /\ \A k \in s : ~Before(k, l)
  BY DEF NextLines
<1>2. ASSUME L("state", l.arg) \in s PROVE FALSE
  <2>1. Before(L("state", l.arg), l)
    BY DEF Before, Stage, L
  <2>2. QED
    BY <1>1, <1>2, <2>1
<1>3. QED
  BY <1>1, <1>2 DEF RoleWrittenFirst

\* Executing a line leaves every script in order, this one without the line.
LEMMA EffectInOrder ==
  ASSUME TypeOK, NEW s \in Script, RoleWrittenFirst(s), NEW l \in Line, Effect(l)
  PROVE  RoleWrittenFirst(s)' /\ RoleWrittenFirst(s \ {l})'
<1>1. \A v \in VPNs : role[v] = RoleAtSite(v) => role'[v] = RoleAtSite(v)
  BY DEF TypeOK, Effect
<1>2. \A k \in s : k.op \in {"enable", "force"} => k.arg \in VPNs
  BY DEF Script, Line, VPNLine, MateLine
<1>3. RoleWrittenFirst(s)'
  BY <1>1, <1>2 DEF RoleWrittenFirst
<1>4. ASSUME NEW k \in s, k.op \in {"enable", "force"}, L("state", k.arg) = l
      PROVE  role'[k.arg] = RoleAtSite(k.arg)
  <2>1. l.op = "state" /\ l.arg = k.arg /\ k.arg \in VPNs
    BY <1>2, <1>4 DEF L
  <2>2. QED
    BY <2>1 DEF Effect, TypeOK
<1>5. RoleWrittenFirst(s \ {l})'
  BY <1>1, <1>2, <1>4 DEF RoleWrittenFirst
<1>6. QED
  BY <1>3, <1>5

LEMMA NextRolesInOrder ==
  ASSUME TypeOK, RolesInOrder, [Next]_vars
  PROVE  RolesInOrder'
<1> SUFFICES ASSUME outside' = 0 PROVE \A s \in orphans' \cup {script'} : RoleWrittenFirst(s)'
  BY DEF RolesInOrder
<1> USE DEF vars, brokerVars, runVars, boundVars
<1>1. CASE UNCHANGED <<role, orphans, outside>> /\ script' \in {script, {}}
  BY <1>1 DEF RolesInOrder, RoleWrittenFirst
<1>2. CASE ReadVPNs
  <2>1. view' \in Views
    BY <1>2 DEF TypeOK, ReadVPNs, Views
  <2>2. RoleWrittenFirst(script')
    BY <1>2, <2>1, PhasesInOrder DEF TypeOK, ReadVPNs, Send, RolesInOrder
  <2>3. QED
    BY <1>2, <2>2 DEF ReadVPNs, RolesInOrder, RoleWrittenFirst
<1>3. ASSUME NEW l \in script, ExecuteLine(l)
      PROVE  \A s \in orphans' \cup {script'} : RoleWrittenFirst(s)'
  <2>1. l \in Line /\ Effect(l) /\ script \in Script /\ orphans \subseteq Script /\ outside = 0
    BY <1>3 DEF TypeOK, Script, ExecuteLine
  <2>2. \A s \in orphans' : RoleWrittenFirst(s)'
    BY <1>3, <2>1, EffectInOrder DEF ExecuteLine, RolesInOrder
  <2>3. \A s \in Script : s = script => RoleWrittenFirst(s \ {l})'
    BY <2>1, EffectInOrder DEF RolesInOrder
  <2>4. RoleWrittenFirst(VPNPhase(view, TRUE))' /\ RoleWrittenFirst({})'
    BY <1>3, VPNPhaseType DEF TypeOK, RoleWrittenFirst, VPNPhase, ReenableLine, L, ExecuteLine
  <2>5. script' \in {script \ {l}, VPNPhase(view, TRUE), {}}
    BY <1>3 DEF ExecuteLine, ScriptDone, Send
  <2>6. ASSUME NEW t, t = script' PROVE RoleWrittenFirst(t)'
    <3>1. CASE script' = script \ {l}
      BY <2>1, <2>3, <2>6, <3>1
    <3>2. CASE script' = VPNPhase(view, TRUE)
      BY <1>3, <2>4, <2>6, <3>2 DEF ExecuteLine, RoleWrittenFirst, VPNPhase, ReenableLine
    <3>3. CASE script' = {}
      BY <2>6, <3>3 DEF RoleWrittenFirst
    <3>4. QED
      BY <2>5, <3>1, <3>2, <3>3
  <2>7. QED
    BY <2>2, <2>6
<1>4. CASE LoseContact
  BY <1>4 DEF LoseContact, RolesInOrder, RoleWrittenFirst
<1>5. ASSUME NEW s \in orphans, NEW l \in s, OrphanLine(s, l)
      PROVE  \A t \in orphans' \cup {script'} : RoleWrittenFirst(t)'
  <2>1. l \in Line /\ s \in Script /\ script \in Script /\ orphans \subseteq Script /\ outside = 0
    BY <1>5 DEF TypeOK, Script, OrphanLine
  <2>2. CASE UNCHANGED brokerVars /\ orphans' = orphans \ {s}
    BY <1>5, <2>1, <2>2 DEF OrphanLine, RolesInOrder, RoleWrittenFirst
  <2>3. CASE Effect(l) /\ orphans' = (orphans \ {s}) \cup ({s \ {l}} \ {{}})
    <3>1. \A t \in orphans \cup {script} : RoleWrittenFirst(t)' /\ RoleWrittenFirst(t \ {l})'
      BY <2>1, <2>3, EffectInOrder DEF RolesInOrder
    <3>2. orphans' \cup {script'} \subseteq (orphans \cup {script}) \cup {s \ {l}}
      BY <1>5, <2>3 DEF OrphanLine
    <3>3. QED
      BY <3>1, <3>2 DEF RoleWrittenFirst
  <2>4. QED
    BY <1>5, <2>2, <2>3 DEF OrphanLine
<1>6. ASSUME OutsideMate \/ \E v \in VPNs : OutsideVPN(v) PROVE FALSE
  BY <1>6 DEF OutsideMate, OutsideVPN, TypeOK
<1>7. ASSUME Start \/ Answer \/ ReadMate \/ (\E l \in script : RefuseLine(l)) \/ UNCHANGED vars
      PROVE  UNCHANGED <<role, orphans, outside>> /\ script' \in {script, {}}
  BY <1>7 DEF Start, Answer, ReadMate, RefuseLine
<1>8. QED
  BY <1>1, <1>2, <1>3, <1>4, <1>5, <1>6, <1>7 DEF Next, RunStep

LEMMA RolesAlwaysInOrder == Spec => []RolesInOrder
<1>1. TypeOK /\ RolesInOrder /\ [Next]_vars => RolesInOrder'
  BY NextRolesInOrder
<1>2. QED
  BY InitRolesInOrder, <1>1, TypeCorrect, PTL DEF Spec

\* Nobody else writing: no line of any script, of the run or left behind by an
\* earlier one, enables a listed VPN that does not hold its role.
THEOREM VPNComesUpInRole == Spec => ComesUpInRole
<1>1. ASSUME TypeOK, RolesInOrder, [Next]_vars, outside' = 0,
             NEW v \in Listed, admin[v] # "enabled", admin'[v] = "enabled"
      PROVE  role'[v] = RoleAtSite(v)
  <2> USE DEF vars, brokerVars, runVars, boundVars
  <2>1. outside = 0 /\ ~OutsideMate /\ \A u \in VPNs : ~OutsideVPN(u)
    <3>1. ~OutsideMate /\ \A u \in VPNs : ~OutsideVPN(u)
      BY <1>1 DEF TypeOK, OutsideMate, OutsideVPN
    <3>2. QED
      BY <1>1, <3>1 DEF Next, Start, Answer, RunStep, ReadMate, ReadVPNs, ExecuteLine,
         RefuseLine, LoseContact, OrphanLine
  <2>2. PICK s \in orphans \cup {script} : \E l \in NextLines(s) : Effect(l)
    <3>1. admin' # admin
      BY <1>1
    <3>2. CASE \E l \in script : ExecuteLine(l)
      BY <3>2 DEF ExecuteLine
    <3>3. CASE \E s \in orphans : \E l \in s : OrphanLine(s, l)
      BY <3>1, <3>3 DEF OrphanLine
    <3>4. QED
      BY <1>1, <2>1, <3>1, <3>2, <3>3 DEF Next, Start, Answer, RunStep, ReadMate,
         ReadVPNs, RefuseLine, LoseContact
  <2>a. PICK l \in NextLines(s) : Effect(l)
    BY <2>2
  <2>3. s \in Script /\ RoleWrittenFirst(s) /\ l \in Line
    BY <1>1, <2>1 DEF TypeOK, RolesInOrder, Script, NextLines
  <2>4. l.op \in {"enable", "force"} /\ l.arg = v /\ UNCHANGED role
    BY <1>1, <2>a, <2>3, VPNsAssumption DEF Effect, TypeOK, Line, VPNLine, MateLine
  <2>5. QED
    BY <2>3, <2>4, NextEnableInRole
<1>2. TypeOK /\ RolesInOrder /\ [Next]_vars
        => [outside' = 0 => \A v \in Listed :
              admin[v] # "enabled" /\ admin'[v] = "enabled" => role'[v] = RoleAtSite(v)]_vars
  BY <1>1
<1>3. QED
  BY <1>2, TypeCorrect, RolesAlwaysInOrder, PTL DEF Spec, ComesUpInRole

-------------------------------------------------------------------------------
(* What a run without company leaves behind: of a script in hand, the lines  *)
(* that are gone have had their effect, and nothing else has changed since   *)
(* the readings.                                                             *)

\* Of phase 1 the naming of the mate is always still to come; what is up has
\* its stop to come; and what is left of the old mate, its removal.
MatePhaseInStep ==
  /\ MateDiffers(have) /\ script \subseteq MatePhase(have, view)
  /\ L("name", MateName) \in script
  /\ \A v \in VPNs : /\ L("stop", v) \in script <=> admin[v] = "enabled"
                     /\ queue[v] = view[v].queue
                     /\ L("stop", v) \in script => name = have.name /\ addrs = have.addrs
  /\ \A v \in Listed : admin[v] # "none"
  /\ name \in {NoName, have.name}
  /\ L("noName", have.name) \in script \/ name \in {NoName, MateName}
  /\ \A a \in addrs : a \in MateAddrs \/ L("noVia", a) \in script
  /\ \A a \in MateAddrs : a \in addrs \/ L("via", a) \in script

\* The listed VPNs phase 2 enables: those that were down, and after phase 1 all.
Reenabled(v) == view[v].admin # "enabled" \/ MateDiffers(have)

VPNPhaseInStep ==
  /\ script \subseteq VPNPhase(view, MateDiffers(have))
  /\ name = MateName /\ addrs = MateAddrs
  /\ \A v \in Listed :
       /\ L("state", v) \in script \/ role[v] = RoleAtSite(v)
       /\ admin[v] = "enabled" <=> ReenableLine(v, view) \notin script \/ ~Reenabled(v)
       /\ admin[v] # "none"
       /\ admin[v] # "enabled" /\ ~QueueTracksRole => queue[v] = view[v].queue
  /\ \A v \in VPNs \ Listed : L("shutdown", v) \in script <=> admin[v] = "enabled"

PlanInStep ==
  /\ pc \notin {"phase1", "phase2"} => script = {}
  /\ alone => /\ pc = "vpns" => have = [name |-> name, addrs |-> addrs]
              /\ pc = "phase1" => MatePhaseInStep
              /\ pc = "phase2" => VPNPhaseInStep
              /\ pc = "ok" => Converged

LEMMA InitPlanInStep == Init => PlanInStep
BY DEF Init, PlanInStep

\* A line of phase 1 is one of five, and the naming of the mate is the last.
LEMMA MatePhaseLines ==
  ASSUME NEW m \in Mates, NEW vw \in Views, NEW l \in MatePhase(m, vw)
  PROVE  \/ \E v \in VPNs : vw[v].admin = "enabled" /\ l = L("stop", v)
         \/ \E a \in m.addrs \ MateAddrs : l = L("noVia", a)
         \/ m.name \notin {NoName, MateName} /\ l = L("noName", m.name)
         \/ \E a \in MateAddrs : l = L("via", a)
         \/ l = L("name", MateName)
BY DEF MatePhase, Removals, EnabledIn

\* A line of phase 2 is one of three, each for a VPN.
LEMMA VPNPhaseLines ==
  ASSUME NEW l \in VPNPhase(view, MateDiffers(have))
  PROVE  \/ \E v \in Listed : l = L("state", v)
         \/ \E v \in Listed : l = ReenableLine(v, view) /\ Reenabled(v)
         \/ \E v \in VPNs \ Listed : l = L("shutdown", v)
BY VPNsAssumption DEF VPNPhase, EnabledIn, Reenabled

\* What the readings send is in step with them.
LEMMA ReadVPNsInStep ==
  ASSUME TypeOK, PlanInStep, ReadVPNs
  PROVE  PlanInStep'
<1> USE DEF brokerVars, boundVars
<1>0. /\ pc = "vpns" /\ script = {} /\ Listed \subseteq VPNs
      /\ UNCHANGED <<name, addrs, admin, role, queue, have, alone>>
  BY VPNsAssumption DEF ReadVPNs, PlanInStep
<1>1. view' \in Views /\ \A v \in VPNs : view'[v].admin = admin[v] /\ view'[v].queue = queue[v]
  BY DEF ReadVPNs, TypeOK, Views
<1>2. CASE pc' = "refused" /\ UNCHANGED script
  BY <1>0, <1>2 DEF PlanInStep
<1>a. SUFFICES ASSUME \A v \in Listed : admin[v] # "none",
                      IF MateDiffers(have) THEN Send("phase1", MatePhase(have, view'))
                                           ELSE Send("phase2", VPNPhase(view', FALSE))
               PROVE  PlanInStep'
  BY <1>2 DEF ReadVPNs
<1>3. CASE MateDiffers(have)
  <2>1. L("name", MateName) \in MatePhase(have, view')
    BY DEF MatePhase
  <2>2. pc' = "phase1" /\ script' = MatePhase(have, view')
    BY <1>a, <1>3, <2>1 DEF Send
  <2>3. ASSUME alone' PROVE MatePhaseInStep'
    <3>1. have = [name |-> name, addrs |-> addrs]
      BY <1>0, <2>3 DEF PlanInStep
    <3>2. \A v \in VPNs : L("stop", v) \in MatePhase(have, view') <=> admin[v] = "enabled"
      BY <1>1 DEF MatePhase, Removals, EnabledIn, L
    <3>3. L("noName", have.name) \in MatePhase(have, view') \/ name \in {NoName, MateName}
      BY <3>1 DEF MatePhase, Removals
    <3>4. /\ \A a \in addrs : a \in MateAddrs \/ L("noVia", a) \in MatePhase(have, view')
          /\ \A a \in MateAddrs : L("via", a) \in MatePhase(have, view')
      BY <3>1 DEF MatePhase, Removals
    <3>5. QED
      BY <1>0, <1>1, <1>a, <1>3, <2>1, <2>2, <3>1, <3>2, <3>3, <3>4 DEF MatePhaseInStep, MateDiffers
  <2>4. QED
    BY <2>2, <2>3 DEF PlanInStep
<1>4. CASE ~MateDiffers(have)
  <2>1. script' = VPNPhase(view', FALSE) /\ pc' = IF VPNPhase(view', FALSE) = {} THEN "ok" ELSE "phase2"
    BY <1>a, <1>4 DEF Send
  <2>2. ASSUME alone' PROVE VPNPhaseInStep'
    <3>1. have = [name |-> name, addrs |-> addrs] /\ name = MateName /\ addrs = MateAddrs
      BY <1>0, <1>4, <2>2 DEF PlanInStep, MateDiffers
    <3>2. \A v \in Listed : /\ L("state", v) \in VPNPhase(view', FALSE)
                            /\ admin[v] = "enabled" \/ ReenableLine(v, view') \in VPNPhase(view', FALSE)
      BY <1>0, <1>1 DEF VPNPhase
    <3>3. \A v \in VPNs \ Listed : L("shutdown", v) \in VPNPhase(view', FALSE) <=> admin[v] = "enabled"
      BY <1>1 DEF VPNPhase, ReenableLine, EnabledIn, L
    <3>4. \A v \in VPNs : Reenabled(v)' <=> admin[v] # "enabled"
      BY <1>0, <1>1, <1>4 DEF Reenabled, MateDiffers
    <3>5. MateDiffers(have)' = FALSE
      BY <1>0, <1>4 DEF MateDiffers
    <3>6. QED
      BY <1>0, <1>1, <1>a, <2>1, <3>1, <3>2, <3>3, <3>4, <3>5
         DEF VPNPhaseInStep, VPNPhase, ReenableLine
  <2>3. ASSUME alone', script' = {} PROVE Converged'
    BY <1>0, <2>2, <2>3 DEF VPNPhaseInStep, Converged
  <2>4. QED
    BY <2>1, <2>2, <2>3 DEF PlanInStep
<1>5. QED
  BY <1>3, <1>4

\* A line of phase 1 takes effect.
LEMMA MateLineInStep ==
  ASSUME TypeOK, MatePhaseInStep, pc = "phase1", NEW l \in script, ExecuteLine(l)
  PROVE  /\ pc' = "phase1" => MatePhaseInStep'
         /\ pc' = "phase2" => VPNPhaseInStep'
         /\ pc' = "ok" => Converged' /\ script' = {}
         /\ pc' \in {"phase1", "phase2", "ok"}
<1> USE DEF brokerVars, boundVars
<1>0. /\ \A k \in script : ~Before(k, l)
      /\ Effect(l) /\ Accepts(l) /\ have \in Mates /\ view \in Views
      /\ UNCHANGED <<have, view>> /\ Listed \subseteq VPNs /\ NoName # MateName
  BY VPNsAssumption, MateAssumption DEF ExecuteLine, NextLines, TypeOK
<1>1. CASE l = L("name", MateName)
  <2>1. script = {l}
    BY <1>0, <1>1, MatePhaseLines DEF MatePhaseInStep, Before, Stage, L
  <2>2. Send("phase2", VPNPhase(view, TRUE))
    BY <2>1 DEF ExecuteLine, ScriptDone
  <2>3. name' = MateName /\ UNCHANGED <<addrs, admin, role, queue>>
    BY <1>0, <1>1 DEF Effect, L
  <2>4. /\ \A v \in VPNs : L("stop", v) \notin script
        /\ \A a \in Addrs : L("noVia", a) \notin script /\ L("via", a) \notin script
    BY <1>1, <2>1 DEF L
  <2>5. addrs = MateAddrs
    BY ZenonT(60), <2>4, MateAssumption DEF MatePhaseInStep, TypeOK
  <2>6. VPNPhaseInStep'
    <3>1. MateDiffers(have)' /\ MateDiffers(have)
      BY <1>0 DEF MatePhaseInStep, MateDiffers
    <3>2. \A v \in VPNs : Reenabled(v)'
      BY <3>1 DEF Reenabled
    <3>3. script' = VPNPhase(view, TRUE)
      BY <2>2 DEF Send
    <3>4. \A v \in Listed : L("state", v) \in script' /\ ReenableLine(v, view) \in script'
      BY <3>3 DEF VPNPhase
    <3>5. \A v \in VPNs \ Listed : L("shutdown", v) \notin script'
      BY <3>3 DEF VPNPhase, ReenableLine, L
    <3>6. \A v \in VPNs : admin[v] # "enabled" /\ queue[v] = view[v].queue
      BY <2>4 DEF MatePhaseInStep
    <3>7. \A v \in Listed : admin[v] # "none"
      BY DEF MatePhaseInStep
    <3>8. script' \subseteq VPNPhase(view, MateDiffers(have))'
      BY <1>0, <3>1, <3>3 DEF VPNPhase, ReenableLine
    <3>9. \A v \in Listed : ReenableLine(v, view)' \in script'
      BY <1>0, <3>4 DEF ReenableLine
    <3>10. QED
      BY <1>0, <2>3, <2>5, <3>2, <3>4, <3>5, <3>6, <3>7, <3>8, <3>9 DEF VPNPhaseInStep
  <2>7. script' = {} => Converged'
    BY <2>6, <1>0 DEF VPNPhaseInStep, Converged
  <2>8. QED
    BY <2>2, <2>6, <2>7 DEF Send
<1>2. CASE l # L("name", MateName)
  <2>1. script' = script \ {l} /\ pc' = "phase1"
    BY <1>2 DEF ExecuteLine, MatePhaseInStep
  <2>2. CASE \E v \in VPNs : l = L("stop", v)
    <3>1. PICK v \in VPNs : l = L("stop", v)
      BY <2>2
    <3>2. admin' = [admin EXCEPT ![v] = "shutdown"] /\ UNCHANGED <<name, addrs, role, queue>>
      BY <1>0, <3>1 DEF Effect, L
    <3>3. QED
      BY <1>0, <2>1, <3>1, <3>2 DEF MatePhaseInStep, TypeOK, L, MateDiffers, MatePhase, Removals
  <2>3. CASE \E a \in have.addrs \ MateAddrs : l = L("noVia", a)
    <3>1. PICK a \in have.addrs \ MateAddrs : l = L("noVia", a)
      BY <2>3
    <3>2. addrs' = addrs \ {a} /\ UNCHANGED <<name, admin, role, queue>>
      BY <1>0, <3>1 DEF Effect, L
    <3>3. \A v \in VPNs : L("stop", v) \notin script
      BY <1>0, <3>1 DEF Before, Stage, L
    <3>4. QED
      BY <1>0, <2>1, <3>1, <3>2, <3>3 DEF MatePhaseInStep, L, MateDiffers, MatePhase, Removals
  <2>4. CASE l = L("noName", have.name)
    <3>2. name' = NoName /\ UNCHANGED <<addrs, admin, role, queue>>
      BY <1>0, <2>4 DEF Effect, L
    <3>3. \A v \in VPNs : L("stop", v) \notin script
      BY <1>0, <2>4 DEF Before, Stage, L
    <3>4. QED
      BY <1>0, <2>1, <2>4, <3>2, <3>3 DEF MatePhaseInStep, L, MateDiffers, MatePhase, Removals
  <2>5. CASE \E a \in MateAddrs : l = L("via", a)
    <3>1. PICK a \in MateAddrs : l = L("via", a)
      BY <2>5
    <3>2. addrs' = addrs \cup {a} /\ UNCHANGED <<name, admin, role, queue>>
      BY <1>0, <3>1 DEF Effect, L
    <3>3. \A v \in VPNs : L("stop", v) \notin script
      BY <1>0, <3>1 DEF Before, Stage, L
    <3>4. QED
      BY <1>0, <2>1, <3>1, <3>2, <3>3 DEF MatePhaseInStep, L, MateDiffers, MatePhase, Removals
  <2>6. QED
    BY <1>0, <1>2, <2>1, <2>2, <2>3, <2>4, <2>5, MatePhaseLines DEF MatePhaseInStep
<1>3. QED
  BY <1>1, <1>2

\* A line of phase 2 takes effect.
LEMMA VPNLineInStep ==
  ASSUME TypeOK, VPNPhaseInStep, pc = "phase2", NEW l \in script, ExecuteLine(l)
  PROVE  /\ VPNPhaseInStep'
         /\ pc' = "ok" => Converged' /\ script' = {}
         /\ pc' \in {"phase2", "ok"}
<1> USE DEF brokerVars, boundVars
<1>0. /\ Effect(l) /\ have \in Mates /\ view \in Views
      /\ UNCHANGED <<have, view>> /\ Listed \subseteq VPNs
  BY VPNsAssumption DEF ExecuteLine, TypeOK
<1>1. script' = script \ {l} /\ pc' = IF script = {l} THEN "ok" ELSE "phase2"
  BY DEF ExecuteLine, ScriptDone
<1>2. /\ \A v \in VPNs : Reenabled(v)' = Reenabled(v) /\ ReenableLine(v, view)' = ReenableLine(v, view)
      /\ VPNPhase(view, MateDiffers(have))' = VPNPhase(view, MateDiffers(have))
      /\ MateDiffers(have) \in BOOLEAN
  BY <1>0 DEF Reenabled, ReenableLine, VPNPhase, MateDiffers, EnabledIn
<1>3. script' \subseteq VPNPhase(view, MateDiffers(have))'
  BY <1>1, <1>2 DEF VPNPhaseInStep
<1>a. ASSUME UNCHANGED <<name, addrs>>,
             \A v \in Listed :
               /\ L("state", v) \in script' \/ role'[v] = RoleAtSite(v)
               /\ admin'[v] = "enabled" <=> ReenableLine(v, view) \notin script' \/ ~Reenabled(v)
               /\ admin'[v] # "none"
               /\ admin'[v] # "enabled" /\ ~QueueTracksRole => queue'[v] = view[v].queue,
             \A v \in VPNs \ Listed : L("shutdown", v) \in script' <=> admin'[v] = "enabled"
      PROVE  VPNPhaseInStep'
  <2>1. name' = MateName /\ addrs' = MateAddrs
    BY <1>a DEF VPNPhaseInStep
  <2>2. \A v \in Listed :
          /\ (L("state", v) \in script \/ role[v] = RoleAtSite(v))'
          /\ (admin[v] = "enabled" <=> ReenableLine(v, view) \notin script \/ ~Reenabled(v))'
          /\ (admin[v] # "none")'
          /\ (admin[v] # "enabled" /\ ~QueueTracksRole => queue[v] = view[v].queue)'
    BY <1>0, <1>2, <1>a
  <2>3. QED
    BY <1>3, <1>a, <2>1, <2>2 DEF VPNPhaseInStep
<1>b. SUFFICES VPNPhaseInStep'
  <2>1. VPNPhaseInStep' /\ script' = {} => Converged'
    BY <1>0, <1>2 DEF VPNPhaseInStep, Converged
  <2>2. QED
    BY <1>1, <2>1
<1>4. CASE \E v \in Listed : l = L("state", v)
  <2>1. PICK v \in Listed : l = L("state", v)
    BY <1>4
  <2>2. /\ role' = [role EXCEPT ![v] = RoleAtSite(v)] /\ UNCHANGED <<name, addrs, admin>>
        /\ queue' = [queue EXCEPT ![v] = QueueAfter(v, role'[v], admin'[v])]
    BY <1>0, <2>1 DEF Effect, L
  <2>3. \A u \in VPNs : admin[u] # "enabled" /\ ~QueueTracksRole => queue'[u] = queue[u]
    BY <2>2 DEF QueueAfter, TypeOK
  <2>4. \A u \in VPNs : ReenableLine(u, view) # l /\ L("shutdown", u) # l
    BY <2>1 DEF ReenableLine, L
  <2>5. \A u \in Listed : L("state", u) \in script' \/ role'[u] = RoleAtSite(u)
    BY <1>0, <1>1, <2>1, <2>2 DEF VPNPhaseInStep, TypeOK, L
  <2>6. \A u \in Listed : admin[u] # "enabled" /\ ~QueueTracksRole => queue'[u] = view[u].queue
    BY <1>0, <2>3 DEF VPNPhaseInStep
  <2>7. \A u \in Listed :
          /\ L("state", u) \in script' \/ role'[u] = RoleAtSite(u)
          /\ admin'[u] = "enabled" <=> ReenableLine(u, view) \notin script' \/ ~Reenabled(u)
          /\ admin'[u] # "none"
          /\ admin'[u] # "enabled" /\ ~QueueTracksRole => queue'[u] = view[u].queue
    BY <1>0, <1>1, <2>2, <2>4, <2>5, <2>6 DEF VPNPhaseInStep
  <2>8. \A u \in VPNs \ Listed : L("shutdown", u) \in script' <=> admin'[u] = "enabled"
    BY <1>1, <2>2, <2>4 DEF VPNPhaseInStep
  <2>9. UNCHANGED <<name, addrs>>
    BY <2>2
  <2>10. QED
    BY <1>a, <2>7, <2>8, <2>9
<1>5. CASE \E v \in Listed : l = ReenableLine(v, view) /\ Reenabled(v)
  <2>1. PICK v \in Listed : l = ReenableLine(v, view) /\ Reenabled(v)
    BY <1>5
  <2>2. /\ admin' = [admin EXCEPT ![v] = "enabled"] /\ UNCHANGED <<name, addrs, role>>
        /\ \A u \in VPNs : u # v => queue'[u] = queue[u]
    BY <1>0, <2>1 DEF Effect, ReenableLine, L, TypeOK
  <2>3. /\ \A u \in VPNs : L("state", u) # l /\ L("shutdown", u) # l
        /\ \A u \in VPNs : ReenableLine(u, view) = l => u = v
    BY <2>1 DEF ReenableLine, L
  <2>4. \A u \in VPNs : admin'[u] = IF u = v THEN "enabled" ELSE admin[u]
    BY <1>0, <2>2 DEF TypeOK
  <2>5. \A u \in Listed :
          /\ L("state", u) \in script' \/ role'[u] = RoleAtSite(u)
          /\ admin'[u] = "enabled" <=> ReenableLine(u, view) \notin script' \/ ~Reenabled(u)
          /\ admin'[u] # "none"
          /\ admin'[u] # "enabled" /\ ~QueueTracksRole => queue'[u] = view[u].queue
    BY <1>0, <1>1, <2>1, <2>2, <2>3, <2>4 DEF VPNPhaseInStep
  <2>6. \A u \in VPNs \ Listed : L("shutdown", u) \in script' <=> admin'[u] = "enabled"
    BY <1>1, <2>1, <2>3, <2>4 DEF VPNPhaseInStep
  <2>7. UNCHANGED <<name, addrs>>
    BY <2>2
  <2>8. QED
    BY <1>a, <2>5, <2>6, <2>7
<1>6. CASE \E v \in VPNs \ Listed : l = L("shutdown", v)
  <2>1. PICK v \in VPNs \ Listed : l = L("shutdown", v)
    BY <1>6
  <2>2. admin' = [admin EXCEPT ![v] = "shutdown"] /\ UNCHANGED <<name, addrs, role, queue>>
    BY <1>0, <2>1 DEF Effect, L
  <2>3. \A u \in VPNs : L("state", u) # l /\ ReenableLine(u, view) # l
    BY <2>1 DEF ReenableLine, L
  <2>4. \A u \in VPNs : admin'[u] = IF u = v THEN "shutdown" ELSE admin[u]
    BY <1>0, <2>1, <2>2 DEF TypeOK
  <2>5. \A u \in VPNs \ Listed : L("shutdown", u) \in script' <=> admin'[u] = "enabled"
    BY <1>1, <2>1, <2>4 DEF VPNPhaseInStep, L
  <2>6. \A u \in Listed :
          /\ L("state", u) \in script' \/ role'[u] = RoleAtSite(u)
          /\ admin'[u] = "enabled" <=> ReenableLine(u, view) \notin script' \/ ~Reenabled(u)
          /\ admin'[u] # "none"
          /\ admin'[u] # "enabled" /\ ~QueueTracksRole => queue'[u] = view[u].queue
    BY <1>0, <1>1, <2>1, <2>2, <2>3, <2>4 DEF VPNPhaseInStep
  <2>7. UNCHANGED <<name, addrs>>
    BY <2>2
  <2>8. QED
    BY <1>a, <2>5, <2>6, <2>7
<1>7. QED
  BY <1>4, <1>5, <1>6, VPNPhaseLines DEF VPNPhaseInStep

LEMMA NextPlanInStep ==
  ASSUME TypeOK, PlanInStep, [Next]_vars
  PROVE  PlanInStep'
<1> USE DEF vars, brokerVars, runVars, boundVars
<1>1. CASE Start \/ Answer \/ LoseContact \/ \E l \in script : RefuseLine(l)
  BY <1>1 DEF PlanInStep, Start, Answer, LoseContact, RefuseLine
<1>2. CASE ReadMate
  BY <1>2 DEF PlanInStep, ReadMate
<1>3. CASE ReadVPNs
  BY <1>3, ReadVPNsInStep
<1>4. ASSUME NEW l \in script, ExecuteLine(l) PROVE PlanInStep'
  <2>1. alone' = alone /\ pc \in {"phase1", "phase2"} /\ pc' \in {"phase1", "phase2", "ok"}
        /\ (pc' = "ok" => script' = {})
    BY <1>4 DEF ExecuteLine, ScriptDone, Send
  <2>2. CASE pc = "phase1" /\ alone
    BY <1>4, <2>1, <2>2, MateLineInStep DEF PlanInStep
  <2>3. CASE pc = "phase2" /\ alone
    BY <1>4, <2>1, <2>3, VPNLineInStep DEF PlanInStep
  <2>4. CASE ~alone
    BY <2>1, <2>4 DEF PlanInStep
  <2>5. QED
    BY <2>1, <2>2, <2>3, <2>4 DEF TypeOK
<1>5. CASE (\E s \in orphans : \E l \in s : OrphanLine(s, l)) \/ OutsideMate
             \/ \E v \in VPNs : OutsideVPN(v)
  BY <1>5 DEF PlanInStep, OrphanLine, OutsideMate, OutsideVPN
<1>6. CASE UNCHANGED vars
  BY <1>6 DEF PlanInStep, MatePhaseInStep, VPNPhaseInStep, Reenabled, MateDiffers, MatePhase,
     Removals, EnabledIn, VPNPhase, ReenableLine, Converged
<1>7. QED
  BY <1>1, <1>2, <1>3, <1>4, <1>5, <1>6 DEF Next, RunStep

LEMMA PlanAlwaysInStep == Spec => []PlanInStep
<1>1. TypeOK /\ PlanInStep /\ [Next]_vars => PlanInStep'
  BY NextPlanInStep
<1>2. QED
  BY InitPlanInStep, <1>1, TypeCorrect, PTL DEF Spec

\* "Applied" means converged: whatever state an earlier run left behind.
THEOREM AppliedMeansConverged == Spec => []AppliedIsTrue
<1>1. PlanInStep => AppliedIsTrue
  BY DEF PlanInStep, AppliedIsTrue
<1>2. QED
  BY <1>1, PlanAlwaysInStep, PTL

\* The two reads are enough: with nobody else writing, the broker's rules refuse
\* no line of either script.
THEOREM NoLineRefused == Spec => []PlanAccepted
<1>1. ASSUME TypeOK, PlanInStep, alone, NEW l \in NextLines(script)
      PROVE  Accepts(l) \/ (QueueTracksRole /\ l.op \in {"enable", "force"})
  <2>1. l \in script /\ \A k \in script : ~Before(k, l)
    BY DEF NextLines
  <2>2. /\ have \in Mates /\ view \in Views /\ Listed \subseteq VPNs
        /\ pc \in {"phase1", "phase2"} /\ QueueTracksRole \in BOOLEAN
    BY <1>1, <2>1, VPNsAssumption, BoundsAssumption DEF TypeOK, PlanInStep
  <2>3. CASE pc = "phase1"
    <3>1. MatePhaseInStep
      BY <1>1, <2>3 DEF PlanInStep
    <3>2. CASE \E v \in VPNs : l = L("stop", v)
      BY <2>1, <3>1, <3>2 DEF MatePhaseInStep, Accepts, L
    <3>3. CASE l.op \in {"noVia", "via", "noName", "name"}
      <4>1. \A v \in VPNs : L("stop", v) \notin script
        BY <2>1, <3>3 DEF Before, Stage, L
      <4>2. \A v \in VPNs : admin[v] # "enabled"
        BY <3>1, <4>1 DEF MatePhaseInStep
      <4>3. l.op = "name" => name \in {NoName, MateName} /\ l.arg = MateName
        <5>1. l.op = "name" => L("noName", have.name) \notin script
          BY <2>1 DEF Before, Stage, L
        <5>2. l.op = "name" => l = L("name", MateName)
          BY <2>1, <2>2, <3>1, MatePhaseLines DEF MatePhaseInStep, L
        <5>3. QED
          BY <3>1, <5>1, <5>2 DEF MatePhaseInStep, L
      <4>4. QED
        BY <3>3, <4>2, <4>3 DEF Accepts
    <3>4. QED
      BY <2>1, <2>2, <3>1, <3>2, <3>3, MatePhaseLines DEF MatePhaseInStep, L
  <2>4. CASE pc = "phase2"
    <3>1. VPNPhaseInStep /\ MateDiffers(have) \in BOOLEAN
      BY <1>1, <2>4 DEF PlanInStep, MateDiffers
    <3>2. CASE \E v \in Listed : l = L("state", v)
      BY <2>2, <3>1, <3>2 DEF VPNPhaseInStep, Accepts, L
    <3>3. CASE \E v \in VPNs \ Listed : l = L("shutdown", v)
      BY <2>1, <3>1, <3>3 DEF VPNPhaseInStep, Accepts, L
    <3>4. CASE \E v \in Listed : l = ReenableLine(v, view) /\ Reenabled(v)
      <4>1. PICK v \in Listed : l = ReenableLine(v, view) /\ Reenabled(v)
        BY <3>4
      <4>2. admin[v] # "none" /\ (QueueTracksRole \/ queue[v] = view[v].queue)
        BY <2>1, <2>2, <3>1, <4>1 DEF VPNPhaseInStep
      <4>3. QED
        BY <2>2, <4>1, <4>2 DEF Accepts, ReenableLine, L
    <3>5. QED
      BY <2>1, <3>1, <3>2, <3>3, <3>4, VPNPhaseLines DEF VPNPhaseInStep
  <2>5. QED
    BY <2>2, <2>3, <2>4
<1>2. TypeOK /\ PlanInStep => PlanAccepted
  BY <1>1 DEF PlanAccepted
<1>3. QED
  BY <1>2, TypeCorrect, PlanAlwaysInStep, PTL

\* While the mate matches no run stops replication on a listed VPN.
THEOREM MatchingMateNeverStops == Spec => MatchingMateStopsNothing
<1>1. ASSUME TypeOK, PlanInStep, [Next]_vars, name = MateName, addrs = MateAddrs, alone, alone',
             NEW v \in Listed, admin[v] = "enabled"
      PROVE  admin'[v] = "enabled"
  <2> USE DEF vars, brokerVars, runVars, boundVars
  <2>1. CASE UNCHANGED admin
    BY <1>1, <2>1
  <2>2. ASSUME NEW l \in script, ExecuteLine(l) PROVE admin'[v] = "enabled"
    <3>0. Effect(l) /\ have \in Mates /\ view \in Views /\ v \in VPNs
      BY <1>1, <2>2, VPNsAssumption DEF ExecuteLine, TypeOK
    <3>1. CASE pc = "phase1"
      <4>1. MatePhaseInStep
        BY <1>1, <3>1 DEF PlanInStep
      <4>2. \A u \in VPNs : L("stop", u) \notin script
        BY <1>1, <4>1 DEF MatePhaseInStep, MateDiffers
      <4>3. QED
        BY <1>1, <3>0, <4>1, <4>2 DEF MatePhaseInStep
    <3>2. CASE pc = "phase2"
      <4>1. VPNPhaseInStep /\ MateDiffers(have) \in BOOLEAN
        BY <1>1, <3>2 DEF PlanInStep, MateDiffers
      <4>2. (l.op \in {"stop", "shutdown"}) => l.arg # v
        <5>1. l \in VPNPhase(view, MateDiffers(have))
          BY <4>1 DEF VPNPhaseInStep
        <5>2. QED
          BY <1>1, <5>1, VPNPhaseLines DEF ReenableLine, L
      <4>3. QED
        BY <1>1, <3>0, <4>2 DEF Effect, TypeOK
    <3>3. QED
      BY <2>2, <3>1, <3>2 DEF ExecuteLine
  <2>3. QED
    BY <1>1, <2>1, <2>2 DEF Next, RunStep, Start, Answer, ReadMate, ReadVPNs, RefuseLine,
       LoseContact, OrphanLine, OutsideMate, OutsideVPN
<1>2. TypeOK /\ PlanInStep /\ [Next]_vars
        => [name = MateName /\ addrs = MateAddrs /\ alone /\ alone' =>
              \A v \in Listed : admin[v] = "enabled" => admin'[v] = "enabled"]_vars
  BY <1>1
<1>3. QED
  BY <1>2, TypeCorrect, PlanAlwaysInStep, PTL DEF Spec, MatchingMateStopsNothing
===============================================================================
