------------------------ MODULE ReplicationSwitch_proofs ------------------------
(***************************************************************************)
(* Theorems about ReplicationSwitch, for any number of runs, VPNs and      *)
(* failures.                                                               *)
(***************************************************************************)
EXTENDS ReplicationSwitch, FiniteSetTheorems, TLAPS

\* With two sites, the other one is a site, and is another one.
LEMMA OtherSite ==
  \A s \in Sites : /\ Other(s) \in Sites
                   /\ Other(s) # s
                   /\ \A t \in Sites : t = s \/ t = Other(s)
BY SitesAssumption DEF Other

-------------------------------------------------------------------------------
(* Type correctness *)

LEMMA InitTypeOK == Init => TypeOK
BY FilesAssumption DEF Init, TypeOK, NoView, Unread, Reading, Role, Admin, Phase

LEMMA ReadRolesType ==
  ASSUME TypeOK, NEW s \in Sites
  PROVE  ReadRoles(s) \in [VPNs -> Reading]
BY DEF TypeOK, ReadRoles, Reading

LEMMA WriteOfType ==
  ASSUME TypeOK, NEW r \in Runs, NEW v \in VPNs
  PROVE  WriteOf(r, v) \in Command /\ WriteOf(r, v).site \in Sites
<1>1. file[r][v] \in Sites
  BY FilesAssumption DEF TypeOK
<1>2. QED
  BY <1>1, OtherSite DEF WriteOf, Command, Settable

LEMMA ApplyType ==
  ASSUME TypeOK, NEW c \in Command, Apply(c)
  PROVE  role' \in [Sites -> [VPNs -> Role]]
BY DEF TypeOK, Apply, Command, Role, Settable

LEMMA FinishType ==
  ASSUME TypeOK, NEW r \in Runs, NEW o \in Phase, Finish(r, o)
  PROVE  /\ pc' \in [Runs -> Phase]
         /\ seen' \in [Runs -> SUBSET Sites]
         /\ view' \in [Runs -> [Sites -> [VPNs -> Reading]]]
         /\ bad' \in [Runs -> BOOLEAN]
         /\ moves' \in [Runs -> SUBSET VPNs]
         /\ todo' \in [Runs -> SUBSET VPNs]
         /\ step' \in [Runs -> {"ready", "uploaded", "executed"}]
BY DEF TypeOK, Finish, Enter, NoView, Unread, Reading, Role, Admin

LEMMA AdvanceType ==
  ASSUME TypeOK, NEW r \in Runs, NEW v \in VPNs, Advance(r, v)
  PROVE  /\ pc' \in [Runs -> Phase]
         /\ seen' \in [Runs -> SUBSET Sites]
         /\ view' \in [Runs -> [Sites -> [VPNs -> Reading]]]
         /\ bad' \in [Runs -> BOOLEAN]
         /\ moves' \in [Runs -> SUBSET VPNs]
         /\ todo' \in [Runs -> SUBSET VPNs]
         /\ step' \in [Runs -> {"ready", "uploaded", "executed"}]
<1>1. PhaseAfter(pc[r]) \in Phase
  BY DEF PhaseAfter, Phase, Running
<1>2. NoView \in [Sites -> [VPNs -> Reading]]
  BY DEF NoView, Unread, Reading, Role, Admin
<1>3. QED
  BY ZenonT(60), <1>1, <1>2 DEF TypeOK, Advance, Enter, readVars

LEMMA ReadType ==
  ASSUME TypeOK, NEW r \in Runs, NEW s \in Sites, NEW p \in Phase, Read(r, s, p)
  PROVE  /\ pc' \in [Runs -> Phase]
         /\ seen' \in [Runs -> SUBSET Sites]
         /\ view' \in [Runs -> [Sites -> [VPNs -> Reading]]]
BY ReadRolesType DEF TypeOK, Read, Visit

LEMMA GateType ==
  ASSUME TypeOK, NEW r \in Runs, NEW s \in Sites, NEW ok \in BOOLEAN,
         NEW p \in Phase, Gate(r, s, ok, p)
  PROVE  TypeOK'
<1> USE DEF brokerVars, wireVars, boundVars, writeVars
<1>u. UNCHANGED <<brokerVars, wireVars, file, boundVars>>
  BY DEF Gate
<1>1. CASE Finish(r, "refused")
  BY <1>1, <1>u, FinishType DEF TypeOK, Phase, Outcome
<1>2. CASE /\ Visit(r, s)
           /\ bad' = [bad EXCEPT ![r] = bad[r] \/ ~ok]
           /\ UNCHANGED <<pc, view, writeVars>>
  BY <1>2, <1>u DEF TypeOK, Visit
<1>3. CASE Enter(r, p) /\ UNCHANGED <<view, writeVars>>
  BY <1>3, <1>u DEF TypeOK, Enter
<1>4. QED
  BY <1>1, <1>2, <1>3 DEF Gate

LEMMA ScriptLeftType ==
  ASSUME TypeOK, NEW r \in Runs, ScriptLeft(r)
  PROVE  /\ script' \in [Sites -> SUBSET Command]
         /\ \A s \in Sites : \A c \in script'[s] : c.site = s
<1>1. CASE UNCHANGED script
  BY <1>1 DEF TypeOK
<1>2. CASE \E v \in VPNs :
             \/ script' = [script EXCEPT ![WriteOf(r, v).site] = {WriteOf(r, v)}]
             \/ script' = [script EXCEPT ![WriteOf(r, v).site] = {}]
  <2>1. PICK x \in Sites, C \in SUBSET Command :
               script' = [script EXCEPT ![x] = C] /\ \A c \in C : c.site = x
    <3>1. PICK v \in VPNs :
                 \/ script' = [script EXCEPT ![WriteOf(r, v).site] = {WriteOf(r, v)}]
                 \/ script' = [script EXCEPT ![WriteOf(r, v).site] = {}]
      BY <1>2
    <3>2. {WriteOf(r, v)} \in SUBSET Command /\ {} \in SUBSET Command
      BY WriteOfType
    <3>3. CASE script' = [script EXCEPT ![WriteOf(r, v).site] = {WriteOf(r, v)}]
      BY <3>2, <3>3, WriteOfType, Zenon
    <3>4. CASE script' = [script EXCEPT ![WriteOf(r, v).site] = {}]
      BY <3>2, <3>4, WriteOfType, Zenon
    <3>5. QED
      BY <3>1, <3>3, <3>4
  <2>2. script' \in [Sites -> SUBSET Command]
    BY <2>1 DEF TypeOK
  <2>3. ASSUME NEW s \in Sites, NEW c \in script'[s] PROVE c.site = s
    BY <2>1, <2>3 DEF TypeOK
  <2>4. QED
    BY <2>2, <2>3
<1>3. QED
  BY <1>1, <1>2 DEF ScriptLeft

LEMMA InFlightType ==
  ASSUME TypeOK, NEW r \in Runs, NEW v \in VPNs
  PROVE  InFlight(r, v) \subseteq Command
BY WriteOfType DEF InFlight, TypeOK

\* Every action keeps every variable in its type.
LEMMA NextTypeOK == TypeOK /\ [Next]_vars => TypeOK'
<1> SUFFICES ASSUME TypeOK, [Next]_vars PROVE TypeOK'
  OBVIOUS
<1> USE DEF vars, brokerVars, wireVars, readVars, writeVars, boundVars
<1>a. ASSUME NEW r \in Runs, Start(r) PROVE TypeOK'
  BY <1>a DEF TypeOK, Start, Enter, Phase, Running
<1>b. ASSUME NEW r \in Runs, NEW s \in Sites,
             CheckPrimaryActive(r, s) \/ CheckMateNamed(r, s) PROVE TypeOK'
  <2>1. primaryActive[s] \in BOOLEAN /\ mateNamed[s] \in BOOLEAN
    BY DEF TypeOK
  <2>2. "mate" \in Phase /\ "roles" \in Phase
    BY DEF Phase, Running
  <2>3. CASE CheckPrimaryActive(r, s)
    BY <2>1, <2>2, <2>3, GateType DEF CheckPrimaryActive
  <2>4. CASE CheckMateNamed(r, s)
    BY <2>1, <2>2, <2>4, GateType DEF CheckMateNamed
  <2>5. QED
    BY <1>b, <2>3, <2>4
<1>c. ASSUME NEW r \in Runs, NEW s \in Sites, ReadBefore(r, s) PROVE TypeOK'
  <2>1. Read(r, s, "plan") /\ "plan" \in Phase
    BY <1>c DEF ReadBefore, Phase, Running
  <2>2. QED
    BY <1>c, <2>1, ReadType DEF TypeOK, Read, ReadBefore
<1>d. ASSUME NEW r \in Runs, NEW s \in Sites, Reread(r, s) PROVE TypeOK'
  <2>1. Read(r, s, "promote") /\ "promote" \in Phase
    BY <1>d DEF Reread, Phase, Running
  <2>2. QED
    BY <1>d, <2>1, ReadType DEF TypeOK, Read, Reread
<1>e. ASSUME NEW r \in Runs, Plan(r) PROVE TypeOK'
  <2>1. CASE Finish(r, "refused") \/ Finish(r, "ok")
    BY <1>e, <2>1, FinishType DEF TypeOK, Plan, Phase, Outcome
  <2>2. CASE /\ moves' = [moves EXCEPT ![r] = Moves(r)]
             /\ view' = [view EXCEPT ![r] = NoView]
             /\ Enter(r, "ask")
             /\ UNCHANGED <<todo, step>>
    BY <1>e, <2>2 DEF TypeOK, Plan, Moves, Enter, Phase, Running, NoView, Unread,
       Reading, Role, Admin
  <2>3. QED
    BY <1>e, <2>1, <2>2 DEF Plan
<1>f. ASSUME NEW r \in Runs, Answer(r) PROVE TypeOK'
  <2>1. CASE Finish(r, "declined")
    BY <1>f, <2>1, FinishType DEF TypeOK, Answer, Phase, Outcome
  <2>2. CASE todo' = [todo EXCEPT ![r] = moves[r]] /\ Enter(r, "demote")
             /\ UNCHANGED <<view, moves, step>>
    BY <1>f, <2>2 DEF TypeOK, Answer, Enter, Phase, Running
  <2>3. QED
    BY <1>f, <2>1, <2>2 DEF Answer
<1>g. ASSUME NEW r \in Runs, NEW v \in VPNs, Upload(r, v) PROVE TypeOK'
  BY <1>g, WriteOfType DEF TypeOK, Upload
<1>h. ASSUME NEW r \in Runs, NEW v \in VPNs, Execute(r, v) PROVE TypeOK'
  <2>1. PICK c \in Command : Apply(c)
    BY <1>h, WriteOfType DEF Execute, TypeOK
  <2>2. QED
    BY <1>h, <2>1, ApplyType DEF TypeOK, Execute
<1>i. ASSUME NEW r \in Runs, NEW v \in VPNs, ExecuteNothing(r, v) PROVE TypeOK'
  BY <1>i, BoundsAssumption DEF TypeOK, ExecuteNothing
<1>j. ASSUME NEW r \in Runs, NEW v \in VPNs, RemoveScript(r, v) PROVE TypeOK'
  BY <1>j, WriteOfType, AdvanceType DEF TypeOK, RemoveScript
<1>k. ASSUME NEW r \in Runs, NEW v \in VPNs, PostSEMP(r, v) PROVE TypeOK'
  BY <1>k, WriteOfType, ApplyType, AdvanceType DEF TypeOK, PostSEMP
<1>l. ASSUME NEW r \in Runs, NEW v \in VPNs, StopMoved(r, v) PROVE TypeOK'
  BY <1>l, FinishType DEF TypeOK, StopMoved, Phase, Outcome
<1>m. ASSUME NEW r \in Runs, NEW s \in Sites, ConfirmDemotions(r, s) PROVE TypeOK'
  <2>1. CASE Finish(r, "failed")
    BY <1>m, <2>1, FinishType DEF TypeOK, ConfirmDemotions, Phase, Outcome
  <2>2. CASE Visit(r, s) /\ UNCHANGED <<pc, view, bad, writeVars>>
    BY <1>m, <2>2 DEF TypeOK, ConfirmDemotions, Visit
  <2>3. CASE Enter(r, "reread") /\ UNCHANGED <<view, writeVars>>
    BY <1>m, <2>3 DEF TypeOK, ConfirmDemotions, Enter, Phase, Running
  <2>4. QED
    BY <1>m, <2>1, <2>2, <2>3 DEF ConfirmDemotions
<1>n. ASSUME NEW r \in Runs, NEW s \in Sites, Verify(r, s) PROVE TypeOK'
  <2>1. CASE Finish(r, IF bad[r] \/ ~AsTheFileSays(r, s) THEN "failed" ELSE "ok")
    BY <1>n, <2>1, FinishType DEF TypeOK, Verify, Phase, Outcome
  <2>2. CASE /\ Visit(r, s)
             /\ bad' = [bad EXCEPT ![r] = bad[r] \/ ~AsTheFileSays(r, s)]
             /\ UNCHANGED <<pc, view, writeVars>>
    <3>1. AsTheFileSays(r, s) \in BOOLEAN
      BY DEF AsTheFileSays
    <3>2. QED
      BY <1>n, <2>2, <3>1 DEF TypeOK, Verify, Visit
  <2>3. QED
    BY <1>n, <2>1, <2>2 DEF Verify
<1>o. ASSUME NEW r \in Runs, Fail(r) PROVE TypeOK'
  BY <1>o, FinishType, ScriptLeftType, BoundsAssumption DEF TypeOK, Fail, Phase, Outcome
<1>p. ASSUME NEW r \in Runs, NEW v \in VPNs, FailInFlight(r, v) PROVE TypeOK'
  <2>1. PICK c \in Command : \/ Apply(c) /\ UNCHANGED late
                             \/ late' = late \cup {c} /\ UNCHANGED role
    BY <1>p, InFlightType DEF FailInFlight
  <2>2. role' \in [Sites -> [VPNs -> Role]] /\ late' \subseteq Command
    BY <2>1, ApplyType DEF TypeOK
  <2>3. QED
    BY <1>p, <2>2, FinishType, ScriptLeftType, BoundsAssumption
    DEF TypeOK, FailInFlight, Phase, Outcome
<1>q. ASSUME NEW c \in late, ExecuteLate(c) PROVE TypeOK'
  <2>1. c \in Command
    BY DEF TypeOK
  <2>2. QED
    BY <1>q, <2>1, ApplyType DEF TypeOK, ExecuteLate
<1>r. ASSUME NEW s \in Sites, NEW v \in VPNs, OutsideRole(s, v) PROVE TypeOK'
  <2>1. PICK x \in Settable : Apply([site |-> s, vpn |-> v, role |-> x])
    BY <1>r DEF OutsideRole
  <2>2. role' \in [Sites -> [VPNs -> Role]]
    BY <2>1, ApplyType DEF Command
  <2>3. QED
    BY <1>r, <2>2, BoundsAssumption DEF TypeOK, OutsideRole, RunVars
<1>s. ASSUME NEW s \in Sites, NEW v \in VPNs, OutsideAdmin(s, v) PROVE TypeOK'
  BY <1>s, BoundsAssumption DEF TypeOK, OutsideAdmin, RunVars, Admin
<1>t. ASSUME NEW s \in Sites, OutsideFailover(s) \/ OutsideMate(s) PROVE TypeOK'
  <2>1. outside' \in Nat
    BY <1>t DEF TypeOK, OutsideFailover, OutsideMate
  <2>2. CASE OutsideFailover(s)
    BY <2>1, <2>2 DEF TypeOK, OutsideFailover, RunVars
  <2>3. CASE OutsideMate(s)
    BY <2>1, <2>3 DEF TypeOK, OutsideMate, RunVars
  <2>4. QED
    BY <1>t, <2>2, <2>3
<1>u. CASE UNCHANGED vars
  BY <1>u DEF TypeOK
<1>v. QED
  BY <1>a, <1>b, <1>c, <1>d, <1>e, <1>f, <1>g, <1>h, <1>i, <1>j, <1>k, <1>l, <1>m,
     <1>n, <1>o, <1>p, <1>q, <1>r, <1>s, <1>t, <1>u
  DEF Next, RunStep, RunFault, Somebody

\* The state of the brokers and of every run stays well formed, whatever the
\* runs, the failures and everybody else do.
THEOREM TypeCorrect == Spec => []TypeOK
BY InitTypeOK, NextTypeOK, PTL DEF Spec

-------------------------------------------------------------------------------
(* Refinement: one env file, nobody else writing *)

\* What a step may do, in the terms of the inductive invariant.
RoleStep == UNCHANGED role \/ \E c \in Command : Safe(c) /\ Apply(c)

WireStep ==
  /\ \A c \in late' : Safe(c)
  /\ \A s \in Sites : \A c \in script'[s] : Safe(c)

ReadStep ==
  \A q \in Runs :
    /\ pc'[q] \in HoldsReadings => \A s \in seen'[q] :
         \/ s \in seen[q] /\ pc[q] \in HoldsReadings /\ view'[q][s] = view[q][s]
         \/ view'[q][s] = ReadRoles(s) /\ UNCHANGED role
    /\ pc'[q] \in {"plan", "promote"} => seen'[q] = Sites

PlanStep == \A q \in Runs : \A v \in moves'[q] \cup todo'[q] : ~Split(v)

GoodStep == UNCHANGED file /\ RoleStep /\ WireStep /\ ReadStep /\ PlanStep

LEMMA TheFile ==
  ASSUME TypeOK, NEW r \in Runs
  PROVE  /\ file[r] \in [VPNs -> Sites]
         /\ OneEnvFile => \A q \in Runs : file[q] = file[r]
BY FilesAssumption DEF TypeOK, OneEnvFile

\* The write a run is about to make is safe.
LEMMA WriteSafe ==
  ASSUME TypeOK, NeverTwoActives, OneEnvFile, NEW r \in Runs, NEW v \in VPNs,
         NextWrite(r, v), ~MovedSince(r, v)
  PROVE  Safe(WriteOf(r, v))
<1> DEFINE c == WriteOf(r, v)
<1>1. ~Split(v)
  BY DEF NeverTwoActives, SplitNotPlanned, NextWrite
<1>2. file[r][v] \in Sites /\ \A q \in Runs : file[q] = file[r]
  BY TheFile
<1>3. CASE pc[r] = "demote"
  <2>1. c.vpn = v /\ c.role = "standby" /\ c.site = Other(file[r][v])
    BY <1>3 DEF WriteOf
  <2>2. QED
    BY <1>1, <1>2, <2>1 DEF Safe
<1>4. CASE pc[r] = "promote"
  <2>1. c.vpn = v /\ c.role = "active" /\ c.site = file[r][v]
    BY <1>4 DEF WriteOf
  <2>2. Other(file[r][v]) \in Sites
    BY <1>2, OtherSite
  <2>3. view[r][Other(file[r][v])][v].role # "active"
    BY <1>4, <2>2 DEF MovedSince
  <2>4. seen[r] = Sites
    BY <1>4 DEF NeverTwoActives, BothRead
  <2>5. role[Other(file[r][v])][v] # "active"
    BY <1>4, <2>2, <2>3, <2>4 DEF NeverTwoActives, ReadingsHold, HoldsReadings
  <2>6. QED
    BY <1>1, <1>2, <2>1, <2>5 DEF Safe
<1>5. QED
  BY <1>3, <1>4 DEF NextWrite

\* A run that is over, or that goes on to a phase with nothing read in it.
LEMMA FinishReads ==
  ASSUME TypeOK, NeverTwoActives, NEW r \in Runs, NEW o \in Outcome, Finish(r, o)
  PROVE  ReadStep /\ PlanStep
<1>1. ReadStep
  BY DEF TypeOK, NeverTwoActives, BothRead, Finish, Enter, ReadStep, HoldsReadings, Outcome
<1>2. PlanStep
  BY DEF TypeOK, NeverTwoActives, SplitNotPlanned, Finish, PlanStep
<1>3. QED
  BY <1>1, <1>2

LEMMA EnterReads ==
  ASSUME TypeOK, NeverTwoActives, NEW r \in Runs, NEW p, p \notin {"plan", "promote"},
         Enter(r, p), \A q \in Runs : q # r => view'[q] = view[q]
  PROVE  ReadStep
BY DEF TypeOK, NeverTwoActives, BothRead, Enter, ReadStep, HoldsReadings

LEMMA SameReads ==
  ASSUME NeverTwoActives, UNCHANGED <<pc, readVars>>
  PROVE  ReadStep
BY DEF NeverTwoActives, BothRead, ReadStep, readVars

LEMMA SamePlan ==
  ASSUME TypeOK, NeverTwoActives, UNCHANGED moves,
         \A q \in Runs : todo'[q] \subseteq todo[q] \cup moves[q]
  PROVE  PlanStep
BY DEF TypeOK, NeverTwoActives, SplitNotPlanned, PlanStep

LEMMA SameWire ==
  ASSUME NeverTwoActives, UNCHANGED wireVars
  PROVE  WireStep
BY DEF NeverTwoActives, CommandsSafe, WireStep, wireVars

LEMMA GateGood ==
  ASSUME TypeOK, NeverTwoActives, NEW r \in Runs, NEW s \in Sites, NEW ok,
         pc[r] \in {"primary", "mate"}, NEW p \in {"mate", "roles"}, Gate(r, s, ok, p)
  PROVE  GoodStep
<1>1. UNCHANGED <<role, file>> /\ WireStep
  BY SameWire DEF Gate, brokerVars
<1>2. CASE Finish(r, "refused")
  BY <1>1, <1>2, FinishReads DEF GoodStep, RoleStep, Outcome
<1>3. CASE Visit(r, s) /\ UNCHANGED <<pc, view, writeVars>>
  <2>1. ReadStep
    BY <1>3 DEF TypeOK, NeverTwoActives, BothRead, ReadStep, Visit, HoldsReadings
  <2>2. PlanStep
    BY <1>3, SamePlan DEF writeVars
  <2>3. QED
    BY <1>1, <2>1, <2>2 DEF GoodStep, RoleStep
<1>4. CASE Enter(r, p) /\ UNCHANGED <<view, writeVars>>
  BY <1>1, <1>4, EnterReads, SamePlan DEF GoodStep, RoleStep, writeVars
<1>5. QED
  BY <1>2, <1>3, <1>4 DEF Gate

LEMMA AdvanceGood ==
  ASSUME TypeOK, NeverTwoActives, NEW r \in Runs, NEW v \in VPNs, Advance(r, v)
  PROVE  ReadStep /\ PlanStep
<1>1. PlanStep
  BY SamePlan DEF TypeOK, Advance
<1>2. CASE UNCHANGED <<pc, readVars>>
  BY <1>1, <1>2, SameReads
<1>3. CASE /\ Enter(r, PhaseAfter(pc[r]))
           /\ view' = [view EXCEPT ![r] = NoView]
  <2>1. PhaseAfter(pc[r]) \notin {"plan", "promote"}
    BY DEF PhaseAfter
  <2>2. QED
    BY <1>1, <1>3, <2>1, EnterReads DEF TypeOK
<1>4. QED
  BY <1>2, <1>3 DEF Advance

LEMMA ScriptLeftGood ==
  ASSUME TypeOK, NeverTwoActives, OneEnvFile, NEW r \in Runs, ScriptLeft(r)
  PROVE  \A s \in Sites : \A c \in script'[s] : Safe(c)
<1>1. \A s \in Sites : \A c \in script[s] : Safe(c)
  BY DEF NeverTwoActives, CommandsSafe
<1>2. CASE UNCHANGED script
  BY <1>1, <1>2
<1>3. ASSUME NEW v \in VPNs, NextWrite(r, v), ~MovedSince(r, v),
             script' = [script EXCEPT ![WriteOf(r, v).site] = {WriteOf(r, v)}]
      PROVE  \A s \in Sites : \A c \in script'[s] : Safe(c)
  <2>1. Safe(WriteOf(r, v))
    BY <1>3, WriteSafe
  <2>2. QED
    BY <1>1, <1>3, <2>1 DEF TypeOK
<1>4. ASSUME NEW v \in VPNs,
             script' = [script EXCEPT ![WriteOf(r, v).site] = {}]
      PROVE  \A s \in Sites : \A c \in script'[s] : Safe(c)
  BY <1>1, <1>4 DEF TypeOK
<1>5. QED
  BY <1>2, <1>3, <1>4 DEF ScriptLeft

LEMMA ReadGood ==
  ASSUME TypeOK, NeverTwoActives, NEW r \in Runs, NEW s \in Sites,
         pc[r] \in {"roles", "reread"}, NEW p \in {"plan", "promote"}, Read(r, s, p)
  PROVE  ReadStep /\ WireStep /\ UNCHANGED <<role, file, moves>>
<1>1. UNCHANGED <<role, file, moves>> /\ WireStep
  BY SameWire DEF Read, brokerVars
<1>2. ASSUME NEW q \in Runs, q # r
      PROVE  pc'[q] = pc[q] /\ seen'[q] = seen[q] /\ view'[q] = view[q]
  BY <1>2 DEF Read, Visit, TypeOK
<1>3. /\ pc'[r] = IF Last(r, s) THEN p ELSE pc[r]
      /\ seen'[r] = seen[r] \cup {s}
      /\ view'[r] = [view[r] EXCEPT ![s] = ReadRoles(s)]
  BY DEF Read, Visit, TypeOK
<1>4. \A t \in seen'[r] : \/ t \in seen[r] /\ view'[r][t] = view[r][t]
                          \/ view'[r][t] = ReadRoles(t)
  BY <1>3 DEF TypeOK
<1>5. pc'[r] \in {"plan", "promote"} => seen'[r] = Sites
  BY <1>3 DEF Last
<1>6. ASSUME NEW q \in Runs
      PROVE  /\ pc'[q] \in HoldsReadings => \A t \in seen'[q] :
                  \/ t \in seen[q] /\ pc[q] \in HoldsReadings /\ view'[q][t] = view[q][t]
                  \/ view'[q][t] = ReadRoles(t) /\ UNCHANGED role
             /\ pc'[q] \in {"plan", "promote"} => seen'[q] = Sites
  <2>1. CASE q = r
    BY <1>1, <1>4, <1>5, <2>1 DEF HoldsReadings
  <2>2. CASE q # r
    BY <1>2, <2>2 DEF NeverTwoActives, BothRead
  <2>3. QED
    BY <2>1, <2>2
<1>7. QED
  BY <1>1, <1>6 DEF ReadStep

\* Every action is a good step.
LEMMA NextGood ==
  ASSUME TypeOK, NeverTwoActives, OneEnvFile, MaxOutside = 0, Next
  PROVE  GoodStep
<1> USE DEF brokerVars, wireVars, boundVars
<1>a. ASSUME NEW r \in Runs, Start(r) PROVE GoodStep
  BY <1>a, EnterReads, SamePlan, SameWire DEF Start, GoodStep, RoleStep, writeVars
<1>b. ASSUME NEW r \in Runs, NEW s \in Sites,
             CheckPrimaryActive(r, s) \/ CheckMateNamed(r, s) PROVE GoodStep
  BY <1>b, GateGood DEF CheckPrimaryActive, CheckMateNamed
<1>c. ASSUME NEW r \in Runs, NEW s \in Sites, ReadBefore(r, s) PROVE GoodStep
  BY <1>c, ReadGood, SamePlan DEF ReadBefore, GoodStep, RoleStep
<1>d. ASSUME NEW r \in Runs, NEW s \in Sites, Reread(r, s) PROVE GoodStep
  <2>1. PlanStep
    BY <1>d, ReadGood, SamePlan DEF Reread, TypeOK
  <2>2. QED
    BY <1>d, <2>1, ReadGood DEF Reread, GoodStep, RoleStep
<1>e. ASSUME NEW r \in Runs, Plan(r) PROVE GoodStep
  <2>1. UNCHANGED <<role, file>> /\ WireStep
    BY <1>e, SameWire DEF Plan
  <2>2. CASE Finish(r, "refused") \/ Finish(r, "ok")
    BY <2>1, <2>2, FinishReads DEF GoodStep, RoleStep, Outcome
  <2>3. CASE /\ ~Refusal(r)
             /\ moves' = [moves EXCEPT ![r] = Moves(r)]
             /\ view' = [view EXCEPT ![r] = NoView]
             /\ Enter(r, "ask")
             /\ UNCHANGED <<todo, step>>
    <3>1. \A v \in VPNs : ~Split(v)
      BY <1>e, <2>3 DEF Plan, Refusal, SplitAtRead, NeverTwoActives, BothRead,
         ReadingsHold, HoldsReadings
    <3>2. PlanStep
      BY <2>3, <3>1 DEF PlanStep, TypeOK, Moves
    <3>3. ReadStep
      BY <2>3, EnterReads DEF TypeOK
    <3>4. QED
      BY <2>1, <3>2, <3>3 DEF GoodStep, RoleStep
  <2>4. QED
    BY <1>e, <2>2, <2>3 DEF Plan
<1>f. ASSUME NEW r \in Runs, Answer(r) PROVE GoodStep
  <2>1. UNCHANGED <<role, file>> /\ WireStep
    BY <1>f, SameWire DEF Answer
  <2>2. CASE Finish(r, "declined")
    BY <2>1, <2>2, FinishReads DEF GoodStep, RoleStep, Outcome
  <2>3. CASE todo' = [todo EXCEPT ![r] = moves[r]] /\ Enter(r, "demote")
             /\ UNCHANGED <<view, moves, step>>
    <3>1. PlanStep
      BY <2>3, SamePlan DEF TypeOK
    <3>2. QED
      BY <2>1, <2>3, <3>1, EnterReads DEF GoodStep, RoleStep
  <2>4. QED
    BY <1>f, <2>2, <2>3 DEF Answer
<1>g. ASSUME NEW r \in Runs, NEW v \in VPNs, Upload(r, v) PROVE GoodStep
  <2>1. ReadStep /\ PlanStep /\ UNCHANGED <<role, file>>
    BY <1>g, SameReads, SamePlan DEF Upload
  <2>2. Safe(WriteOf(r, v))
    BY <1>g, WriteSafe DEF Upload
  <2>3. WireStep
    BY <1>g, <2>2 DEF Upload, WireStep, NeverTwoActives, CommandsSafe, TypeOK
  <2>4. QED
    BY <2>1, <2>3 DEF GoodStep, RoleStep
<1>h. ASSUME NEW r \in Runs, NEW v \in VPNs, Execute(r, v) PROVE GoodStep
  <2>1. ReadStep /\ PlanStep /\ UNCHANGED file /\ WireStep
    BY <1>h, SameReads, SamePlan, SameWire DEF Execute
  <2>2. RoleStep
    BY <1>h, WriteOfType DEF Execute, RoleStep, NeverTwoActives, CommandsSafe, TypeOK
  <2>3. QED
    BY <2>1, <2>2 DEF GoodStep
<1>i. ASSUME NEW r \in Runs, NEW v \in VPNs, ExecuteNothing(r, v) PROVE GoodStep
  BY <1>i, SameReads, SamePlan, SameWire DEF ExecuteNothing, GoodStep, RoleStep
<1>j. ASSUME NEW r \in Runs, NEW v \in VPNs, RemoveScript(r, v) PROVE GoodStep
  <2>1. WireStep
    BY <1>j DEF RemoveScript, WireStep, NeverTwoActives, CommandsSafe, TypeOK
  <2>2. QED
    BY <1>j, <2>1, AdvanceGood DEF RemoveScript, GoodStep, RoleStep
<1>k. ASSUME NEW r \in Runs, NEW v \in VPNs, PostSEMP(r, v) PROVE GoodStep
  <2>1. RoleStep
    BY <1>k, WriteSafe, WriteOfType DEF PostSEMP, RoleStep
  <2>2. QED
    BY <1>k, <2>1, AdvanceGood, SameWire DEF PostSEMP, GoodStep
<1>l. ASSUME NEW r \in Runs, NEW v \in VPNs, StopMoved(r, v) PROVE GoodStep
  BY <1>l, FinishReads, SameWire DEF StopMoved, GoodStep, RoleStep, Outcome
<1>m. ASSUME NEW r \in Runs, NEW s \in Sites, ConfirmDemotions(r, s) PROVE GoodStep
  <2>1. UNCHANGED <<role, file>> /\ WireStep
    BY <1>m, SameWire DEF ConfirmDemotions
  <2>2. CASE Finish(r, "failed")
    BY <2>1, <2>2, FinishReads DEF GoodStep, RoleStep, Outcome
  <2>3. CASE Visit(r, s) /\ UNCHANGED <<pc, view, bad, writeVars>>
    <3>1. ReadStep
      BY <1>m, <2>3 DEF ConfirmDemotions, Visit, ReadStep, HoldsReadings,
         NeverTwoActives, BothRead, TypeOK
    <3>2. QED
      BY <2>1, <2>3, <3>1, SamePlan DEF GoodStep, RoleStep, writeVars
  <2>4. CASE Enter(r, "reread") /\ UNCHANGED <<view, writeVars>>
    BY <2>1, <2>4, EnterReads, SamePlan DEF GoodStep, RoleStep, writeVars
  <2>5. QED
    BY <1>m, <2>2, <2>3, <2>4 DEF ConfirmDemotions
<1>n. ASSUME NEW r \in Runs, NEW s \in Sites, Verify(r, s) PROVE GoodStep
  <2>1. UNCHANGED <<role, file>> /\ WireStep
    BY <1>n, SameWire DEF Verify
  <2>2. CASE Finish(r, IF bad[r] \/ ~AsTheFileSays(r, s) THEN "failed" ELSE "ok")
    BY <2>1, <2>2, FinishReads DEF GoodStep, RoleStep, Outcome
  <2>3. CASE Visit(r, s) /\ UNCHANGED <<pc, view, writeVars>>
    <3>1. ReadStep
      BY <1>n, <2>3 DEF Verify, Visit, ReadStep, HoldsReadings, NeverTwoActives,
         BothRead, TypeOK
    <3>2. QED
      BY <2>1, <2>3, <3>1, SamePlan DEF GoodStep, RoleStep, writeVars
  <2>4. QED
    BY <1>n, <2>2, <2>3 DEF Verify
<1>o. ASSUME NEW r \in Runs, Fail(r) PROVE GoodStep
  <2>1. WireStep
    BY <1>o, ScriptLeftGood DEF Fail, WireStep, NeverTwoActives, CommandsSafe
  <2>2. QED
    BY <1>o, <2>1, FinishReads DEF Fail, GoodStep, RoleStep, Outcome
<1>p. ASSUME NEW r \in Runs, NEW v \in VPNs, FailInFlight(r, v) PROVE GoodStep
  <2>1. \A c \in InFlight(r, v) : c \in Command /\ Safe(c)
    BY <1>p, WriteSafe, WriteOfType, InFlightType DEF FailInFlight, InFlight,
       NeverTwoActives, CommandsSafe
  <2>2. RoleStep /\ \A c \in late' : Safe(c)
    BY <1>p, <2>1 DEF FailInFlight, RoleStep, NeverTwoActives, CommandsSafe
  <2>3. QED
    BY <1>p, <2>2, ScriptLeftGood, FinishReads DEF FailInFlight, GoodStep, WireStep, Outcome
<1>q. ASSUME NEW c \in late, ExecuteLate(c) PROVE GoodStep
  <2>1. WireStep /\ RoleStep
    BY <1>q DEF ExecuteLate, RoleStep, WireStep, NeverTwoActives, CommandsSafe, TypeOK
  <2>2. QED
    BY <1>q, <2>1, SameReads, SamePlan DEF ExecuteLate, GoodStep, writeVars
<1>r. ~Somebody
  BY BoundsAssumption DEF Somebody, OutsideRole, OutsideAdmin, OutsideFailover,
     OutsideMate, TypeOK
<1>s. QED
  BY <1>a, <1>b, <1>c, <1>d, <1>e, <1>f, <1>g, <1>h, <1>i, <1>j, <1>k, <1>l, <1>m,
     <1>n, <1>o, <1>p, <1>q, <1>r
  DEF Next, RunStep, RunFault

\* What a safe command leaves as it was.
LEMMA SafeApply ==
  ASSUME TypeOK, OneEnvFile, NEW c \in Command, Safe(c), Apply(c), UNCHANGED file
  PROVE  /\ \A r \in Runs, v \in VPNs :
              role[Other(file[r][v])][v] # "active" => role'[Other(file[r][v])][v] # "active"
         /\ \A v \in VPNs : Split(v)' => Split(v)
<1>1. c.site \in Sites /\ c.vpn \in VPNs /\ Other(c.site) \in Sites /\ Other(c.site) # c.site
  BY OtherSite DEF Command
<1>2. \A s \in Sites, v \in VPNs :
        role'[s][v] = IF s = c.site /\ v = c.vpn THEN c.role ELSE role[s][v]
  BY <1>1 DEF Apply, TypeOK
<1>3. ASSUME NEW r \in Runs, NEW v \in VPNs, role[Other(file[r][v])][v] # "active"
      PROVE  role'[Other(file[r][v])][v] # "active"
  <2>1. file[r][v] \in Sites /\ Other(file[r][v]) \in Sites /\ Other(file[r][v]) # file[r][v]
    BY TheFile, OtherSite
  <2>2. CASE c.role = "active"
    BY <1>2, <1>3, <2>1, <2>2 DEF Safe
  <2>3. CASE c.role # "active"
    BY <1>2, <1>3, <2>1, <2>3
  <2>4. QED
    BY <2>2, <2>3
<1>4. ASSUME NEW v \in VPNs, Split(v)' PROVE Split(v)
  <2>1. CASE v # c.vpn
    BY <1>2, <1>4, <2>1 DEF Split
  <2>2. CASE v = c.vpn
    <3>1. role[Other(c.site)][v] = "active" /\ c.role = "active"
      BY <1>1, <1>2, <1>4, <2>2 DEF Split
    <3>2. QED
      BY <3>1, <2>2 DEF Safe
  <2>3. QED
    BY <2>1, <2>2
<1>5. QED
  BY <1>3, <1>4

\* The invariant survives every good step.
LEMMA GoodStepInv ==
  ASSUME TypeOK, TypeOK', NeverTwoActives, OneEnvFile, GoodStep
  PROVE  NeverTwoActives'
<1>1. /\ \A r \in Runs, v \in VPNs :
           role[Other(file[r][v])][v] # "active" => role'[Other(file[r][v])][v] # "active"
      /\ \A v \in VPNs : Split(v)' => Split(v)
  <2>1. CASE UNCHANGED role
    BY <2>1 DEF Split
  <2>2. CASE \E c \in Command : Safe(c) /\ Apply(c)
    BY <2>2, SafeApply DEF GoodStep
  <2>3. QED
    BY <2>1, <2>2 DEF GoodStep, RoleStep
<1>2. UNCHANGED file
  BY DEF GoodStep
<1>3. ReadingsHold'
  <2> SUFFICES ASSUME NEW r \in Runs, pc'[r] \in HoldsReadings,
                      NEW s \in seen'[r], NEW v \in VPNs
               PROVE  /\ s = Other(file[r][v]) /\ view'[r][s][v].role # "active"
                           => role'[s][v] # "active"
                      /\ Split(v)' => view'[r][s][v].role = "active"
    BY <1>2 DEF ReadingsHold, HoldsReadings
  <2>1. CASE s \in seen[r] /\ pc[r] \in HoldsReadings /\ view'[r][s] = view[r][s]
    BY <1>1, <2>1 DEF NeverTwoActives, ReadingsHold
  <2>2. CASE view'[r][s] = ReadRoles(s) /\ UNCHANGED role
    <3>1. s \in Sites
      BY DEF TypeOK
    <3>2. view'[r][s][v].role = role'[s][v]
      BY <2>2 DEF ReadRoles
    <3>3. QED
      BY <3>1, <3>2 DEF Split
  <2>3. QED
    BY <2>1, <2>2 DEF GoodStep, ReadStep
<1>4. BothRead'
  BY DEF GoodStep, ReadStep, BothRead
<1>5. SplitNotPlanned'
  BY <1>1 DEF GoodStep, PlanStep, SplitNotPlanned
<1>6. CommandsSafe'
  <2>1. ASSUME NEW c \in Command, Safe(c) PROVE Safe(c)'
    <3>1. PICK r \in Runs : TRUE
      BY RunsAssumption
    <3>2. file[r][c.vpn] \in Sites /\ c.vpn \in VPNs /\ c.role \in {"active", "standby"}
      BY TheFile DEF Command, Settable
    <3>3. c.role = "active" => role'[Other(c.site)][c.vpn] # "active"
      BY <1>1, <2>1, <3>2 DEF Safe
    <3>4. ~Split(c.vpn)'
      BY <1>1, <2>1, <3>2 DEF Safe
    <3>5. QED
      BY <1>2, <2>1, <3>3, <3>4 DEF Safe
  <2>2. QED
    BY <2>1 DEF GoodStep, WireStep, CommandsSafe, TypeOK
<1>7. QED
  BY <1>3, <1>4, <1>5, <1>6 DEF NeverTwoActives

LEMMA InitNeverTwoActives == Init => NeverTwoActives
BY DEF Init, NeverTwoActives, ReadingsHold, BothRead, SplitNotPlanned, CommandsSafe,
   HoldsReadings

LEMMA NextNeverTwoActives ==
  ASSUME TypeOK, NeverTwoActives, OneEnvFile, MaxOutside = 0, [Next]_vars
  PROVE  NeverTwoActives'
<1>1. TypeOK'
  BY NextTypeOK
<1>2. CASE Next
  BY <1>1, <1>2, NextGood, GoodStepInv
<1>3. CASE UNCHANGED vars
  BY <1>3 DEF vars, brokerVars, wireVars, readVars, writeVars, NeverTwoActives,
     ReadingsHold, BothRead, SplitNotPlanned, CommandsSafe, Safe, Split, HoldsReadings
<1>4. QED
  BY <1>2, <1>3

\* One env file, and nobody else writing: every reading a run still relies on
\* and every command still under way is safe to act on, at any time.
THEOREM SwitchSafe ==
  ASSUME OneEnvFile, MaxOutside = 0
  PROVE  Spec => []NeverTwoActives
<1>1. TypeOK /\ NeverTwoActives /\ [Next]_vars => TypeOK' /\ NeverTwoActives'
  BY NextTypeOK, NextNeverTwoActives
<1>2. QED
  BY InitTypeOK, InitNeverTwoActives, <1>1, PTL DEF Spec

\* A safe command is one step of the abstract pair.
LEMMA SafePairStep ==
  ASSUME TypeOK, NEW c \in Command, Safe(c), Apply(c)
  PROVE  [Pair!Next]_holder
<1> DEFINE v == c.vpn
           s == c.site
<1>1. s \in Sites /\ v \in VPNs /\ Other(s) \in Sites /\ Other(s) # s /\ Sites = {s, Other(s)}
  BY OtherSite DEF Command
<1>2. \A t \in Sites, w \in VPNs : role'[t][w] = IF t = s /\ w = v THEN c.role ELSE role[t][w]
  BY <1>1 DEF Apply, TypeOK
<1>3. holder' = [holder EXCEPT ![v] = holder'[v]]
  <2>1. ASSUME NEW w \in VPNs, w # v PROVE holder'[w] = holder[w]
    <3>1. \A t \in Sites : role'[t][w] = role[t][w]
      BY <1>2, <2>1
    <3>2. QED
      BY <3>1 DEF holder
  <2>2. /\ holder' = [w \in VPNs |-> holder'[w]]
        /\ holder = [w \in VPNs |-> holder[w]]
    BY DEF holder
  <2> HIDE DEF v
  <2>3. QED
    BY <2>1, <2>2
<1>4. holder[v] = {t \in Sites : role[t][v] = "active"}
  BY <1>1 DEF holder
<1>5. holder'[v] = {t \in Sites : role'[t][v] = "active"}
  BY <1>1 DEF holder
<1>6. CASE c.role = "active"
  <2>1. role[Other(s)][v] # "active"
    BY <1>6 DEF Safe
  <2>2. holder'[v] = {s}
    BY <1>1, <1>2, <1>5, <1>6, <2>1
  <2>3. CASE role[s][v] = "active"
    <3>1. holder[v] = {s}
      BY <1>1, <1>4, <2>1, <2>3
    <3>2. holder = [w \in VPNs |-> holder[w]]
      BY DEF holder
    <3>3. QED
      BY <1>1, <1>3, <2>2, <3>1, <3>2
  <2>4. CASE role[s][v] # "active"
    <3>1. holder[v] = {}
      BY <1>1, <1>4, <2>1, <2>4
    <3>2. Pair!Acquire(v, s)
      BY <1>3, <2>2, <3>1 DEF Pair!Acquire
    <3>3. QED
      BY <1>1, <3>2 DEF Pair!Next
  <2>5. QED
    BY <2>3, <2>4
<1>7. CASE c.role # "active"
  <2>1. CASE role[s][v] # "active"
    <3>1. \A t \in Sites : role'[t][v] = "active" <=> role[t][v] = "active"
      BY <1>1, <1>2, <1>7, <2>1
    <3>2. holder'[v] = holder[v]
      BY <1>4, <1>5, <3>1
    <3>3. holder = [w \in VPNs |-> holder[w]]
      BY DEF holder
    <3>4. QED
      BY <1>1, <1>3, <3>2, <3>3
  <2>2. CASE role[s][v] = "active"
    <3>1. role[Other(s)][v] # "active"
      BY <1>1, <2>2 DEF Safe, Split
    <3>2. holder[v] = {s} /\ holder'[v] = {}
      BY <1>1, <1>2, <1>4, <1>5, <1>7, <2>2, <3>1
    <3>3. Pair!Release(v)
      BY <1>1, <1>3, <3>2 DEF Pair!Release
    <3>4. QED
      BY <1>1, <3>3 DEF Pair!Next
  <2>3. QED
    BY <2>1, <2>2
<1>8. QED
  BY <1>6, <1>7

\* One env file, and nobody else writing: any number of overlapping, failing and
\* repeated runs give a role up before they take it up, and touch no VPN that
\* is active at both sites.
THEOREM SwitchImplementsRolePair ==
  ASSUME OneEnvFile, MaxOutside = 0
  PROVE  Spec => ImplementsRolePair
<1>1. Init => Pair!Init
  BY DEF Init, Pair!Init, holder
<1>2. TypeOK /\ NeverTwoActives /\ [Next]_vars => [Pair!Next]_holder
  <2> SUFFICES ASSUME TypeOK, NeverTwoActives, [Next]_vars PROVE [Pair!Next]_holder
    OBVIOUS
  <2>1. CASE UNCHANGED role
    BY <2>1 DEF holder
  <2>2. CASE \E c \in Command : Safe(c) /\ Apply(c)
    BY <2>2, SafePairStep
  <2>3. UNCHANGED role \/ \E c \in Command : Safe(c) /\ Apply(c)
    BY NextGood DEF GoodStep, RoleStep, vars, brokerVars
  <2>4. QED
    BY <2>1, <2>2, <2>3
<1>3. QED
  BY <1>1, <1>2, TypeCorrect, SwitchSafe, PTL DEF Spec, Pair!Spec, ImplementsRolePair

\* The same, VPN by VPN: one that is where the file wants it is never moved away.
THEOREM SwitchKeepsPlaced ==
  ASSUME OneEnvFile, MaxOutside = 0
  PROVE  Spec => PlacedStays
<1>1. ASSUME TypeOK, NeverTwoActives, [Next]_vars, NEW r \in Runs, NEW v \in VPNs, Placed(r, v)
      PROVE  Placed(r, v)'
  <2>1. UNCHANGED role \/ \E c \in Command : Safe(c) /\ Apply(c)
    BY <1>1, NextGood DEF GoodStep, RoleStep, vars, brokerVars
  <2>2. UNCHANGED file
    BY <1>1, NextGood DEF GoodStep, vars
  <2>3. CASE UNCHANGED role
    BY <1>1, <2>2, <2>3 DEF Placed
  <2>4. ASSUME NEW c \in Command, Safe(c), Apply(c) PROVE Placed(r, v)'
    <3>1. file[r][v] \in Sites /\ Other(file[r][v]) \in Sites /\ Other(file[r][v]) # file[r][v]
      BY <1>1, TheFile, OtherSite
    <3>2. \A t \in Sites, w \in VPNs :
            role'[t][w] = IF t = c.site /\ w = c.vpn THEN c.role ELSE role[t][w]
      BY <1>1, <2>4 DEF Apply, Command, TypeOK
    <3>3. c.role \in {"active", "standby"}
      BY DEF Command, Settable
    <3>4. c.vpn = v => c.site = IF c.role = "active" THEN file[r][v] ELSE Other(file[r][v])
      BY <2>4 DEF Safe
    <3>5. QED
      BY <1>1, <2>2, <3>1, <3>2, <3>3, <3>4 DEF Placed
  <2>5. QED
    BY <2>1, <2>3, <2>4
<1>2. TypeOK /\ NeverTwoActives /\ [Next]_vars
        => [\A r \in Runs, v \in VPNs : Placed(r, v) => Placed(r, v)']_vars
  BY <1>1
<1>3. QED
  BY <1>2, TypeCorrect, SwitchSafe, PTL DEF Spec, PlacedStays

-------------------------------------------------------------------------------
(* A run changes its own state only *)

SameRun(q) ==
  /\ pc'[q] = pc[q] /\ seen'[q] = seen[q] /\ view'[q] = view[q] /\ bad'[q] = bad[q]
  /\ moves'[q] = moves[q] /\ todo'[q] = todo[q] /\ step'[q] = step[q]

Alone(r) == UNCHANGED file /\ \A q \in Runs : q # r => SameRun(q)

LEMMA FinishAlone ==
  ASSUME TypeOK, NEW r \in Runs, NEW o, Finish(r, o)
  PROVE  /\ \A q \in Runs : q # r => SameRun(q)
         /\ pc'[r] = o /\ seen'[r] = {} /\ bad'[r] = FALSE
BY DEF TypeOK, Finish, Enter, SameRun

LEMMA EnterAlone ==
  ASSUME TypeOK, NEW r \in Runs, NEW p, Enter(r, p)
  PROVE  /\ \A q \in Runs : q # r => pc'[q] = pc[q] /\ seen'[q] = seen[q] /\ bad'[q] = bad[q]
         /\ pc'[r] = p /\ seen'[r] = {} /\ bad'[r] = FALSE
BY DEF TypeOK, Enter

LEMMA GateAlone ==
  ASSUME TypeOK, NEW r \in Runs, NEW s \in Sites, NEW ok, NEW p, Gate(r, s, ok, p)
  PROVE  Alone(r)
<1>1. CASE Finish(r, "refused")
  BY <1>1, FinishAlone DEF Gate, Alone
<1>2. CASE /\ Visit(r, s)
           /\ bad' = [bad EXCEPT ![r] = bad[r] \/ ~ok]
           /\ UNCHANGED <<pc, view, writeVars>>
  BY <1>2 DEF Gate, Alone, Visit, writeVars, TypeOK, SameRun
<1>3. CASE Enter(r, p) /\ UNCHANGED <<view, writeVars>>
  BY <1>3, EnterAlone DEF Gate, Alone, writeVars, SameRun
<1>4. QED
  BY <1>1, <1>2, <1>3 DEF Gate

LEMMA ReadAlone ==
  ASSUME TypeOK, NEW r \in Runs, NEW s \in Sites, NEW p, Read(r, s, p),
         \A q \in Runs : q # r => todo'[q] = todo[q]
  PROVE  Alone(r)
BY DEF Read, Visit, Alone, SameRun, TypeOK

LEMMA AdvanceAlone ==
  ASSUME TypeOK, NEW r \in Runs, NEW v \in VPNs, Advance(r, v), UNCHANGED file
  PROVE  Alone(r)
<1>1. CASE Enter(r, PhaseAfter(pc[r])) /\ view' = [view EXCEPT ![r] = NoView]
  BY ZenonT(60), <1>1, EnterAlone DEF Advance, Alone, SameRun, TypeOK
<1>2. CASE UNCHANGED <<pc, readVars>>
  BY <1>2 DEF Advance, Alone, SameRun, TypeOK, readVars
<1>3. QED
  BY <1>1, <1>2 DEF Advance

\* Nothing a run does changes what another one knows or has still to do.
LEMMA RunActsAlone ==
  ASSUME TypeOK, NEW r \in Runs, Start(r) \/ RunStep(r) \/ RunFault(r)
  PROVE  Alone(r)
<1> USE DEF boundVars, brokerVars, wireVars
<1>a. CASE Start(r)
  BY <1>a, EnterAlone DEF Start, Alone, SameRun, writeVars
<1>b. ASSUME NEW s \in Sites, CheckPrimaryActive(r, s) \/ CheckMateNamed(r, s) PROVE Alone(r)
  BY <1>b, GateAlone DEF CheckPrimaryActive, CheckMateNamed
<1>c. ASSUME NEW s \in Sites, ReadBefore(r, s) PROVE Alone(r)
  BY <1>c, ReadAlone DEF ReadBefore
<1>d. ASSUME NEW s \in Sites, Reread(r, s) PROVE Alone(r)
  <2>1. \A q \in Runs : q # r => todo'[q] = todo[q]
    BY <1>d DEF Reread, TypeOK
  <2>2. QED
    BY <1>d, <2>1, ReadAlone DEF Reread
<1>e. CASE Plan(r)
  <2>1. CASE Finish(r, "refused") \/ Finish(r, "ok")
    BY <1>e, <2>1, FinishAlone DEF Plan, Alone
  <2>2. CASE /\ moves' = [moves EXCEPT ![r] = Moves(r)]
             /\ view' = [view EXCEPT ![r] = NoView]
             /\ Enter(r, "ask")
             /\ UNCHANGED <<todo, step>>
    BY ZenonT(60), <1>e, <2>2, EnterAlone DEF Plan, Alone, SameRun, TypeOK
  <2>3. QED
    BY <1>e, <2>1, <2>2 DEF Plan
<1>f. CASE Answer(r)
  <2>1. CASE Finish(r, "declined")
    BY <1>f, <2>1, FinishAlone DEF Answer, Alone
  <2>2. CASE todo' = [todo EXCEPT ![r] = moves[r]] /\ Enter(r, "demote")
             /\ UNCHANGED <<view, moves, step>>
    BY ZenonT(60), <1>f, <2>2, EnterAlone DEF Answer, Alone, SameRun, TypeOK
  <2>3. QED
    BY <1>f, <2>1, <2>2 DEF Answer
<1>g. ASSUME NEW v \in VPNs, Upload(r, v) \/ Execute(r, v) \/ ExecuteNothing(r, v)
      PROVE  Alone(r)
  BY <1>g DEF Upload, Execute, ExecuteNothing, Alone, SameRun, TypeOK, readVars
<1>h. ASSUME NEW v \in VPNs, RemoveScript(r, v) \/ PostSEMP(r, v) PROVE Alone(r)
  BY <1>h, AdvanceAlone DEF RemoveScript, PostSEMP
<1>i. ASSUME NEW v \in VPNs, StopMoved(r, v) PROVE Alone(r)
  BY <1>i, FinishAlone DEF StopMoved, Alone
<1>j. ASSUME NEW s \in Sites, ConfirmDemotions(r, s) PROVE Alone(r)
  <2>1. CASE Finish(r, "failed")
    BY <1>j, <2>1, FinishAlone DEF ConfirmDemotions, Alone
  <2>2. CASE Visit(r, s) /\ UNCHANGED <<pc, view, bad, writeVars>>
    BY <1>j, <2>2 DEF ConfirmDemotions, Visit, Alone, SameRun, TypeOK, writeVars
  <2>3. CASE Enter(r, "reread") /\ UNCHANGED <<view, writeVars>>
    BY <1>j, <2>3, EnterAlone DEF ConfirmDemotions, Alone, SameRun, writeVars
  <2>4. QED
    BY <1>j, <2>1, <2>2, <2>3 DEF ConfirmDemotions
<1>k. ASSUME NEW s \in Sites, Verify(r, s) PROVE Alone(r)
  <2>1. CASE Finish(r, IF bad[r] \/ ~AsTheFileSays(r, s) THEN "failed" ELSE "ok")
    BY <1>k, <2>1, FinishAlone DEF Verify, Alone
  <2>2. CASE /\ Visit(r, s)
             /\ bad' = [bad EXCEPT ![r] = bad[r] \/ ~AsTheFileSays(r, s)]
             /\ UNCHANGED <<pc, view, writeVars>>
    BY <1>k, <2>2 DEF Verify, Visit, Alone, SameRun, TypeOK, writeVars
  <2>3. QED
    BY <1>k, <2>1, <2>2 DEF Verify
<1>l. CASE Fail(r)
  BY <1>l, FinishAlone DEF Fail, Alone
<1>m. ASSUME NEW v \in VPNs, FailInFlight(r, v) PROVE Alone(r)
  BY <1>m, FinishAlone DEF FailInFlight, Alone
<1>n. QED
  BY <1>a, <1>b, <1>c, <1>d, <1>e, <1>f, <1>g, <1>h, <1>i, <1>j, <1>k, <1>l, <1>m
  DEF RunStep, RunFault

-------------------------------------------------------------------------------
(* A split brain is somebody's exit code: files that disagree, nobody else  *)
(* writing                                                                  *)

\* Run r answers for v being active at both sites: it has failed, or it has its
\* verify still to make, or has so far verified only the site its file names for v
\* and will find v active at the other one.
Answers(r, v) ==
  \/ pc[r] \in {"failed", "demote", "confirm", "reread", "promote"}
  \/ pc[r] = "verify" /\ (bad[r] \/ \A s \in seen[r] : s = file[r][v])

\* A VPN active at both sites before the first run stops run r at its plan.
HeldBack(r, v) ==
  /\ pc[r] \in {"idle", "primary", "mate", "roles", "plan", "refused"}
  /\ pc[r] \in {"roles", "plan"} => \A s \in seen[r] : view[r][s][v].role = "active"
  /\ pc[r] = "plan" => seen[r] = Sites

\* The inductive strengthening of SplitBrainReported.
SplitAnswered ==
  /\ late # {} => \E r \in Runs : pc[r] = "failed"
  /\ \A v \in VPNs : Split(v) => \/ \E r \in Runs : Answers(r, v)
                                 \/ \A r \in Runs : HeldBack(r, v)

LEMMA InitSplitAnswered == Init => SplitAnswered
BY DEF Init, SplitAnswered, HeldBack

\* A step of run r: either it writes a role, and has its verify still to make, or it
\* passes the question on to itself.
AnswersOn(r) ==
  /\ pc[r] # "failed"
  /\ late' # {} => late # {} \/ pc'[r] = "failed"
  /\ \/ \A v \in VPNs : Answers(r, v)'
     \/ /\ UNCHANGED role
        /\ \A v \in VPNs : Split(v) =>
             /\ Answers(r, v) => Answers(r, v)'
             /\ HeldBack(r, v) => HeldBack(r, v)' \/ Answers(r, v)'

LEMMA GateAnswersOn ==
  ASSUME TypeOK, NEW r \in Runs, NEW s \in Sites, NEW ok,
         pc[r] \in {"primary", "mate"}, NEW p \in {"mate", "roles"}, Gate(r, s, ok, p)
  PROVE  AnswersOn(r)
<1>1. UNCHANGED <<role, late>>
  BY DEF Gate, brokerVars, wireVars
<1>2. pc'[r] = pc[r] \/ (pc'[r] = p /\ seen'[r] = {}) \/ pc'[r] = "refused"
  BY FinishAlone, EnterAlone DEF Gate
<1>3. QED
  BY <1>1, <1>2 DEF AnswersOn, Answers, HeldBack

LEMMA ReadBeforeAnswersOn ==
  ASSUME TypeOK, NEW r \in Runs, NEW s \in Sites, ReadBefore(r, s)
  PROVE  AnswersOn(r)
<1>1. UNCHANGED <<role, late>> /\ pc[r] = "roles"
  BY DEF ReadBefore, Read, brokerVars, wireVars
<1>2. /\ pc'[r] = IF Last(r, s) THEN "plan" ELSE "roles"
      /\ seen'[r] = seen[r] \cup {s}
      /\ view'[r] = [view[r] EXCEPT ![s] = ReadRoles(s)]
  BY DEF ReadBefore, Read, Visit, TypeOK
<1>3. ASSUME NEW v \in VPNs, Split(v), HeldBack(r, v) PROVE HeldBack(r, v)'
  <2>1. ASSUME NEW t \in seen'[r] PROVE view'[r][t][v].role = "active"
    <3>1. CASE t = s
      <4>1. view'[r][t] = ReadRoles(s)
        BY <1>2, <3>1 DEF TypeOK
      <4>2. QED
        BY <1>3, <4>1 DEF ReadRoles, Split
    <3>2. CASE t # s
      BY <1>1, <1>2, <1>3, <3>2 DEF HeldBack, TypeOK
    <3>3. QED
      BY <3>1, <3>2
  <2>2. pc'[r] = "plan" => seen'[r] = Sites
    BY <1>2 DEF Last
  <2>3. QED
    BY <1>2, <2>1, <2>2 DEF HeldBack
<1>4. QED
  BY <1>1, <1>3 DEF AnswersOn, Answers

LEMMA PlanAnswersOn ==
  ASSUME TypeOK, NEW r \in Runs, Plan(r)
  PROVE  AnswersOn(r)
<1>1. UNCHANGED <<role, late>> /\ pc[r] = "plan"
  BY DEF Plan, brokerVars, wireVars
<1>2. ASSUME NEW v \in VPNs, HeldBack(r, v) PROVE HeldBack(r, v)'
  <2>1. Refusal(r)
    BY <1>1, <1>2 DEF HeldBack, Refusal, SplitAtRead
  <2>2. pc'[r] = "refused"
    BY <2>1, FinishAlone DEF Plan
  <2>3. QED
    BY <2>2 DEF HeldBack
<1>3. QED
  BY <1>1, <1>2 DEF AnswersOn, Answers

LEMMA AdvanceAnswersOn ==
  ASSUME TypeOK, NEW r \in Runs, NEW v \in VPNs, NextWrite(r, v), Advance(r, v), UNCHANGED late
  PROVE  AnswersOn(r)
<1>1. pc'[r] \in {"demote", "promote", "confirm"} \/ (pc'[r] = "verify" /\ seen'[r] = {})
  BY EnterAlone DEF Advance, NextWrite, PhaseAfter
<1>2. QED
  BY <1>1 DEF AnswersOn, Answers, NextWrite

LEMMA VerifyAnswersOn ==
  ASSUME TypeOK, NEW r \in Runs, NEW s \in Sites, Verify(r, s)
  PROVE  AnswersOn(r)
<1>1. UNCHANGED <<role, late, file>> /\ pc[r] = "verify"
  BY DEF Verify, brokerVars, wireVars
<1>2. ASSUME NEW v \in VPNs, Split(v), Answers(r, v) PROVE Answers(r, v)'
  <2>1. file[r][v] \in Sites /\ role[s][v] = "active"
    BY <1>2, TheFile DEF Split
  <2>2. s # file[r][v] => ~AsTheFileSays(r, s)
    BY <2>1 DEF AsTheFileSays, Want
  <2>3. bad[r] \/ \A t \in seen[r] : t = file[r][v]
    BY <1>1, <1>2 DEF Answers
  <2>4. CASE /\ Visit(r, s)
             /\ bad' = [bad EXCEPT ![r] = bad[r] \/ ~AsTheFileSays(r, s)]
             /\ UNCHANGED <<pc, view, writeVars>>
    <3>1. seen'[r] = seen[r] \cup {s} /\ bad'[r] = (bad[r] \/ ~AsTheFileSays(r, s))
      BY <2>4 DEF Visit, TypeOK
    <3>2. CASE bad[r] \/ s # file[r][v]
      <4>1. bad'[r]
        BY <2>2, <3>1, <3>2
      <4>2. QED
        BY <1>1, <2>4, <4>1 DEF Answers
    <3>3. CASE ~bad[r] /\ s = file[r][v]
      BY <1>1, <2>3, <2>4, <3>1, <3>3 DEF Answers
    <3>4. QED
      BY <3>2, <3>3
  <2>5. CASE /\ Last(r, s)
             /\ Finish(r, IF bad[r] \/ ~AsTheFileSays(r, s) THEN "failed" ELSE "ok")
    <3>1. bad[r] \/ s # file[r][v]
      <4>1. \E t \in Sites : t # s
        BY SitesAssumption
      <4>2. \E t \in seen[r] : t # s
        BY <2>5, <4>1 DEF Last
      <4>3. QED
        BY <2>3, <4>2
    <3>2. pc'[r] = "failed"
      BY <2>2, <2>5, <3>1, FinishAlone
    <3>3. QED
      BY <3>2 DEF Answers
  <2>6. QED
    BY <2>4, <2>5 DEF Verify
<1>3. QED
  BY <1>1, <1>2 DEF AnswersOn, HeldBack

\* Every step of a run.
LEMMA RunAnswersOn ==
  ASSUME TypeOK, NEW r \in Runs, Start(r) \/ RunStep(r) \/ RunFault(r)
  PROVE  AnswersOn(r)
<1> USE DEF boundVars, brokerVars, wireVars
<1>a. CASE Start(r)
  <2>1. pc[r] = "idle" /\ pc'[r] = "primary" /\ UNCHANGED <<role, late>>
    BY <1>a, EnterAlone DEF Start
  <2>2. QED
    BY <2>1 DEF AnswersOn, Answers, HeldBack
<1>b. ASSUME NEW s \in Sites, CheckPrimaryActive(r, s) \/ CheckMateNamed(r, s)
      PROVE  AnswersOn(r)
  BY <1>b, GateAnswersOn DEF CheckPrimaryActive, CheckMateNamed
<1>c. ASSUME NEW s \in Sites, ReadBefore(r, s) PROVE AnswersOn(r)
  BY <1>c, ReadBeforeAnswersOn
<1>d. ASSUME NEW s \in Sites, Reread(r, s) PROVE AnswersOn(r)
  <2>1. pc[r] = "reread" /\ pc'[r] \in {"reread", "promote"} /\ UNCHANGED late
    BY <1>d DEF Reread, Read, TypeOK
  <2>2. QED
    BY <2>1 DEF AnswersOn, Answers
<1>e. CASE Plan(r)
  BY <1>e, PlanAnswersOn
<1>f. CASE Answer(r)
  BY <1>f DEF Answer, AnswersOn, Answers, HeldBack
<1>g. ASSUME NEW v \in VPNs, Upload(r, v) \/ Execute(r, v) \/ ExecuteNothing(r, v)
      PROVE  AnswersOn(r)
  BY <1>g DEF Upload, Execute, ExecuteNothing, NextWrite, AnswersOn, Answers
<1>h. ASSUME NEW v \in VPNs, RemoveScript(r, v) \/ PostSEMP(r, v) PROVE AnswersOn(r)
  BY <1>h, AdvanceAnswersOn DEF RemoveScript, PostSEMP
<1>i. ASSUME NEW v \in VPNs, StopMoved(r, v) PROVE AnswersOn(r)
  BY <1>i, FinishAlone DEF StopMoved, NextWrite, AnswersOn, Answers
<1>j. ASSUME NEW s \in Sites, ConfirmDemotions(r, s) PROVE AnswersOn(r)
  <2>1. pc[r] = "confirm" /\ pc'[r] \in {"failed", "confirm", "reread"} /\ UNCHANGED late
    BY <1>j, FinishAlone, EnterAlone DEF ConfirmDemotions
  <2>2. QED
    BY <2>1 DEF AnswersOn, Answers
<1>k. ASSUME NEW s \in Sites, Verify(r, s) PROVE AnswersOn(r)
  BY <1>k, VerifyAnswersOn
<1>l. CASE Fail(r)
  <2>1. pc[r] # "failed" /\ pc'[r] = "failed"
    BY <1>l, FinishAlone DEF Fail, Running
  <2>2. QED
    BY <2>1 DEF AnswersOn, Answers
<1>m. ASSUME NEW v \in VPNs, FailInFlight(r, v) PROVE AnswersOn(r)
  <2>1. pc[r] # "failed" /\ pc'[r] = "failed"
    BY <1>m, FinishAlone DEF FailInFlight, NextWrite
  <2>2. QED
    BY <2>1 DEF AnswersOn, Answers
<1>n. QED
  BY <1>a, <1>b, <1>c, <1>d, <1>e, <1>f, <1>g, <1>h, <1>i, <1>j, <1>k, <1>l, <1>m
  DEF RunStep, RunFault

LEMMA NextSplitAnswered ==
  ASSUME TypeOK, SplitAnswered, MaxOutside = 0, [Next]_vars
  PROVE  SplitAnswered'
<1>1. ASSUME NEW r \in Runs, Start(r) \/ RunStep(r) \/ RunFault(r) PROVE SplitAnswered'
  <2>1. AnswersOn(r) /\ Alone(r)
    BY <1>1, RunAnswersOn, RunActsAlone
  <2>2. ASSUME NEW q \in Runs, q # r, NEW v \in VPNs
        PROVE  (Answers(q, v) => Answers(q, v)') /\ (HeldBack(q, v) => HeldBack(q, v)')
    BY <2>1, <2>2 DEF Alone, SameRun, Answers, HeldBack
  <2>3. late' # {} => \E q \in Runs : pc'[q] = "failed"
    BY <2>1 DEF AnswersOn, Alone, SameRun, SplitAnswered
  <2>4. ASSUME NEW v \in VPNs, Split(v)'
        PROVE  (\E q \in Runs : Answers(q, v)') \/ (\A q \in Runs : HeldBack(q, v)')
    <3>1. CASE \A w \in VPNs : Answers(r, w)'
      BY <3>1
    <3>2. CASE /\ UNCHANGED role
               /\ \A w \in VPNs : Split(w) =>
                    /\ Answers(r, w) => Answers(r, w)'
                    /\ HeldBack(r, w) => HeldBack(r, w)' \/ Answers(r, w)'
      <4>1. Split(v)
        BY <2>4, <3>2 DEF Split
      <4>2. CASE \E q \in Runs : Answers(q, v)
        <5>1. PICK q \in Runs : Answers(q, v)
          BY <4>2
        <5>2. Answers(q, v)'
          <6>1. CASE q = r
            BY <3>2, <4>1, <5>1, <6>1
          <6>2. CASE q # r
            BY <2>2, <5>1, <6>2
          <6>3. QED
            BY <6>1, <6>2
        <5>3. QED
          BY <5>2
      <4>3. CASE \A q \in Runs : HeldBack(q, v)
        BY <2>2, <3>2, <4>1, <4>3
      <4>4. QED
        BY <4>1, <4>2, <4>3 DEF SplitAnswered
    <3>3. QED
      BY <2>1, <3>1, <3>2 DEF AnswersOn
  <2>5. QED
    BY <2>3, <2>4 DEF SplitAnswered
<1>2. ASSUME NEW c \in late, ExecuteLate(c) PROVE SplitAnswered'
  <2>1. PICK q \in Runs : pc[q] = "failed"
    BY DEF SplitAnswered
  <2>2. pc'[q] = "failed"
    BY <1>2, <2>1 DEF ExecuteLate
  <2>3. QED
    BY <2>2 DEF SplitAnswered, Answers
<1>3. ~Somebody
  BY BoundsAssumption DEF Somebody, OutsideRole, OutsideAdmin, OutsideFailover,
     OutsideMate, TypeOK
<1>4. CASE UNCHANGED vars
  BY <1>4 DEF vars, brokerVars, wireVars, readVars, SplitAnswered, Split, Answers, HeldBack
<1>5. QED
  BY <1>1, <1>2, <1>3, <1>4 DEF Next

\* Whatever the env files say, however many runs overlap and fail: once every run
\* is over and one reported success, a VPN left active at both sites is some
\* run's exit code.
THEOREM SplitBrainIsReported ==
  ASSUME MaxOutside = 0
  PROVE  Spec => []SplitBrainReported
<1>1. TypeOK /\ SplitAnswered /\ [Next]_vars => TypeOK' /\ SplitAnswered'
  BY NextTypeOK, NextSplitAnswered
<1>2. SplitAnswered => SplitBrainReported
  BY DEF SplitAnswered, SplitBrainReported, AllOver, Outcome, Answers, HeldBack
<1>3. QED
  BY InitTypeOK, InitSplitAnswered, <1>1, <1>2, PTL DEF Spec

-------------------------------------------------------------------------------
(* Runs in turn: no overlap, and no command that executes late             *)

OneAtATime == \A q, r \in Runs : pc[q] \in Running /\ pc[r] \in Running => q = r

\* While nobody else writes, what the run in progress has read is still so.
ReadingsTrue(r) ==
  /\ pc[r] \in {"roles", "plan", "reread"} => \A s \in seen[r] : view[r][s] = ReadRoles(s)
  /\ pc[r] = "plan" => seen[r] = Sites
  /\ pc[r] = "verify" /\ ~bad[r] => \A s \in seen[r] : AsTheFileSays(r, s)

\* The inductive strengthening of SuccessIsTrue.
InTurn ==
  /\ late = {}
  /\ OneAtATime
  /\ outside = 0 => \A r \in Runs : ReadingsTrue(r)

LEMMA InitInTurn == Init => InTurn
BY DEF Init, InTurn, OneAtATime, ReadingsTrue, Running

LEMMA RunsKeep ==
  ASSUME NEW r \in Runs, Start(r) \/ RunStep(r) \/ RunFault(r)
  PROVE  UNCHANGED <<outside, file, admin, primaryActive, mateNamed>>
BY DEF Start, RunStep, RunFault, CheckPrimaryActive, CheckMateNamed, Gate,
   ReadBefore, Reread, Read, Plan, Answer, Upload, Execute, ExecuteNothing, RemoveScript,
   PostSEMP, StopMoved, ConfirmDemotions, Verify, Fail, FailInFlight, boundVars, brokerVars

\* Whoever takes a step, only the bound on the others' changes can grow, and nobody
\* is given another file.
LEMMA OutsideGrows ==
  ASSUME TypeOK, [Next]_vars, outside' = 0
  PROVE  /\ outside = 0 /\ UNCHANGED <<file, admin, primaryActive, mateNamed>>
         /\ \/ \E r \in Runs : Start(r) \/ RunStep(r) \/ RunFault(r)
            \/ \E c \in late : ExecuteLate(c)
            \/ UNCHANGED vars
<1> USE DEF boundVars, brokerVars, wireVars
<1>1. ~Somebody
  BY DEF Somebody, OutsideRole, OutsideAdmin, OutsideFailover, OutsideMate, TypeOK
<1>2. ASSUME NEW r \in Runs, Start(r) \/ RunStep(r) \/ RunFault(r)
      PROVE  UNCHANGED <<outside, file, admin, primaryActive, mateNamed>>
  BY <1>2, RunsKeep
<1>3. ASSUME NEW c \in late, ExecuteLate(c)
      PROVE  UNCHANGED <<outside, file, admin, primaryActive, mateNamed>>
  BY <1>3 DEF ExecuteLate
<1>4. QED
  BY <1>1, <1>2, <1>3 DEF Next, vars

\* Somebody else's change is no step of a run.
LEMMA OthersKeepOut ==
  ASSUME TypeOK, [Next]_vars, outside = 0, outside' # 0
  PROVE  UNCHANGED pc
<1>1. ASSUME NEW r \in Runs, Start(r) \/ RunStep(r) \/ RunFault(r) PROVE UNCHANGED outside
  BY <1>1, RunsKeep
<1>2. \A c \in late : ExecuteLate(c) => UNCHANGED outside
  BY DEF ExecuteLate, boundVars
<1>3. Somebody => UNCHANGED pc
  BY DEF Somebody, OutsideRole, OutsideAdmin, OutsideFailover, OutsideMate, RunVars
<1>4. QED
  BY <1>1, <1>2, <1>3 DEF Next, vars, boundVars

\* The run that takes a step was the one in progress, or is the only one.
LEMMA RunInTurn ==
  ASSUME TypeOK, ~Overlap, ~Lingering, InTurn, NEW r \in Runs,
         Start(r) \/ RunStep(r) \/ RunFault(r)
  PROVE  /\ \A q \in Runs : q # r => pc[q] \notin Running
         /\ late' = {} /\ OneAtATime'
         /\ Start(r) \/ pc[r] \in Running
<1>1. Start(r) \/ pc[r] \in Running
  BY DEF RunStep, RunFault, CheckPrimaryActive, CheckMateNamed, ReadBefore, Reread, Plan,
     Answer, Upload, Execute, ExecuteNothing, RemoveScript, PostSEMP, StopMoved,
     ConfirmDemotions, Verify, Fail, FailInFlight, NextWrite, Running
<1>2. \A q \in Runs : q # r => pc[q] \notin Running
  BY <1>1 DEF InTurn, OneAtATime, Start
<1>3. OneAtATime'
  BY <1>2, RunActsAlone DEF Alone, SameRun, OneAtATime
<1>4. late' = {}
  BY DEF InTurn, Start, RunStep, RunFault, CheckPrimaryActive, CheckMateNamed, Gate,
     ReadBefore, Reread, Read, Plan, Answer, Upload, Execute, ExecuteNothing, RemoveScript,
     PostSEMP, StopMoved, ConfirmDemotions, Verify, Fail, FailInFlight, wireVars
<1>5. QED
  BY <1>1, <1>2, <1>3, <1>4

\* A reading is true when it is made, and stays so until the run writes.
LEMMA ReadTrue ==
  ASSUME TypeOK, NEW r \in Runs, NEW s \in Sites, NEW p \in {"plan", "promote"},
         pc[r] \in {"roles", "reread"}, ReadingsTrue(r), Read(r, s, p)
  PROVE  ReadingsTrue(r)'
<1>1. /\ pc'[r] = IF Last(r, s) THEN p ELSE pc[r]
      /\ seen'[r] = seen[r] \cup {s}
      /\ view'[r] = [view[r] EXCEPT ![s] = ReadRoles(s)]
      /\ UNCHANGED <<role, admin>>
  BY DEF Read, Visit, TypeOK, brokerVars
<1>2. ASSUME NEW t \in seen'[r] PROVE view'[r][t] = ReadRoles(t)'
  <2>1. ReadRoles(t)' = ReadRoles(t)
    BY <1>1 DEF ReadRoles
  <2>2. t \in Sites /\ (t = s \/ view[r][t] = ReadRoles(t))
    BY <1>1 DEF TypeOK, ReadingsTrue
  <2>3. QED
    BY <1>1, <2>1, <2>2 DEF TypeOK
<1>3. pc'[r] = "plan" => seen'[r] = Sites
  BY <1>1 DEF Last
<1>4. QED
  BY <1>1, <1>2, <1>3 DEF ReadingsTrue

\* The verify looks at both sites, and nothing changes between the two.
LEMMA VerifyTrue ==
  ASSUME TypeOK, NEW r \in Runs, NEW s \in Sites, ReadingsTrue(r), Verify(r, s)
  PROVE  /\ ReadingsTrue(r)'
         /\ pc'[r] = "ok" => \A t \in Sites : AsTheFileSays(r, t)
<1>1. UNCHANGED <<role, file>> /\ pc[r] = "verify"
  BY DEF Verify, brokerVars
<1>2. CASE /\ Visit(r, s)
           /\ bad' = [bad EXCEPT ![r] = bad[r] \/ ~AsTheFileSays(r, s)]
           /\ UNCHANGED <<pc, view, writeVars>>
  <2>1. seen'[r] = seen[r] \cup {s} /\ bad'[r] = (bad[r] \/ ~AsTheFileSays(r, s)) /\ pc'[r] = "verify"
    BY <1>1, <1>2 DEF Visit, TypeOK
  <2>2. \A t : AsTheFileSays(r, t)' <=> AsTheFileSays(r, t)
    BY <1>1 DEF AsTheFileSays, Want
  <2>3. QED
    BY <1>1, <2>1, <2>2 DEF ReadingsTrue
<1>3. CASE Last(r, s) /\ Finish(r, IF bad[r] \/ ~AsTheFileSays(r, s) THEN "failed" ELSE "ok")
  <2>1. pc'[r] = IF bad[r] \/ ~AsTheFileSays(r, s) THEN "failed" ELSE "ok"
    BY <1>3, FinishAlone
  <2>2. QED
    BY <1>1, <1>3, <2>1 DEF ReadingsTrue, Last
<1>4. QED
  BY <1>2, <1>3 DEF Verify

\* The pair is as the file of run r says when both sites are.
LEMMA BothSitesMatch ==
  ASSUME TypeOK, NEW r \in Runs, \A t \in Sites : AsTheFileSays(r, t)
  PROVE  Matches(file[r])
<1>1. ASSUME NEW v \in VPNs
      PROVE  role[file[r][v]][v] = "active" /\ role[Other(file[r][v])][v] = "standby"
  <2>1. file[r][v] \in Sites /\ Other(file[r][v]) \in Sites /\ Other(file[r][v]) # file[r][v]
    BY TheFile, OtherSite
  <2>2. QED
    BY <2>1 DEF AsTheFileSays, Want
<1>2. QED
  BY <1>1 DEF Matches

\* What the plan finds in place is in place.
LEMMA PlanTrue ==
  ASSUME TypeOK, NEW r \in Runs, ReadingsTrue(r), pc[r] = "plan", NEW v \in VPNs
  PROVE  /\ v \notin Moves(r) <=> Placed(r, v)
         /\ \A s \in Sites : view[r][s][v].admin = admin[s][v] /\ view[r][s][v].role = role[s][v]
<1>1. \A s \in Sites : view[r][s] = ReadRoles(s)
  BY DEF ReadingsTrue
<1>2. ASSUME NEW s \in Sites
      PROVE  view[r][s][v].admin = admin[s][v] /\ view[r][s][v].role = role[s][v]
  <2>1. view[r][s][v] = [admin |-> admin[s][v], role |-> role[s][v]]
    BY ZenonT(60), <1>1 DEF ReadRoles
  <2>2. QED
    BY <2>1
<1>3. file[r][v] \in Sites /\ Other(file[r][v]) \in Sites
  BY TheFile, OtherSite
<1>4. AlreadyCorrect(r, v) <=> Placed(r, v)
  BY <1>2, <1>3, Zenon DEF AlreadyCorrect, Placed
<1>5. QED
  BY <1>2, <1>4 DEF Moves

\* Every step of a run: its readings stay true, and so does its report.
LEMMA RunTrue ==
  ASSUME TypeOK, NEW r \in Runs, ReadingsTrue(r), Start(r) \/ RunStep(r) \/ RunFault(r)
  PROVE  /\ ReadingsTrue(r)'
         /\ pc[r] # "ok" /\ pc'[r] = "ok" => UNCHANGED role /\ Matches(file[r])
<1> DEFINE Silent == \/ pc'[r] \in {"primary", "mate", "ask", "demote", "confirm", "promote",
                                    "failed", "refused", "declined"}
                     \/ pc'[r] \in {"roles", "reread", "verify"} /\ seen'[r] = {}
<1>q. ASSUME Silent
      PROVE  /\ ReadingsTrue(r)'
             /\ pc[r] # "ok" /\ pc'[r] = "ok" => UNCHANGED role /\ Matches(file[r])
  BY <1>q DEF ReadingsTrue
<1>a. ASSUME Start(r) PROVE Silent
  BY <1>a, EnterAlone DEF Start
<1>b. ASSUME NEW s \in Sites, CheckPrimaryActive(r, s) \/ CheckMateNamed(r, s) PROVE Silent
  BY ZenonT(60), <1>b, EnterAlone, FinishAlone DEF CheckPrimaryActive, CheckMateNamed, Gate
<1>c. ASSUME NEW s \in Sites, ReadBefore(r, s) \/ Reread(r, s)
      PROVE  ReadingsTrue(r)' /\ pc'[r] # "ok"
  <2>1. ReadingsTrue(r)'
    BY <1>c, ReadTrue DEF ReadBefore, Reread
  <2>2. QED
    BY <1>c, <2>1 DEF ReadBefore, Reread, Read, TypeOK
<1>e. ASSUME Plan(r)
      PROVE  ReadingsTrue(r)' /\ (pc'[r] = "ok" => UNCHANGED role /\ Matches(file[r]))
  <2>1. UNCHANGED role /\ pc[r] = "plan"
    BY <1>e DEF Plan, brokerVars
  <2>2. \/ pc'[r] \in {"refused", "ask"}
        \/ pc'[r] = "ok" /\ Moves(r) = {}
    <3>1. CASE Finish(r, "refused")
      <4>1. pc'[r] = "refused"
        BY <3>1, FinishAlone
      <4>2. QED
        BY <4>1
    <3>2. CASE Moves(r) = {} /\ Finish(r, "ok")
      BY <3>2, FinishAlone
    <3>3. CASE Enter(r, "ask")
      <4>1. pc'[r] = "ask"
        BY <3>3, EnterAlone
      <4>2. QED
        BY <4>1
    <3>4. QED
      BY <1>e, <3>1, <3>2, <3>3 DEF Plan
  <2>3. ReadingsTrue(r)'
    BY <2>2 DEF ReadingsTrue
  <2>4. pc'[r] = "ok" => \A v \in VPNs : Placed(r, v)
    BY <2>1, <2>2, PlanTrue
  <2>5. QED
    BY <2>1, <2>3, <2>4 DEF Matches, Placed
<1>f. ASSUME Answer(r) PROVE Silent
  BY <1>f, EnterAlone, FinishAlone DEF Answer
<1>g. ASSUME NEW v \in VPNs, Upload(r, v) \/ Execute(r, v) \/ ExecuteNothing(r, v) PROVE Silent
  BY <1>g DEF Upload, Execute, ExecuteNothing, NextWrite
<1>h. ASSUME NEW v \in VPNs, RemoveScript(r, v) \/ PostSEMP(r, v) PROVE Silent
  BY <1>h, EnterAlone DEF RemoveScript, PostSEMP, Advance, NextWrite, PhaseAfter
<1>i. ASSUME NEW v \in VPNs, StopMoved(r, v) PROVE Silent
  BY <1>i, FinishAlone DEF StopMoved
<1>j. ASSUME NEW s \in Sites, ConfirmDemotions(r, s) PROVE Silent
  BY <1>j, EnterAlone, FinishAlone DEF ConfirmDemotions
<1>k. ASSUME NEW s \in Sites, Verify(r, s)
      PROVE  ReadingsTrue(r)' /\ (pc'[r] = "ok" => UNCHANGED role /\ Matches(file[r]))
  BY <1>k, VerifyTrue, BothSitesMatch DEF Verify, brokerVars
<1>l. ASSUME Fail(r) PROVE Silent
  BY <1>l, FinishAlone DEF Fail
<1>m. ASSUME NEW v \in VPNs, FailInFlight(r, v) PROVE Silent
  BY <1>m, FinishAlone DEF FailInFlight
<1> HIDE DEF Silent
<1>n. QED
  BY <1>q, <1>a, <1>b, <1>c, <1>e, <1>f, <1>g, <1>h, <1>i, <1>j, <1>k, <1>l, <1>m
  DEF RunStep, RunFault

\* A run that is not in progress has no reading to rely on.
LEMMA NothingRead ==
  ASSUME NEW q \in Runs, pc[q] \notin Running
  PROVE  ReadingsTrue(q)
BY DEF ReadingsTrue, Running

LEMMA NextInTurn ==
  ASSUME TypeOK, ~Overlap, ~Lingering, InTurn, [Next]_vars
  PROVE  InTurn'
<1>1. CASE \E r \in Runs : Start(r) \/ RunStep(r) \/ RunFault(r)
  <2>1. PICK r \in Runs : Start(r) \/ RunStep(r) \/ RunFault(r)
    BY <1>1
  <2>2. /\ \A q \in Runs : q # r => pc[q] \notin Running
        /\ late' = {} /\ OneAtATime'
    BY <2>1, RunInTurn
  <2>3. ASSUME outside' = 0, NEW q \in Runs PROVE ReadingsTrue(q)'
    <3>1. CASE q = r
      BY <2>1, <2>3, <3>1, OutsideGrows, RunTrue DEF InTurn
    <3>2. CASE q # r
      <4>1. pc'[q] \notin Running
        BY <2>1, <2>2, <3>2, RunActsAlone DEF Alone, SameRun
      <4>2. QED
        BY <4>1 DEF ReadingsTrue, Running
    <3>3. QED
      BY <3>1, <3>2
  <2>4. QED
    BY <2>2, <2>3 DEF InTurn
<1>2. CASE Somebody
  <2>1. UNCHANGED <<late, pc>>
    BY <1>2 DEF Somebody, OutsideRole, OutsideAdmin, OutsideFailover, OutsideMate,
       RunVars, wireVars
  <2>2. outside' # 0
    BY <1>2 DEF Somebody, OutsideRole, OutsideAdmin, OutsideFailover, OutsideMate, TypeOK
  <2>3. QED
    BY <2>1, <2>2 DEF InTurn, OneAtATime
<1>3. CASE UNCHANGED vars
  BY <1>3 DEF vars, brokerVars, wireVars, readVars, boundVars, InTurn, OneAtATime,
     ReadingsTrue, ReadRoles, AsTheFileSays, Want
<1>4. QED
  BY <1>1, <1>2, <1>3 DEF Next, InTurn

\* Runs made one after the other, with nobody else writing: success means that the
\* pair is as the file says, at both sites and for every VPN, moved or not.
THEOREM SuccessMeansPlaced ==
  ASSUME ~Overlap, ~Lingering
  PROVE  Spec => SuccessIsTrue
<1>1. ASSUME TypeOK, InTurn, [Next]_vars, outside' = 0, NEW r \in Runs,
             pc[r] # "ok", pc'[r] = "ok"
      PROVE  Matches(file[r])'
  <2>1. CASE \E q \in Runs : Start(q) \/ RunStep(q) \/ RunFault(q)
    <3>1. PICK q \in Runs : Start(q) \/ RunStep(q) \/ RunFault(q)
      BY <2>1
    <3>2. q = r
      BY <1>1, <3>1, RunActsAlone DEF Alone, SameRun
    <3>3. ReadingsTrue(r)
      BY <1>1, OutsideGrows DEF InTurn
    <3>4. UNCHANGED <<role, file>> /\ Matches(file[r])
      BY <1>1, <3>1, <3>2, <3>3, RunTrue, OutsideGrows
    <3>5. QED
      BY <3>4 DEF Matches
  <2>2. CASE UNCHANGED vars
    BY <1>1, <2>2 DEF vars
  <2>3. QED
    BY <1>1, <2>1, <2>2, OutsideGrows DEF InTurn
<1>2. TypeOK /\ InTurn /\ [Next]_vars => TypeOK' /\ InTurn'
  BY NextTypeOK, NextInTurn
<1>3. ASSUME TypeOK, InTurn, [Next]_vars
      PROVE  [\A r \in Runs : outside = 0 /\ pc[r] # "ok" /\ pc'[r] = "ok"
                => Matches(file[r])']_vars
  <2>1. CASE outside' = 0
    BY <1>1, <1>3, <2>1
  <2>2. CASE outside' # 0
    BY <1>3, <2>2, OthersKeepOut
  <2>3. QED
    BY <2>1, <2>2
<1>4. QED
  BY InitTypeOK, InitInTurn, <1>2, <1>3, PTL DEF Spec, SuccessIsTrue

-------------------------------------------------------------------------------
(* Re-runs converge: each run that fails has had a fault of its own          *)

\* The write in hand, and the moves that run r counts as made in a write phase.
InHand(r, v) == v \in todo[r] /\ \A w \in todo[r] : v <= w
Executed(r, v) == InHand(r, v) /\ step[r] = "executed"
Made(r) == {v \in moves[r] : v \in todo[r] => Executed(r, v)}

Writing == {"ask", "demote", "confirm", "reread", "promote", "verify"}

\* Where a run that started on a serving pair is, whether its writes arrive or not:
\* nothing refuses it, it leaves alone what is in place, ...
PassesGates(r) ==
  /\ pc[r] # "refused"
  /\ pc[r] \in {"primary", "mate"} => ~bad[r]

LeavesTheRest(r) ==
  /\ pc[r] \in {"demote", "promote"} => todo[r] \subseteq moves[r]
  /\ pc[r] \in Writing => \A v \in VPNs \ moves[r] : Placed(r, v)

\* ... it promotes what is standby at the site its file names, and its reading of
\* that is still true, ...
PromotesStandby(r) ==
  /\ pc[r] \in {"ask", "demote", "confirm", "reread"} =>
       \A v \in moves[r] : role[file[r][v]][v] = "standby"
  /\ pc[r] \in {"confirm", "reread"} => todo[r] = {}
  /\ pc[r] = "promote" => \A v \in todo[r] : ~Executed(r, v) =>
       /\ role[file[r][v]][v] = "standby"
       /\ \A s \in Sites : view[r][s][v].role = role[s][v]

\* ... and the script it executes is its own.
OwnScript(r) ==
  /\ step[r] # "ready" => pc[r] \in {"demote", "promote"}
  /\ \A v \in VPNs : InHand(r, v) =>
       /\ step[r] # "ready" => <<r, WriteOf(r, v).site>> \in ViaCLI
       /\ step[r] = "uploaded" =>
            script[WriteOf(r, v).site] = {WriteOf(r, v)} /\ ~MovedSince(r, v)

Expected(r) == PassesGates(r) /\ LeavesTheRest(r) /\ PromotesStandby(r) /\ OwnScript(r)

\* Every write that run r counts as made has been made.
OnTrack(r) ==
  /\ pc[r] = "demote" => \A v \in Made(r) : role[Other(file[r][v])][v] = "standby"
  /\ pc[r] \in {"confirm", "reread", "promote"} =>
       \A v \in moves[r] : role[Other(file[r][v])][v] = "standby"
  /\ pc[r] = "promote" => \A v \in Made(r) : role[file[r][v]][v] = "active"
  /\ pc[r] = "verify" => ~bad[r] /\ \A v \in VPNs : Placed(r, v)

\* The runs that have failed, and the one that will.
Scarred == {r \in Runs : pc[r] = "failed" \/ ~OnTrack(r)}

RolesServe ==
  /\ \A s \in Sites, v \in VPNs : role[s][v] \in Settable
  /\ \A v \in VPNs : ~Split(v)

StaysDone ==
  (\E r \in Runs : pc[r] = "ok") =>
    \A r \in Runs : pc[r] \notin Writing /\ Matches(file[r])

Calm == outside = 0 /\ \A q, r \in Runs : file[q] = file[r]

\* The inductive strengthening of RerunConverges.
OneFaultEach ==
  /\ faults <= MaxFaults
  /\ Calm => /\ Healthy /\ RolesServe
             /\ \A r \in Runs : Expected(r)
             /\ StaysDone
             /\ Cardinality(Scarred) <= faults

\* What a step of the run in progress does, in these terms.
FaultStep(r) ==
  /\ RolesServe'
  /\ Expected(r)'
  /\ faults' \in {faults, faults + 1} /\ faults' <= MaxFaults
  /\ pc'[r] = "failed" \/ ~OnTrack(r)' =>
       pc[r] = "failed" \/ ~OnTrack(r) \/ faults' = faults + 1
  /\ pc[r] \notin Writing => UNCHANGED role /\ (Matches(file[r]) => pc'[r] \notin Writing)

LEMMA OneInHand ==
  ASSUME NEW r \in Runs, NEW v \in VPNs, NextWrite(r, v)
  PROVE  /\ InHand(r, v) /\ pc[r] \in {"demote", "promote"} /\ v \in todo[r]
         /\ \A w \in VPNs : InHand(r, w) => w = v
BY VPNsAssumption DEF NextWrite, InHand

LEMMA SameRolesServe ==
  ASSUME RolesServe, UNCHANGED role
  PROVE  RolesServe'
BY DEF RolesServe, Split

\* A run that is over has nothing left to do.
LEMMA FinishExpected ==
  ASSUME TypeOK, NEW r \in Runs, NEW o \in {"ok", "failed", "declined"}, Finish(r, o)
  PROVE  Expected(r)' /\ OnTrack(r)' /\ pc'[r] = o
<1>1. pc'[r] = o /\ step'[r] = "ready"
  BY DEF Finish, Enter, TypeOK
<1>2. QED
  BY <1>1 DEF Expected, PassesGates, LeavesTheRest, PromotesStandby, OwnScript, OnTrack, Writing

\* So has one that has not read both sites.
LEMMA EarlyExpected ==
  ASSUME TypeOK, NEW r \in Runs, Expected(r), UNCHANGED step,
         pc[r] \notin Writing,
         pc'[r] \in {"primary", "mate"} => ~bad'[r],
         pc'[r] \in {"primary", "mate", "roles", "plan"}
  PROVE  Expected(r)' /\ OnTrack(r)'
<1>1. step'[r] = "ready"
  BY DEF Expected, OwnScript, Writing
<1>2. QED
  BY <1>1 DEF Expected, PassesGates, LeavesTheRest, PromotesStandby, OwnScript, OnTrack, Writing

LEMMA GateFaultStep ==
  ASSUME TypeOK, Healthy, RolesServe, faults <= MaxFaults, NEW r \in Runs, Expected(r),
         NEW s \in Sites, CheckPrimaryActive(r, s) \/ CheckMateNamed(r, s)
  PROVE  FaultStep(r)
<1>1. primaryActive[s] /\ mateNamed[s] /\ ~bad[r] /\ pc[r] \in {"primary", "mate"}
  BY DEF Healthy, CheckPrimaryActive, CheckMateNamed, Expected, PassesGates
<1>2. UNCHANGED <<role, faults, step>> /\ pc'[r] \in {"primary", "mate", "roles"} /\ ~bad'[r]
  <2>1. ASSUME NEW p \in {"mate", "roles"}, NEW ok, ok, Gate(r, s, ok, p)
        PROVE  UNCHANGED <<role, faults, step>> /\ pc'[r] \in {pc[r], p} /\ ~bad'[r]
    <3>1. UNCHANGED <<role, faults>>
      BY <2>1 DEF Gate, brokerVars, boundVars
    <3>2. CASE Enter(r, p) /\ UNCHANGED <<view, writeVars>>
      BY <3>1, <3>2, EnterAlone DEF writeVars
    <3>3. CASE /\ bad' = [bad EXCEPT ![r] = bad[r] \/ ~ok]
               /\ UNCHANGED <<pc, view, writeVars>>
      BY <1>1, <2>1, <3>1, <3>3 DEF writeVars, TypeOK
    <3>4. QED
      BY <1>1, <2>1, <3>2, <3>3 DEF Gate
  <2>2. QED
    BY <1>1, <2>1 DEF CheckPrimaryActive, CheckMateNamed
<1>3. Expected(r)' /\ OnTrack(r)'
  BY <1>1, <1>2, EarlyExpected DEF Writing
<1>4. QED
  BY <1>1, <1>2, <1>3, SameRolesServe DEF FaultStep, Writing, TypeOK

LEMMA ReadFaultStep ==
  ASSUME TypeOK, Healthy, RolesServe, faults <= MaxFaults, NEW r \in Runs, Expected(r),
         NEW s \in Sites, ReadBefore(r, s)
  PROVE  FaultStep(r)
<1>1. UNCHANGED <<role, faults, step>> /\ pc[r] = "roles" /\ pc'[r] \in {"roles", "plan"}
  BY DEF ReadBefore, Read, brokerVars, boundVars, TypeOK
<1>2. Expected(r)' /\ OnTrack(r)'
  BY <1>1, EarlyExpected DEF Writing
<1>3. QED
  BY <1>1, <1>2, SameRolesServe DEF FaultStep, Writing, TypeOK

\* A serving pair is refused by no plan, and what is not in place is standby where
\* the file wants it.
LEMMA PlanServes ==
  ASSUME TypeOK, Healthy, RolesServe, NEW r \in Runs, ReadingsTrue(r), pc[r] = "plan"
  PROVE  /\ ~Refusal(r)
         /\ \A v \in Moves(r) : role[file[r][v]][v] = "standby"
<1>1. ASSUME NEW v \in VPNs PROVE ~NotEnabled(r, v) /\ ~SplitAtRead(r, v)
  <2>1. \A s \in Sites : view[r][s][v].admin = admin[s][v] /\ view[r][s][v].role = role[s][v]
    BY PlanTrue
  <2>2. \A s \in Sites : admin[s][v] = "enabled"
    BY DEF Healthy
  <2>3. QED
    BY <2>1, <2>2 DEF NotEnabled, SplitAtRead, RolesServe, Split
<1>2. ASSUME NEW v \in Moves(r) PROVE role[file[r][v]][v] = "standby"
  <2>1. v \in VPNs /\ ~Placed(r, v)
    BY PlanTrue DEF Moves
  <2>2. file[r][v] \in Sites /\ Other(file[r][v]) \in Sites
    BY <2>1, TheFile, OtherSite
  <2>3. \A t \in Sites : t = file[r][v] \/ t = Other(file[r][v])
    BY <2>2, OtherSite
  <2>4. QED
    BY <2>1, <2>2, <2>3 DEF RolesServe, Split, Settable, Placed
<1>3. QED
  BY <1>1, <1>2 DEF Refusal

LEMMA PlanFaultStep ==
  ASSUME TypeOK, Healthy, RolesServe, faults <= MaxFaults, NEW r \in Runs, Expected(r),
         ReadingsTrue(r), Plan(r)
  PROVE  FaultStep(r)
<1>1. UNCHANGED <<role, faults, file>> /\ pc[r] = "plan" /\ step[r] = "ready"
  BY DEF Plan, brokerVars, boundVars, Expected, OwnScript
<1>2. CASE Moves(r) = {} /\ Finish(r, "ok")
  BY <1>1, <1>2, FinishExpected, SameRolesServe DEF FaultStep, Writing, TypeOK
<1>3. CASE /\ Moves(r) # {}
           /\ moves' = [moves EXCEPT ![r] = Moves(r)]
           /\ view' = [view EXCEPT ![r] = NoView]
           /\ Enter(r, "ask")
           /\ UNCHANGED <<todo, step>>
  <2>1. moves'[r] = Moves(r) /\ pc'[r] = "ask" /\ step'[r] = "ready"
    BY <1>1, <1>3, EnterAlone DEF TypeOK
  <2>2. \A v \in VPNs \ Moves(r) : Placed(r, v)'
    BY <1>1, PlanTrue DEF Placed
  <2>3. \A v \in Moves(r) : role'[file'[r][v]][v] = "standby"
    BY <1>1, PlanServes
  <2>4. Expected(r)'
    BY <2>1, <2>2, <2>3 DEF Expected, PassesGates, LeavesTheRest, PromotesStandby, OwnScript
  <2>5. ~Matches(file[r])
    BY <1>1, <1>3, PlanTrue DEF Matches, Placed, Moves
  <2>6. QED
    BY <1>1, <2>1, <2>4, <2>5, SameRolesServe DEF FaultStep, OnTrack, TypeOK
<1>4. QED
  BY <1>1, <1>2, <1>3, PlanServes DEF Plan

LEMMA AnswerFaultStep ==
  ASSUME TypeOK, RolesServe, faults <= MaxFaults, NEW r \in Runs, Expected(r), Answer(r)
  PROVE  FaultStep(r)
<1>1. UNCHANGED <<role, faults, file>> /\ pc[r] = "ask" /\ step[r] = "ready"
  BY DEF Answer, brokerVars, boundVars, Expected, OwnScript
<1>2. CASE Finish(r, "declined")
  BY <1>1, <1>2, FinishExpected, SameRolesServe DEF FaultStep, Writing, TypeOK
<1>3. CASE todo' = [todo EXCEPT ![r] = moves[r]] /\ Enter(r, "demote")
           /\ UNCHANGED <<view, moves, step>>
  <2>1. todo'[r] = moves[r] /\ moves'[r] = moves[r] /\ pc'[r] = "demote" /\ step'[r] = "ready"
    BY <1>1, <1>3, EnterAlone DEF TypeOK
  <2>2. Expected(r)'
    BY <1>1, <2>1 DEF Expected, PassesGates, LeavesTheRest, PromotesStandby, OwnScript,
       Writing, Placed
  <2>3. OnTrack(r)'
    BY <2>1 DEF OnTrack, Made, Executed
  <2>4. QED
    BY <1>1, <2>1, <2>2, <2>3, SameRolesServe DEF FaultStep, Writing, TypeOK
<1>4. QED
  BY <1>2, <1>3 DEF Answer

LEMMA InitOneFaultEach ==
  ASSUME ServingInit, IsFiniteSet(Runs)
  PROVE  OneFaultEach
<1>1. Init /\ Healthy /\ \A v \in VPNs : ~Split(v)
  BY DEF ServingInit, HealthyInit
<1>2. faults = 0 /\ 0 <= MaxFaults
  BY <1>1, BoundsAssumption DEF Init
<1>3. RolesServe
  BY <1>1 DEF Init, Healthy, RolesServe, Role, Settable
<1>4. \A r \in Runs : Expected(r) /\ OnTrack(r) /\ pc[r] = "idle"
  BY <1>1 DEF Init, Expected, PassesGates, LeavesTheRest, PromotesStandby, OwnScript,
     OnTrack, Writing, InHand
<1>5. Scarred = {}
  BY <1>4 DEF Scarred
<1>6. Cardinality(Scarred) <= faults
  BY <1>2, <1>5, FS_EmptySet
<1>7. QED
  BY <1>1, <1>2, <1>3, <1>4, <1>6 DEF OneFaultEach, StaysDone

\* After this step, what run r has to write and has written is in place, the write
\* of v, which is in hand, included.
Arrived(r, v) ==
  /\ \A w \in VPNs \ moves[r] :
       role'[file[r][w]][w] = "active" /\ role'[Other(file[r][w])][w] = "standby"
  /\ pc[r] = "demote" => \A w \in moves[r] : role'[file[r][w]][w] = "standby"
  /\ pc[r] = "promote" => \A w \in todo[r] \ {v} :
       role'[file[r][w]][w] = "standby" /\ \A s \in Sites : view[r][s][w].role = role'[s][w]
  /\ OnTrack(r) =>
       /\ pc[r] = "demote" => \A w \in moves[r] : w \notin todo[r] \/ w = v =>
            role'[Other(file[r][w])][w] = "standby"
       /\ pc[r] = "promote" => \A w \in moves[r] :
            /\ role'[Other(file[r][w])][w] = "standby"
            /\ w \notin todo[r] \/ w = v => role'[file[r][w]][w] = "active"

\* The write in hand arrives: it demotes at one site what it will promote at the
\* other, and promotes what is standby at both.
LEMMA ApplyArrives ==
  ASSUME TypeOK, RolesServe, NEW r \in Runs, Expected(r), NEW v \in VPNs,
         NextWrite(r, v), step[r] # "executed", ~MovedSince(r, v), Apply(WriteOf(r, v))
  PROVE  Arrived(r, v) /\ RolesServe'
<1> DEFINE c == WriteOf(r, v)
           home(w) == file[r][w]
           away(w) == Other(file[r][w])
<1>1. /\ v \in todo[r] /\ todo[r] \subseteq moves[r] /\ moves[r] \subseteq VPNs
      /\ pc[r] \in {"demote", "promote"}
      /\ \A w \in VPNs : ~Executed(r, w)
  BY OneInHand DEF Expected, LeavesTheRest, TypeOK, Executed
<1>2. \A w \in VPNs : home(w) \in Sites /\ away(w) \in Sites /\ away(w) # home(w)
  BY TheFile, OtherSite
<1>3. c \in Command
  BY WriteOfType
<1>4. \A s \in Sites, w \in VPNs :
        role'[s][w] = IF s = c.site /\ w = c.vpn THEN c.role ELSE role[s][w]
  BY <1>3 DEF Apply, Command, TypeOK
<1>5. \A w \in VPNs \ moves[r] : role[home(w)][w] = "active" /\ role[away(w)][w] = "standby"
  BY <1>1 DEF Expected, LeavesTheRest, Writing, Placed
<1>6. c.vpn = v
  BY DEF WriteOf
<1> HIDE DEF c
<1>7. \A w \in VPNs \ moves[r] : role'[home(w)][w] = "active" /\ role'[away(w)][w] = "standby"
  BY <1>1, <1>2, <1>4, <1>5, <1>6
<1>8. CASE pc[r] = "demote"
  <2>1. c.site = away(v) /\ c.role = "standby"
    BY <1>8 DEF WriteOf, c
  <2>2. \A w \in moves[r] : role[home(w)][w] = "standby"
    BY <1>8 DEF Expected, PromotesStandby
  <2>3. \A w \in moves[r] : role'[home(w)][w] = "standby"
    BY <1>1, <1>2, <1>4, <1>6, <2>1, <2>2
  <2>4. ASSUME OnTrack(r), NEW w \in moves[r], w \notin todo[r] \/ w = v
        PROVE  role'[away(w)][w] = "standby"
    <3>1. w \notin todo[r] => role[away(w)][w] = "standby"
      BY <1>8, <2>4 DEF OnTrack, Made
    <3>2. QED
      BY <1>1, <1>2, <1>4, <1>6, <2>1, <2>4, <3>1
  <2>5. RolesServe'
    BY <1>2, <1>4, <1>6, <2>1 DEF RolesServe, Settable, Split
  <2>6. QED
    BY <1>7, <1>8, <2>3, <2>4, <2>5 DEF Arrived
<1>9. CASE pc[r] = "promote"
  <2>1. c.site = home(v) /\ c.role = "active"
    BY <1>9 DEF WriteOf, c
  <2>2. \A w \in todo[r] : /\ role[home(w)][w] = "standby"
                           /\ \A s \in Sites : view[r][s][w].role = role[s][w]
    BY <1>1, <1>9 DEF Expected, PromotesStandby
  <2>3. \A w \in todo[r] \ {v} :
          role'[home(w)][w] = "standby" /\ \A s \in Sites : view[r][s][w].role = role'[s][w]
    BY <1>1, <1>2, <1>4, <1>6, <2>2
  <2>4. ASSUME OnTrack(r), NEW w \in moves[r]
        PROVE  /\ role'[away(w)][w] = "standby"
               /\ w \notin todo[r] \/ w = v => role'[home(w)][w] = "active"
    <3>1. /\ role[away(w)][w] = "standby"
          /\ w \notin todo[r] => role[home(w)][w] = "active"
      BY <1>9, <2>4 DEF OnTrack, Made
    <3>2. QED
      BY <1>1, <1>2, <1>4, <1>6, <2>1, <3>1
  <2>5. role[away(v)][v] # "active"
    BY <1>1, <1>2, <1>9, <2>2 DEF MovedSince
  <2>6. RolesServe'
    <3>1. \A s \in Sites, w \in VPNs : role'[s][w] \in Settable
      BY <1>4, <2>1 DEF RolesServe, Settable
    <3>2. ASSUME NEW w \in VPNs PROVE ~Split(w)'
      BY <1>2, <1>4, <1>6, <2>1, <2>5 DEF RolesServe, Split
    <3>3. QED
      BY <3>1, <3>2 DEF RolesServe
  <2>7. QED
    BY <1>7, <1>9, <2>3, <2>4, <2>6 DEF Arrived
<1>10. QED
  BY <1>1, <1>8, <1>9

\* It has arrived before, when it counts as executed.
LEMMA HeldArrives ==
  ASSUME TypeOK, NEW r \in Runs, Expected(r), NEW v \in VPNs,
         NextWrite(r, v), step[r] = "executed", UNCHANGED role
  PROVE  Arrived(r, v)
<1>1. /\ v \in todo[r] /\ todo[r] \subseteq moves[r] /\ moves[r] \subseteq VPNs
      /\ pc[r] \in {"demote", "promote"} /\ Executed(r, v)
      /\ \A w \in todo[r] : w # v => ~Executed(r, w)
  BY OneInHand DEF Expected, LeavesTheRest, TypeOK, Executed
<1>2. \A w \in VPNs \ moves[r] :
        role[file[r][w]][w] = "active" /\ role[Other(file[r][w])][w] = "standby"
  BY <1>1 DEF Expected, LeavesTheRest, Writing, Placed
<1>3. pc[r] = "demote" => \A w \in moves[r] : role[file[r][w]][w] = "standby"
  BY DEF Expected, PromotesStandby
<1>4. pc[r] = "promote" => \A w \in todo[r] \ {v} :
        role[file[r][w]][w] = "standby" /\ \A s \in Sites : view[r][s][w].role = role[s][w]
  BY <1>1 DEF Expected, PromotesStandby
<1>5. \A w \in moves[r] : w \notin todo[r] \/ w = v => w \in Made(r)
  BY <1>1 DEF Made
<1>6. QED
  BY <1>2, <1>3, <1>4, <1>5 DEF Arrived, OnTrack

\* Going on from a write that has arrived.
LEMMA AdvanceExpected ==
  ASSUME TypeOK, NEW r \in Runs, Expected(r), NEW v \in VPNs, NextWrite(r, v),
         Arrived(r, v), Advance(r, v), UNCHANGED file
  PROVE  Expected(r)' /\ (OnTrack(r) => OnTrack(r)')
<1>1. /\ todo'[r] = todo[r] \ {v} /\ step'[r] = "ready" /\ moves'[r] = moves[r]
      /\ v \in todo[r] /\ todo[r] \subseteq moves[r] /\ moves[r] \subseteq VPNs
      /\ pc[r] \in {"demote", "promote"}
  BY OneInHand DEF Advance, TypeOK, Expected, LeavesTheRest
<1>2. \A w \in VPNs \ moves'[r] : Placed(r, w)'
  BY <1>1 DEF Arrived, Placed
<1>3. CASE todo[r] # {v}
  <2>1. pc'[r] = pc[r] /\ view'[r] = view[r]
    BY <1>3 DEF Advance, readVars
  <2>2. LeavesTheRest(r)' /\ PassesGates(r)' /\ OwnScript(r)'
    BY <1>1, <1>2, <2>1 DEF LeavesTheRest, PassesGates, OwnScript
  <2>3. PromotesStandby(r)'
    BY <1>1, <2>1 DEF PromotesStandby, Arrived
  <2>4. \A w : ~Executed(r, w)'
    BY <1>1 DEF Executed
  <2>5. ASSUME NEW w \in Made(r)' PROVE w \in moves[r] /\ (w \notin todo[r] \/ w = v)
    BY <1>1, <2>4 DEF Made
  <2>6. OnTrack(r) => OnTrack(r)'
    BY <1>1, <2>1, <2>5 DEF OnTrack, Arrived
  <2>7. QED
    BY <2>2, <2>3, <2>6 DEF Expected
<1>4. CASE todo[r] = {v}
  <2>1. todo'[r] = {} /\ pc'[r] = PhaseAfter(pc[r]) /\ bad'[r] = FALSE
    BY <1>1, <1>4, EnterAlone DEF Advance
  <2>2. CASE pc[r] = "demote"
    <3>1. pc'[r] = "confirm"
      BY <2>1, <2>2 DEF PhaseAfter
    <3>2. LeavesTheRest(r)' /\ PassesGates(r)' /\ OwnScript(r)'
      BY <1>1, <1>2, <3>1 DEF LeavesTheRest, PassesGates, OwnScript
    <3>3. PromotesStandby(r)'
      BY <1>1, <2>1, <2>2, <3>1 DEF PromotesStandby, Arrived
    <3>4. OnTrack(r) => OnTrack(r)'
      BY <1>1, <1>4, <2>2, <3>1 DEF OnTrack, Arrived
    <3>5. QED
      BY <3>2, <3>3, <3>4 DEF Expected
  <2>3. CASE pc[r] = "promote"
    <3>1. pc'[r] = "verify"
      BY <2>1, <2>3 DEF PhaseAfter
    <3>2. LeavesTheRest(r)' /\ PassesGates(r)' /\ OwnScript(r)' /\ PromotesStandby(r)'
      BY <1>1, <1>2, <3>1 DEF LeavesTheRest, PassesGates, OwnScript, PromotesStandby
    <3>3. OnTrack(r) => \A w \in moves[r] : Placed(r, w)'
      BY <1>1, <1>4, <2>3 DEF Arrived, Placed
    <3>4. OnTrack(r) => OnTrack(r)'
      BY <1>1, <1>2, <2>1, <3>1, <3>3 DEF OnTrack
    <3>5. QED
      BY <3>2, <3>4 DEF Expected
  <2>4. QED
    BY <1>1, <2>2, <2>3
<1>5. QED
  BY <1>3, <1>4

LEMMA UploadFaultStep ==
  ASSUME TypeOK, RolesServe, faults <= MaxFaults, NEW r \in Runs, Expected(r),
         NEW v \in VPNs, Upload(r, v)
  PROVE  FaultStep(r)
<1>1. /\ UNCHANGED <<role, faults, file, moves, todo, pc, bad, view>>
      /\ step[r] = "ready" /\ step'[r] = "uploaded"
      /\ script'[WriteOf(r, v).site] = {WriteOf(r, v)}
      /\ <<r, WriteOf(r, v).site>> \in ViaCLI /\ ~MovedSince(r, v) /\ NextWrite(r, v)
  BY WriteOfType DEF Upload, brokerVars, boundVars, readVars, TypeOK
<1>2. \A w \in VPNs : /\ WriteOf(r, w)' = WriteOf(r, w)
                      /\ MovedSince(r, w)' <=> MovedSince(r, w)
                      /\ InHand(r, w)' <=> InHand(r, w)
                      /\ Placed(r, w)' <=> Placed(r, w)
  BY <1>1 DEF WriteOf, MovedSince, InHand, Placed
<1>3. \A w : ~Executed(r, w) /\ ~Executed(r, w)'
  BY <1>1 DEF Executed
<1>4. PassesGates(r)' /\ LeavesTheRest(r)' /\ PromotesStandby(r)'
  BY <1>1, <1>2, <1>3 DEF Expected, PassesGates, LeavesTheRest, PromotesStandby, TypeOK
<1>5. OwnScript(r)'
  BY <1>1, <1>2, OneInHand DEF OwnScript
<1>6. OnTrack(r)' <=> OnTrack(r)
  <2>1. Made(r)' = Made(r)
    BY <1>1, <1>3 DEF Made
  <2>2. pc[r] # "verify"
    BY <1>1, OneInHand
  <2>3. QED
    BY <1>1, <2>1, <2>2 DEF OnTrack
<1>7. QED
  BY <1>1, <1>4, <1>5, <1>6, OneInHand, SameRolesServe DEF FaultStep, Expected, Writing, TypeOK

LEMMA ExecuteFaultStep ==
  ASSUME TypeOK, RolesServe, faults <= MaxFaults, NEW r \in Runs, Expected(r),
         NEW v \in VPNs, Execute(r, v) \/ ExecuteNothing(r, v)
  PROVE  FaultStep(r)
<1>1. /\ UNCHANGED <<file, moves, todo, pc, bad, view>>
      /\ step[r] = "uploaded" /\ step'[r] = "executed" /\ NextWrite(r, v)
  BY DEF Execute, ExecuteNothing, boundVars, readVars, TypeOK
<1>2. /\ script[WriteOf(r, v).site] = {WriteOf(r, v)} /\ ~MovedSince(r, v)
      /\ <<r, WriteOf(r, v).site>> \in ViaCLI
  BY <1>1, OneInHand DEF Expected, OwnScript
<1>3. /\ v \in todo[r] /\ pc[r] \in {"demote", "promote"}
      /\ todo[r] \subseteq moves[r] /\ moves[r] \subseteq VPNs
      /\ \A w \in VPNs : InHand(r, w) <=> w = v
  BY <1>1, OneInHand DEF Expected, LeavesTheRest, TypeOK
<1>4. \A w \in VPNs : Executed(r, w)' <=> w = v
  BY <1>1, <1>3 DEF Executed, InHand
<1>5. OwnScript(r)' /\ PassesGates(r)'
  <2>1. WriteOf(r, v)' = WriteOf(r, v)
    BY <1>1 DEF WriteOf
  <2>2. \A w \in VPNs : InHand(r, w)' <=> w = v
    BY <1>1, <1>3 DEF InHand
  <2>3. QED
    BY <1>1, <1>2, <1>3, <2>1, <2>2 DEF OwnScript, PassesGates
<1>6. CASE Execute(r, v)
  <2>1. Apply(WriteOf(r, v)) /\ faults' = faults
    BY <1>2, <1>6 DEF Execute, boundVars
  <2>2. Arrived(r, v) /\ RolesServe'
    BY <1>1, <1>2, <2>1, ApplyArrives
  <2>3. LeavesTheRest(r)' /\ PromotesStandby(r)'
    BY <1>1, <1>3, <1>4, <2>2 DEF LeavesTheRest, PromotesStandby, Arrived, Placed
  <2>4. \A w \in Made(r)' : w \in moves[r] /\ (w \notin todo[r] \/ w = v)
    BY <1>1, <1>3, <1>4 DEF Made
  <2>5. OnTrack(r) => OnTrack(r)'
    BY <1>1, <1>3, <2>2, <2>4 DEF OnTrack, Arrived
  <2>6. QED
    BY <1>3, <1>5, <2>1, <2>2, <2>3, <2>5, <1>1 DEF FaultStep, Expected, Writing, TypeOK
<1>7. CASE ExecuteNothing(r, v)
  <2>1. UNCHANGED role /\ faults < MaxFaults /\ faults' = faults + 1
    BY <1>2, <1>7 DEF ExecuteNothing, brokerVars
  <2>2. \A w \in VPNs : ~Executed(r, w)
    BY <1>1 DEF Executed
  <2>3. LeavesTheRest(r)' /\ PromotesStandby(r)'
    BY <1>1, <1>3, <2>1, <2>2 DEF Expected, LeavesTheRest, PromotesStandby, Placed
  <2>4. QED
    BY <1>3, <1>5, <2>1, <2>3, SameRolesServe, BoundsAssumption
    DEF FaultStep, Expected, Writing, TypeOK
<1>8. QED
  BY <1>6, <1>7

LEMMA AdvanceFaultStep ==
  ASSUME TypeOK, RolesServe, faults <= MaxFaults, NEW r \in Runs, Expected(r),
         NEW v \in VPNs, RemoveScript(r, v) \/ PostSEMP(r, v)
  PROVE  FaultStep(r)
<1>1. UNCHANGED <<faults, file>> /\ NextWrite(r, v) /\ Advance(r, v)
  BY DEF RemoveScript, PostSEMP, boundVars
<1>2. Arrived(r, v) /\ RolesServe'
  <2>1. CASE RemoveScript(r, v)
    BY <1>1, <2>1, HeldArrives, SameRolesServe DEF RemoveScript, brokerVars
  <2>2. CASE PostSEMP(r, v)
    BY <1>1, <2>2, ApplyArrives DEF PostSEMP
  <2>3. QED
    BY <2>1, <2>2
<1>3. Expected(r)' /\ (OnTrack(r) => OnTrack(r)')
  BY <1>1, <1>2, AdvanceExpected
<1>4. pc[r] \in {"demote", "promote"} /\ pc'[r] # "failed"
  <2>1. pc[r] \in {"demote", "promote"}
    BY <1>1, OneInHand
  <2>2. PhaseAfter(pc[r]) # "failed"
    BY DEF PhaseAfter
  <2>3. CASE UNCHANGED <<pc, readVars>>
    BY <2>1, <2>3
  <2>4. CASE Enter(r, PhaseAfter(pc[r]))
    BY <2>1, <2>2, <2>4, EnterAlone
  <2>5. QED
    BY <1>1, <2>1, <2>3, <2>4 DEF Advance
<1>5. QED
  BY <1>1, <1>2, <1>3, <1>4 DEF FaultStep, Writing, TypeOK

LEMMA ConfirmFaultStep ==
  ASSUME TypeOK, RolesServe, faults <= MaxFaults, NEW r \in Runs, Expected(r),
         NEW s \in Sites, ConfirmDemotions(r, s)
  PROVE  FaultStep(r)
<1>1. UNCHANGED <<role, faults, file>> /\ pc[r] = "confirm" /\ step[r] = "ready"
  BY DEF ConfirmDemotions, brokerVars, boundVars, Expected, OwnScript
<1>2. CASE ~Confirmed(r, s) /\ Finish(r, "failed")
  <2>1. ~OnTrack(r)
    BY <1>1, <1>2 DEF Confirmed, Demoted, OnTrack
  <2>2. QED
    BY <1>1, <1>2, <2>1, FinishExpected, SameRolesServe DEF FaultStep, Writing, TypeOK
<1>3. CASE /\ UNCHANGED writeVars
           /\ \/ Visit(r, s) /\ UNCHANGED pc
              \/ Enter(r, "reread")
  <2>1. /\ UNCHANGED <<moves, todo, step>> /\ pc'[r] \in {"confirm", "reread"}
    BY <1>1, <1>3, EnterAlone DEF writeVars
  <2>2. \A v : Placed(r, v)' <=> Placed(r, v)
    BY <1>1 DEF Placed
  <2>3. Expected(r)'
    BY <1>1, <2>1, <2>2 DEF Expected, PassesGates, LeavesTheRest, PromotesStandby,
       OwnScript, Writing
  <2>4. OnTrack(r) => OnTrack(r)'
    BY <1>1, <2>1 DEF OnTrack
  <2>5. QED
    BY <1>1, <2>1, <2>3, <2>4, SameRolesServe DEF FaultStep, Writing, TypeOK
<1>4. QED
  BY <1>2, <1>3 DEF ConfirmDemotions

LEMMA RereadFaultStep ==
  ASSUME TypeOK, RolesServe, faults <= MaxFaults, NEW r \in Runs, Expected(r),
         ReadingsTrue(r), NEW s \in Sites, Reread(r, s)
  PROVE  FaultStep(r)
<1>1. /\ UNCHANGED <<role, faults, file, moves, step>> /\ pc[r] = "reread" /\ step[r] = "ready"
      /\ pc'[r] = IF Last(r, s) THEN "promote" ELSE "reread"
      /\ todo'[r] = IF Last(r, s) THEN moves[r] ELSE {}
      /\ moves[r] \subseteq VPNs
  BY DEF Reread, Read, brokerVars, boundVars, Expected, OwnScript, TypeOK
<1>2. \A v : Placed(r, v)' <=> Placed(r, v)
  BY <1>1 DEF Placed
<1>3. LeavesTheRest(r)' /\ PassesGates(r)' /\ OwnScript(r)'
  BY <1>1, <1>2 DEF Expected, PassesGates, LeavesTheRest, OwnScript, Writing
<1>4. PromotesStandby(r)'
  <2>1. \A v \in moves[r] : role[file[r][v]][v] = "standby"
    BY <1>1 DEF Expected, PromotesStandby
  <2>2. ASSUME Last(r, s), NEW t \in Sites, NEW v \in moves[r]
        PROVE  view'[r][t][v].role = role[t][v]
    <3>1. view'[r] = [view[r] EXCEPT ![s] = ReadRoles(s)] /\ view[r] \in [Sites -> [VPNs -> Reading]]
      BY DEF Reread, Read, TypeOK
    <3>2. view'[r][t] = ReadRoles(t)
      BY <1>1, <2>2, <3>1 DEF Last, ReadingsTrue
    <3>3. view'[r][t][v] = [admin |-> admin[t][v], role |-> role[t][v]]
      BY <1>1, <3>2 DEF ReadRoles
    <3>4. QED
      BY <3>3
  <2>3. CASE Last(r, s)
    BY <1>1, <2>1, <2>2, <2>3 DEF PromotesStandby
  <2>4. CASE ~Last(r, s)
    BY <1>1, <2>1, <2>4 DEF PromotesStandby
  <2>5. QED
    BY <2>3, <2>4
<1>5. OnTrack(r) => OnTrack(r)'
  <2>1. Last(r, s) => Made(r)' = {}
    BY <1>1 DEF Made, Executed
  <2>2. QED
    BY <1>1, <2>1 DEF OnTrack
<1>6. QED
  BY <1>1, <1>3, <1>4, <1>5, SameRolesServe DEF FaultStep, Expected, Writing, TypeOK

LEMMA StopMovedFaultStep ==
  ASSUME TypeOK, RolesServe, faults <= MaxFaults, NEW r \in Runs, Expected(r),
         NEW v \in VPNs, StopMoved(r, v)
  PROVE  FaultStep(r)
<1>1. /\ UNCHANGED <<role, faults, file>> /\ pc[r] = "promote" /\ v \in todo[r]
      /\ step[r] = "ready" /\ Finish(r, "failed")
  BY DEF StopMoved, brokerVars, boundVars, MovedSince, NextWrite
<1>2. PICK s \in Sites : view[r][s][v].role = "active"
  BY DEF StopMoved, MovedSince
<1>3. role[s][v] = "active" /\ role[file[r][v]][v] = "standby" /\ v \in moves[r]
  BY <1>1, <1>2 DEF Expected, PromotesStandby, LeavesTheRest, Executed
<1>4. s = Other(file[r][v])
  BY <1>3, TheFile, OtherSite
<1>5. ~OnTrack(r)
  BY <1>1, <1>3, <1>4 DEF OnTrack
<1>6. QED
  BY <1>1, <1>5, FinishExpected, SameRolesServe DEF FaultStep, Writing, TypeOK

LEMMA VerifyFaultStep ==
  ASSUME TypeOK, RolesServe, faults <= MaxFaults, NEW r \in Runs, Expected(r),
         NEW s \in Sites, Verify(r, s)
  PROVE  FaultStep(r)
<1>1. UNCHANGED <<role, faults, file>> /\ pc[r] = "verify" /\ step[r] = "ready"
  BY DEF Verify, brokerVars, boundVars, Expected, OwnScript
<1>2. OnTrack(r) => ~bad[r] /\ AsTheFileSays(r, s)
  <2>1. ASSUME OnTrack(r), NEW v \in VPNs PROVE role[s][v] = Want(r, s, v)
    <3>1. Placed(r, v) /\ (s = file[r][v] \/ s = Other(file[r][v]))
      BY <1>1, <2>1, TheFile, OtherSite DEF OnTrack
    <3>2. QED
      BY <3>1, TheFile, OtherSite DEF Placed, Want
  <2>2. QED
    BY <1>1, <2>1 DEF AsTheFileSays, OnTrack
<1>3. CASE /\ bad' = [bad EXCEPT ![r] = bad[r] \/ ~AsTheFileSays(r, s)]
           /\ UNCHANGED <<pc, view, writeVars>>
  <2>1. UNCHANGED <<moves, todo, step, pc>> /\ (OnTrack(r) => ~bad'[r])
    BY <1>2, <1>3 DEF writeVars, TypeOK
  <2>2. \A v : Placed(r, v)' <=> Placed(r, v)
    BY <1>1 DEF Placed
  <2>3. Expected(r)' /\ (OnTrack(r) => OnTrack(r)')
    BY <1>1, <2>1, <2>2 DEF Expected, PassesGates, LeavesTheRest, PromotesStandby,
       OwnScript, OnTrack
  <2>4. QED
    BY <1>1, <2>1, <2>3, SameRolesServe DEF FaultStep, Writing, TypeOK
<1>4. CASE Finish(r, IF bad[r] \/ ~AsTheFileSays(r, s) THEN "failed" ELSE "ok")
  <2>1. CASE bad[r] \/ ~AsTheFileSays(r, s)
    BY <1>1, <1>2, <1>4, <2>1, FinishExpected, SameRolesServe DEF FaultStep, Writing, TypeOK
  <2>2. CASE ~(bad[r] \/ ~AsTheFileSays(r, s))
    BY <1>1, <1>4, <2>2, FinishExpected, SameRolesServe DEF FaultStep, Writing, TypeOK
  <2>3. QED
    BY <2>1, <2>2
<1>5. QED
  BY <1>3, <1>4 DEF Verify

LEMMA FailFaultStep ==
  ASSUME TypeOK, ~Lingering, RolesServe, faults <= MaxFaults, NEW r \in Runs, Expected(r),
         RunFault(r)
  PROVE  FaultStep(r)
<1>1. Expected(r)' /\ OnTrack(r)' /\ pc'[r] = "failed" /\ faults' = faults + 1 /\ faults' <= MaxFaults
  BY FinishExpected, BoundsAssumption DEF RunFault, Fail, FailInFlight, TypeOK
<1>2. CASE Fail(r)
  BY <1>1, <1>2, SameRolesServe DEF Fail, FaultStep, Writing, brokerVars
<1>3. ASSUME NEW v \in VPNs, FailInFlight(r, v) PROVE FaultStep(r)
  <2>1. PICK c \in InFlight(r, v) : Apply(c)
    BY <1>3 DEF FailInFlight
  <2>2. NextWrite(r, v) /\ InHand(r, v) /\ pc[r] \in {"demote", "promote"}
    BY <1>3, OneInHand DEF FailInFlight
  <2>3. c = WriteOf(r, v) /\ step[r] # "executed" /\ ~MovedSince(r, v)
    <3>1. CASE <<r, WriteOf(r, v).site>> \in ViaCLI
      BY <2>1, <2>2, <3>1 DEF InFlight, Expected, OwnScript
    <3>2. CASE <<r, WriteOf(r, v).site>> \notin ViaCLI
      BY <2>1, <2>2, <3>2 DEF InFlight, Expected, OwnScript
    <3>3. QED
      BY <3>1, <3>2
  <2>4. RolesServe'
    BY <2>1, <2>2, <2>3, ApplyArrives
  <2>5. QED
    BY <1>1, <2>2, <2>4 DEF FaultStep, Writing
<1>4. QED
  BY <1>2, <1>3 DEF RunFault

\* Every step of the run in progress.
LEMMA RunFaultStep ==
  ASSUME TypeOK, ~Lingering, Healthy, RolesServe, faults <= MaxFaults, NEW r \in Runs,
         Expected(r), ReadingsTrue(r), Start(r) \/ RunStep(r) \/ RunFault(r)
  PROVE  FaultStep(r)
<1>1. CASE Start(r)
  <2>1. UNCHANGED <<role, faults, step>> /\ pc[r] = "idle" /\ pc'[r] = "primary" /\ ~bad'[r]
    BY <1>1, EnterAlone DEF Start, brokerVars, writeVars, boundVars
  <2>2. QED
    BY <2>1, EarlyExpected, SameRolesServe DEF FaultStep, Writing, TypeOK
<1>2. CASE RunStep(r)
  BY <1>2, GateFaultStep, ReadFaultStep, PlanFaultStep, AnswerFaultStep, UploadFaultStep,
     ExecuteFaultStep, AdvanceFaultStep, ConfirmFaultStep, RereadFaultStep,
     StopMovedFaultStep, VerifyFaultStep
  DEF RunStep
<1>3. CASE RunFault(r)
  BY <1>3, FailFaultStep
<1>4. QED
  BY <1>1, <1>2, <1>3

\* A run that is not in progress stays as it is, and is scarred when it has failed.
LEMMA RestExpected ==
  ASSUME TypeOK, NEW q \in Runs, pc[q] \notin Running, SameRun(q)
  PROVE  /\ Expected(q) => Expected(q)'
         /\ OnTrack(q) /\ OnTrack(q)'
<1>1. Expected(q) => Expected(q)'
  <2>1. ASSUME Expected(q) PROVE step[q] = "ready" /\ pc[q] # "refused"
    BY <2>1 DEF Expected, OwnScript, PassesGates, Running
  <2>2. QED
    BY <2>1 DEF SameRun, Expected, PassesGates, LeavesTheRest, PromotesStandby, OwnScript,
       Running, Writing
<1>2. OnTrack(q) /\ OnTrack(q)'
  BY DEF SameRun, OnTrack, Running
<1>3. QED
  BY <1>1, <1>2

LEMMA NextOneFaultEach ==
  ASSUME TypeOK, ~Overlap, ~Lingering, IsFiniteSet(Runs), InTurn, OneFaultEach, [Next]_vars
  PROVE  OneFaultEach'
<1>1. TypeOK'
  BY NextTypeOK
<1>2. faults' <= MaxFaults
  <2>1. ASSUME NEW r \in Runs, Start(r) \/ RunStep(r) \/ RunFault(r)
        PROVE  faults' = faults \/ (faults < MaxFaults /\ faults' = faults + 1)
    BY <2>1 DEF Start, RunStep, RunFault, CheckPrimaryActive, CheckMateNamed, Gate,
       ReadBefore, Reread, Read, Plan, Answer, Upload, Execute, ExecuteNothing, RemoveScript,
       PostSEMP, StopMoved, ConfirmDemotions, Verify, Fail, FailInFlight, boundVars
  <2>2. Somebody \/ UNCHANGED vars => faults' = faults
    BY DEF Somebody, OutsideRole, OutsideAdmin, OutsideFailover, OutsideMate, RunVars,
       vars, boundVars
  <2>3. CASE faults' = faults
    BY <2>3 DEF OneFaultEach
  <2>4. CASE faults < MaxFaults /\ faults' = faults + 1
    BY <2>4, BoundsAssumption DEF TypeOK
  <2>5. QED
    BY <2>1, <2>2, <2>3, <2>4 DEF Next, InTurn
<1>3. ASSUME Calm'
      PROVE  /\ Healthy' /\ RolesServe'
             /\ \A r \in Runs : Expected(r)'
             /\ StaysDone'
             /\ Cardinality(Scarred') <= faults'
  <2>1. Calm /\ UNCHANGED <<file, admin, primaryActive, mateNamed>>
    BY <1>3, OutsideGrows DEF Calm
  <2>2. /\ Healthy /\ RolesServe /\ \A r \in Runs : Expected(r)
        /\ StaysDone /\ Cardinality(Scarred) <= faults /\ faults <= MaxFaults
    BY <2>1 DEF OneFaultEach
  <2>3. Healthy'
    BY <2>1, <2>2 DEF Healthy
  <2>4. ASSUME NEW r \in Runs, Start(r) \/ RunStep(r) \/ RunFault(r)
        PROVE  /\ RolesServe'
               /\ \A q \in Runs : Expected(q)'
               /\ StaysDone'
               /\ Cardinality(Scarred') <= faults'
    <3>1. /\ \A q \in Runs : q # r => pc[q] \notin Running /\ SameRun(q)
      BY <2>4, RunInTurn, RunActsAlone DEF Alone
    <3>2. ReadingsTrue(r)
      BY <2>1 DEF InTurn, Calm
    <3>3. FaultStep(r)
      BY <2>2, <2>4, <3>2, RunFaultStep
    <3>4. ASSUME NEW q \in Runs PROVE Expected(q)'
      <4>1. CASE q = r
        BY <3>3, <4>1 DEF FaultStep
      <4>2. CASE q # r
        BY <2>2, <3>1, <4>2, RestExpected
      <4>3. QED
        BY <4>1, <4>2
    <3>5. StaysDone'
      <4> SUFFICES ASSUME NEW d \in Runs, pc'[d] = "ok", NEW q \in Runs
                   PROVE  pc'[q] \notin Writing /\ Matches(file[q])'
        BY DEF StaysDone
      <4>1. CASE \E p \in Runs : pc[p] = "ok"
        <5>1. \A p \in Runs : pc[p] \notin Writing /\ Matches(file[p])
          BY <2>2, <4>1 DEF StaysDone
        <5>2. UNCHANGED role /\ pc'[r] \notin Writing
          BY <3>3, <5>1 DEF FaultStep
        <5>3. Matches(file[q])'
          BY <2>1, <5>1, <5>2 DEF Matches
        <5>4. QED
          BY <3>1, <5>1, <5>2, <5>3 DEF SameRun
      <4>2. CASE \A p \in Runs : pc[p] # "ok"
        <5>1. d = r
          BY <3>1, <4>2 DEF SameRun
        <5>2. UNCHANGED role /\ Matches(file[r])
          BY <2>4, <3>2, <4>2, <5>1, RunTrue
        <5>3. Matches(file[q])'
          BY <2>1, <5>2 DEF Matches, Calm
        <5>4. pc'[q] \notin Writing
          BY <3>1, <5>1 DEF SameRun, Running, Writing
        <5>5. QED
          BY <5>3, <5>4
      <4>3. QED
        BY <4>1, <4>2
    <3>6. Cardinality(Scarred') <= faults'
      <4>1. ASSUME NEW q \in Scarred', q # r PROVE q \in Scarred
        <5>1. q \in Runs /\ SameRun(q) /\ OnTrack(q)'
          BY <3>1, <4>1, RestExpected DEF Scarred
        <5>2. QED
          BY <4>1, <5>1 DEF Scarred, SameRun
      <4>2. Scarred' \subseteq Scarred \cup {r}
        BY <4>1
      <4>3. IsFiniteSet(Scarred) /\ IsFiniteSet(Scarred') /\ IsFiniteSet(Scarred \cup {r})
        BY <4>2, FS_Subset, FS_AddElement DEF Scarred
      <4>4. /\ Cardinality(Scarred) \in Nat /\ Cardinality(Scarred') \in Nat
            /\ Cardinality(Scarred \cup {r}) <= Cardinality(Scarred) + 1
        <5>1. Cardinality(Scarred) \in Nat /\ Cardinality(Scarred') \in Nat
          BY <4>3, FS_CardinalityType
        <5>2. \/ Cardinality(Scarred \cup {r}) = Cardinality(Scarred)
              \/ Cardinality(Scarred \cup {r}) = Cardinality(Scarred) + 1
          BY <4>3, FS_AddElement
        <5>3. QED
          BY <5>1, <5>2
      <4>5. faults' = faults \/ faults' = faults + 1
        BY <3>3 DEF FaultStep
      <4>6. CASE faults' = faults + 1
        <5>1. Cardinality(Scarred') <= Cardinality(Scarred \cup {r})
          BY <4>2, <4>3, FS_Subset
        <5>2. Cardinality(Scarred \cup {r}) \in Nat
          BY <4>3, FS_CardinalityType
        <5>3. QED
          BY <2>2, <4>4, <4>6, <5>1, <5>2 DEF TypeOK
      <4>7. CASE faults' = faults
        <5>1. faults' # faults + 1
          BY <4>7 DEF TypeOK
        <5>2. r \in Scarred' => r \in Scarred
          BY <3>3, <5>1 DEF FaultStep, Scarred
        <5>3. Scarred' \subseteq Scarred
          BY <4>2, <5>2
        <5>4. Cardinality(Scarred') <= Cardinality(Scarred)
          BY <4>3, <5>3, FS_Subset
        <5>5. QED
          BY <2>2, <4>4, <4>7, <5>4 DEF TypeOK
      <4>8. QED
        BY <4>5, <4>6, <4>7
    <3>7. QED
      BY <3>3, <3>4, <3>5, <3>6 DEF FaultStep
  <2>5. CASE UNCHANGED vars
    <3>1. /\ RolesServe' /\ \A q \in Runs : Expected(q)'
          /\ StaysDone' /\ faults' = faults
      BY <2>2, <2>5 DEF vars, brokerVars, wireVars, readVars, writeVars, boundVars, RolesServe,
         Split, Expected, PassesGates, LeavesTheRest, PromotesStandby, OwnScript, Placed,
         Executed, InHand, WriteOf, MovedSince, StaysDone, Matches
    <3>2. Scarred' = Scarred
      BY <2>5 DEF vars, brokerVars, readVars, writeVars, Scarred, OnTrack, Made, Executed,
         InHand, Placed
    <3>3. Cardinality(Scarred') <= faults'
      BY <2>2, <3>1, <3>2, Zenon
    <3>4. QED
      BY <2>3, <3>1, <3>3
  <2>6. QED
    BY <1>3, <2>3, <2>4, <2>5, OutsideGrows DEF Calm, InTurn
<1>4. QED
  BY <1>2, <1>3 DEF OneFaultEach

\* Runs of the same env file made one after the other, nobody else writing and none
\* declined: when fewer calls fail than runs are made, however they fail, the pair
\* ends as the file says.
THEOREM RerunsConverge ==
  ASSUME ~Overlap, ~Lingering, IsFiniteSet(Runs), MaxFaults < Cardinality(Runs)
  PROVE  ServingSpec => []RerunConverges
<1>1. ServingInit => TypeOK /\ InTurn /\ OneFaultEach
  BY InitTypeOK, InitInTurn, InitOneFaultEach DEF ServingInit, HealthyInit
<1>2. TypeOK /\ InTurn /\ OneFaultEach /\ [Next]_vars => TypeOK' /\ InTurn' /\ OneFaultEach'
  BY NextTypeOK, NextInTurn, NextOneFaultEach
<1>3. ASSUME TypeOK, OneFaultEach, outside = 0, AllOver,
             \A r \in Runs : pc[r] # "declined",
             \A q, r \in Runs : file[q] = file[r]
      PROVE  \A r \in Runs : Matches(file[r])
  <2>1. /\ \A r \in Runs : Expected(r)
        /\ StaysDone /\ Cardinality(Scarred) <= faults /\ faults <= MaxFaults
    BY <1>3 DEF OneFaultEach, Calm
  <2>2. CASE \E r \in Runs : pc[r] = "ok"
    BY <2>1, <2>2 DEF StaysDone
  <2>3. CASE \A r \in Runs : pc[r] # "ok"
    <3>1. \A r \in Runs : pc[r] = "failed"
      BY <1>3, <2>1, <2>3 DEF AllOver, Outcome, Expected, PassesGates
    <3>2. Scarred = Runs
      BY <3>1 DEF Scarred
    <3>3. Cardinality(Runs) \in Nat /\ faults \in Nat /\ MaxFaults \in Nat
      BY <1>3, FS_CardinalityType, BoundsAssumption DEF TypeOK
    <3>4. QED
      BY <2>1, <3>2, <3>3
  <2>4. QED
    BY <2>2, <2>3
<1>4. TypeOK /\ OneFaultEach => RerunConverges
  BY <1>3 DEF RerunConverges
<1>5. QED
  BY <1>1, <1>2, <1>4, PTL DEF ServingSpec

-------------------------------------------------------------------------------
(* A run comes to its end *)

\* The stages ahead of a run, and the broker calls ahead of the write in hand.
StagesLeft(p) ==
  CASE p = "primary" -> 10 [] p = "mate" -> 9 [] p = "roles" -> 8 [] p = "plan" -> 7
    [] p = "ask" -> 6 [] p = "demote" -> 5 [] p = "confirm" -> 4 [] p = "reread" -> 3
    [] p = "promote" -> 2 [] p = "verify" -> 1 [] OTHER -> 0
CallsLeft(c) == CASE c = "ready" -> 2 [] c = "uploaded" -> 1 [] OTHER -> 0

\* The ways a run can come nearer to its end: a later stage; in this one another site
\* looked at; another VPN written; or another call of the write in hand made.
LaterStage(r)  == StagesLeft(pc'[r]) < StagesLeft(pc[r])
AnotherSite(r) == pc'[r] = pc[r] /\ seen[r] \subseteq seen'[r] /\ seen'[r] # seen[r]
AnotherVPN(r)  == /\ pc'[r] = pc[r] /\ seen'[r] = seen[r]
                  /\ todo'[r] \subseteq todo[r] /\ todo'[r] # todo[r]
AnotherCall(r) == /\ pc'[r] = pc[r] /\ seen'[r] = seen[r] /\ todo'[r] = todo[r]
                  /\ CallsLeft(step'[r]) < CallsLeft(step[r])
Nearer(r) == LaterStage(r) \/ AnotherSite(r) \/ AnotherVPN(r) \/ AnotherCall(r)

OnlyNearer(r) ==
  pc[r] \in Running =>
    /\ SameRun(r) \/ Nearer(r)
    /\ RunStep(r) \/ RunFault(r) => Nearer(r)

LEMMA VisitNearer ==
  ASSUME TypeOK, NEW r \in Runs, NEW s \in Sites \ seen[r], Visit(r, s)
  PROVE  seen[r] \subseteq seen'[r] /\ seen'[r] # seen[r]
BY DEF TypeOK, Visit

LEMMA FinishNearer ==
  ASSUME TypeOK, NEW r \in Runs, pc[r] \in Running, NEW o \in Outcome, Finish(r, o)
  PROVE  Nearer(r)
<1>1. pc'[r] = o
  BY FinishAlone
<1>2. StagesLeft(o) < StagesLeft(pc[r])
  BY DEF StagesLeft, Outcome, Running
<1>3. QED
  BY <1>1, <1>2 DEF Nearer, LaterStage

LEMMA EnterNearer ==
  ASSUME TypeOK, NEW r \in Runs, NEW p, Enter(r, p), StagesLeft(p) < StagesLeft(pc[r])
  PROVE  Nearer(r)
BY EnterAlone DEF Nearer, LaterStage

LEMMA GateNearer ==
  ASSUME TypeOK, NEW r \in Runs, NEW s \in Sites, NEW ok, NEW p, Gate(r, s, ok, p),
         pc[r] \in Running, StagesLeft(p) < StagesLeft(pc[r])
  PROVE  Nearer(r)
<1>1. CASE Visit(r, s) /\ UNCHANGED pc
  BY <1>1, VisitNearer DEF Gate, Nearer, AnotherSite
<1>2. CASE Finish(r, "refused")
  BY <1>2, FinishNearer DEF Outcome
<1>3. CASE Enter(r, p)
  BY <1>3, EnterNearer
<1>4. QED
  BY <1>1, <1>2, <1>3 DEF Gate

LEMMA ReadNearer ==
  ASSUME TypeOK, NEW r \in Runs, NEW s \in Sites, NEW p, Read(r, s, p),
         StagesLeft(p) < StagesLeft(pc[r])
  PROVE  Nearer(r)
<1>1. pc'[r] = p \/ (pc'[r] = pc[r] /\ Visit(r, s) /\ s \in Sites \ seen[r])
  BY DEF Read, TypeOK
<1>2. CASE pc'[r] = p
  BY <1>2 DEF Nearer, LaterStage
<1>3. CASE pc'[r] = pc[r] /\ Visit(r, s) /\ s \in Sites \ seen[r]
  BY <1>3, VisitNearer DEF Nearer, AnotherSite
<1>4. QED
  BY <1>1, <1>2, <1>3

LEMMA AdvanceNearer ==
  ASSUME TypeOK, NEW r \in Runs, NEW v \in VPNs, NextWrite(r, v), Advance(r, v)
  PROVE  Nearer(r)
<1>1. pc[r] \in {"demote", "promote"} /\ v \in todo[r]
  BY DEF NextWrite
<1>2. CASE todo[r] = {v}
  <2>1. StagesLeft(PhaseAfter(pc[r])) < StagesLeft(pc[r])
    BY <1>1 DEF StagesLeft, PhaseAfter
  <2>2. Enter(r, PhaseAfter(pc[r]))
    BY <1>2 DEF Advance
  <2>3. QED
    BY <2>1, <2>2, EnterNearer
<1>3. CASE todo[r] # {v}
  <2>1. pc' = pc /\ seen' = seen /\ todo'[r] = todo[r] \ {v}
    BY <1>3 DEF Advance, readVars, TypeOK
  <2>2. QED
    BY <1>1, <2>1 DEF Nearer, AnotherVPN
<1>4. QED
  BY <1>2, <1>3

LEMMA RunComesNearer ==
  ASSUME TypeOK, NEW r \in Runs, pc[r] \in Running, RunStep(r) \/ RunFault(r)
  PROVE  Nearer(r)
<1>1. ASSUME NEW s \in Sites, CheckPrimaryActive(r, s) \/ CheckMateNamed(r, s) PROVE Nearer(r)
  <2>1. CASE CheckPrimaryActive(r, s)
    <3>1. StagesLeft("mate") < StagesLeft(pc[r])
      BY <2>1 DEF CheckPrimaryActive, StagesLeft
    <3>2. QED
      BY <2>1, <3>1, GateNearer DEF CheckPrimaryActive
  <2>2. CASE CheckMateNamed(r, s)
    <3>1. StagesLeft("roles") < StagesLeft(pc[r])
      BY <2>2 DEF CheckMateNamed, StagesLeft
    <3>2. QED
      BY <2>2, <3>1, GateNearer DEF CheckMateNamed
  <2>3. QED
    BY <1>1, <2>1, <2>2
<1>2. ASSUME NEW s \in Sites, ReadBefore(r, s) \/ Reread(r, s) PROVE Nearer(r)
  <2>1. CASE ReadBefore(r, s)
    <3>1. StagesLeft("plan") < StagesLeft(pc[r])
      BY <2>1 DEF ReadBefore, StagesLeft
    <3>2. QED
      BY <2>1, <3>1, ReadNearer DEF ReadBefore
  <2>2. CASE Reread(r, s)
    <3>1. StagesLeft("promote") < StagesLeft(pc[r])
      BY <2>2 DEF Reread, StagesLeft
    <3>2. QED
      BY <2>2, <3>1, ReadNearer DEF Reread
  <2>3. QED
    BY <1>2, <2>1, <2>2
<1>3. CASE Plan(r) \/ Answer(r)
  <2>1. \/ \E o \in Outcome : Finish(r, o)
        \/ \E p : Enter(r, p) /\ StagesLeft(p) < StagesLeft(pc[r])
    <3>1. CASE Plan(r)
      BY <3>1 DEF Plan, Outcome, StagesLeft
    <3>2. CASE Answer(r)
      BY <3>2 DEF Answer, Outcome, StagesLeft
    <3>3. QED
      BY <1>3, <3>1, <3>2
  <2>2. QED
    BY <2>1, FinishNearer, EnterNearer
<1>4. ASSUME NEW v \in VPNs, Upload(r, v) \/ Execute(r, v) \/ ExecuteNothing(r, v)
      PROVE  Nearer(r)
  <2>1. /\ pc'[r] = pc[r] /\ seen'[r] = seen[r] /\ todo'[r] = todo[r]
        /\ \/ step[r] = "ready" /\ step'[r] = "uploaded"
           \/ step[r] = "uploaded" /\ step'[r] = "executed"
    BY <1>4 DEF Upload, Execute, ExecuteNothing, TypeOK, readVars
  <2>2. QED
    BY <2>1 DEF Nearer, AnotherCall, CallsLeft
<1>5. ASSUME NEW v \in VPNs, RemoveScript(r, v) \/ PostSEMP(r, v) PROVE Nearer(r)
  BY <1>5, AdvanceNearer DEF RemoveScript, PostSEMP
<1>6. ASSUME NEW v \in VPNs, StopMoved(r, v) PROVE Nearer(r)
  BY <1>6, FinishNearer DEF StopMoved, Outcome
<1>7. ASSUME NEW s \in Sites, ConfirmDemotions(r, s) PROVE Nearer(r)
  <2>1. CASE Finish(r, "failed")
    BY <2>1, FinishNearer DEF Outcome
  <2>2. CASE Visit(r, s) /\ UNCHANGED pc
    <3>1. s \in Sites \ seen[r]
      BY <1>7 DEF ConfirmDemotions
    <3>2. QED
      BY <2>2, <3>1, VisitNearer DEF Nearer, AnotherSite
  <2>3. CASE Enter(r, "reread")
    <3>1. StagesLeft("reread") < StagesLeft(pc[r])
      BY <1>7 DEF ConfirmDemotions, StagesLeft
    <3>2. QED
      BY <2>3, <3>1, EnterNearer
  <2>4. QED
    BY <1>7, <2>1, <2>2, <2>3 DEF ConfirmDemotions
<1>8. ASSUME NEW s \in Sites, Verify(r, s) PROVE Nearer(r)
  <2>1. CASE Visit(r, s) /\ UNCHANGED pc
    BY <1>8, <2>1, VisitNearer DEF Verify, Nearer, AnotherSite
  <2>2. CASE \E o \in Outcome : Finish(r, o)
    BY <2>2, FinishNearer
  <2>3. QED
    BY <1>8, <2>1, <2>2 DEF Verify, Outcome
<1>9. CASE RunFault(r)
  BY <1>9, FinishNearer DEF RunFault, Fail, FailInFlight, Outcome
<1>10. QED
  BY <1>1, <1>2, <1>3, <1>4, <1>5, <1>6, <1>7, <1>8, <1>9 DEF RunStep

\* RunsEnd without its fairness: nothing that another run, a late command or anybody else
\* does moves a run in progress at all, and each step of its own, a failure included,
\* brings it nearer to its end.  Sites, VPNs and calls are finitely many, so that it can
\* make no more steps than that.
THEOREM EveryStepComesNearer == Spec => [][\A r \in Runs : OnlyNearer(r)]_vars
<1>1. ASSUME TypeOK, [Next]_vars, NEW r \in Runs, pc[r] \in Running
      PROVE  /\ SameRun(r) \/ Nearer(r)
             /\ RunStep(r) \/ RunFault(r) => Nearer(r)
  <2>1. ASSUME RunStep(r) \/ RunFault(r) PROVE Nearer(r)
    BY <1>1, <2>1, RunComesNearer
  <2>2. ~Start(r)
    BY <1>1 DEF Start, Running
  <2>3. ASSUME NEW q \in Runs, q # r, Start(q) \/ RunStep(q) \/ RunFault(q) PROVE SameRun(r)
    BY <1>1, <2>3, RunActsAlone DEF Alone
  <2>4. ASSUME \/ \E c \in late : ExecuteLate(c)
               \/ Somebody
               \/ UNCHANGED vars
        PROVE  SameRun(r)
    BY <2>4 DEF ExecuteLate, Somebody, OutsideFailover, OutsideMate, OutsideRole, OutsideAdmin,
                RunVars, readVars, writeVars, vars, SameRun
  <2>5. QED
    BY <1>1, <2>1, <2>2, <2>3, <2>4 DEF Next
<1>2. TypeOK /\ [Next]_vars => [\A r \in Runs : OnlyNearer(r)]_vars
  BY <1>1 DEF OnlyNearer
<1>3. QED
  BY <1>2, TypeCorrect, PTL DEF Spec

-------------------------------------------------------------------------------
(* What the verify sees *)

\* The verify of run r has still to look at the site where v should not be active, or
\* has found something wrong already.  It is so whenever a verify begins.
HasItAhead(r, v) ==
  pc[r] = "verify" /\ (bad[r] \/ Other(file[r][v]) \notin seen[r])

Catches(r, v) ==
  /\ pc[r] = "verify" /\ seen[r] = {} => HasItAhead(r, v)
  /\ HasItAhead(r, v) /\ Split(v) => (HasItAhead(r, v) \/ pc[r] = "failed")'

LEMMA VerifyLooksThere ==
  ASSUME TypeOK, NEW r \in Runs, NEW v \in VPNs, NEW s \in Sites,
         HasItAhead(r, v), Split(v), Verify(r, s)
  PROVE  HasItAhead(r, v)' \/ pc'[r] = "failed"
<1>1. /\ pc \in [Runs -> Phase] /\ file \in [Runs -> Files]
      /\ seen \in [Runs -> SUBSET Sites] /\ bad \in [Runs -> BOOLEAN]
      /\ file[r][v] \in Sites /\ Other(file[r][v]) \in Sites /\ Other(file[r][v]) # file[r][v]
  BY OtherSite, TheFile DEF TypeOK
<1>2. bad[r] \/ ~AsTheFileSays(r, s) \/ Other(file[r][v]) \notin seen[r] \cup {s}
  <2>1. CASE s = Other(file[r][v])
    <3>1. role[s][v] = "active" /\ Want(r, s, v) = "standby"
      BY <1>1, <2>1 DEF Split, Want
    <3>2. QED
      BY <3>1 DEF AsTheFileSays
  <2>2. CASE s # Other(file[r][v])
    BY <2>2 DEF HasItAhead
  <2>3. QED
    BY <2>1, <2>2
<1>3. UNCHANGED file
  BY DEF Verify
<1>4. CASE ~Last(r, s)
  <2>1. /\ pc' = pc /\ seen'[r] = seen[r] \cup {s}
        /\ bad'[r] = (bad[r] \/ ~AsTheFileSays(r, s))
    BY <1>1, <1>4 DEF Verify, Visit
  <2>2. QED
    BY <1>2, <1>3, <2>1 DEF HasItAhead
<1>5. CASE Last(r, s)
  <2>1. bad[r] \/ ~AsTheFileSays(r, s)
    BY <1>1, <1>2, <1>5 DEF Last
  <2>2. Finish(r, "failed")
    BY <1>5, <2>1 DEF Verify
  <2>3. QED
    BY <2>2, FinishAlone
<1>6. QED
  BY <1>4, <1>5

\* VerifyCatches without its fairness: a verify that begins over a VPN active at both
\* sites has that ahead of it, and as long as the VPN is active at both, whoever has made
\* it so and whoever else acts, no step but a failure ends the verify.
THEOREM VerifyNeverMisses == Spec => [][\A r \in Runs, v \in VPNs : Catches(r, v)]_vars
<1>1. ASSUME TypeOK, [Next]_vars, NEW r \in Runs, NEW v \in VPNs, HasItAhead(r, v), Split(v)
      PROVE  HasItAhead(r, v)' \/ pc'[r] = "failed"
  <2>1. pc[r] = "verify"
    BY <1>1 DEF HasItAhead
  <2>2. ASSUME NEW s \in Sites, Verify(r, s) PROVE HasItAhead(r, v)' \/ pc'[r] = "failed"
    BY <1>1, <2>2, VerifyLooksThere
  <2>3. ASSUME RunStep(r) PROVE \E s \in Sites : Verify(r, s)
    BY <2>1, <2>3 DEF RunStep, CheckPrimaryActive, CheckMateNamed, ReadBefore, ConfirmDemotions,
       Reread, Plan, Answer, Upload, Execute, ExecuteNothing, RemoveScript, PostSEMP, StopMoved, NextWrite
  <2>4. ASSUME RunFault(r) PROVE pc'[r] = "failed"
    BY <1>1, <2>4, FinishAlone DEF RunFault, Fail, FailInFlight
  <2>5. ASSUME SameRun(r), UNCHANGED file PROVE HasItAhead(r, v)'
    BY <1>1, <2>5 DEF SameRun, HasItAhead
  <2>6. ASSUME NEW q \in Runs, q # r, Start(q) \/ RunStep(q) \/ RunFault(q)
        PROVE  SameRun(r) /\ UNCHANGED file
    BY <1>1, <2>6, RunActsAlone DEF Alone
  <2>7. ~Start(r)
    BY <2>1 DEF Start
  <2>8. ASSUME \/ \E c \in late : ExecuteLate(c)
               \/ Somebody
               \/ UNCHANGED vars
        PROVE  SameRun(r) /\ UNCHANGED file
    BY <2>8 DEF ExecuteLate, Somebody, OutsideFailover, OutsideMate, OutsideRole, OutsideAdmin,
                RunVars, readVars, writeVars, vars, SameRun
  <2>9. QED
    BY <1>1, <2>2, <2>3, <2>4, <2>5, <2>6, <2>7, <2>8 DEF Next
<1>2. TypeOK /\ [Next]_vars => [\A r \in Runs, v \in VPNs : Catches(r, v)]_vars
  BY <1>1 DEF Catches, HasItAhead
<1>3. QED
  BY <1>2, TypeCorrect, PTL DEF Spec
===============================================================================
