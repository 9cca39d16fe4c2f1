-------------------------- MODULE RedundancyTest_proofs --------------------------
(* Theorems about RedundancyTest: types, and what a run tells the backup and its *)
(* operator.                                                                      *)
EXTENDS RedundancyTest, TLAPS

-------------------------------------------------------------------------------
(* Types *)

LEMMA PrimaryType == TypeOK => Primary \in Reading /\ Unread \in Reading
BY DEF TypeOK, GroupType, Primary, Unread, Reading, LocalActive, MateActive

\* A run that polls has polls left.
CeilingInv == \A r \in Runs : pc[r] \notin Over => tries[r] < Attempts

Counts == faults \in 0..MaxFaults /\ outside \in 0..MaxOutside

Typed == TypeOK /\ CeilingInv

LEMMA TypedInit == Init => Typed
<1> SUFFICES ASSUME Init PROVE Typed
  OBVIOUS
<1>1. GroupType
  BY DEF Init, GroupType
<1>2. RunType
  <2>1. Unread \in Reading
    BY DEF Unread, Reading
  <2>2. 0 \in 0..Attempts /\ "idle" \in Phase
    BY AttemptsAssumption DEF Phase, Over
  <2> QED BY <2>1, <2>2 DEF Init, RunType
<1>3. faults \in 0..MaxFaults /\ outside \in 0..MaxOutside
  BY BoundsAssumption DEF Init
<1>4. CeilingInv
  BY DEF Init, CeilingInv, Over
<1> QED BY <1>1, <1>2, <1>3, <1>4 DEF Typed, TypeOK

LEMMA TypedStep == Typed /\ [Next]_vars => Typed'
<1> SUFFICES ASSUME Typed, [Next]_vars PROVE Typed'
  OBVIOUS
<1>1. Primary \in Reading /\ Unread \in Reading
  BY PrimaryType DEF Typed
<1>2. GroupType /\ RunType /\ Counts /\ CeilingInv
  BY DEF Typed, TypeOK, Counts
<1>3. ASSUME NEW r \in Runs, CheckHealth(r) PROVE Typed'
  <2>1. GroupType'
    BY <1>2, <1>3
       DEF GroupType, CheckHealth, AfterHealth, ReadPrimary, Goto, Quiet, groupVars,
           fixedVars
  <2>2. RunType'
    BY <1>1, <1>2, <1>3, AttemptsAssumption
       DEF RunType, CeilingInv, Phase, Over, CheckHealth, AfterHealth, ReadPrimary,
           Goto, Quiet
  <2>3. CeilingInv'
    BY <1>2, <1>3, AttemptsAssumption
       DEF RunType, CeilingInv, Over, CheckHealth, AfterHealth, ReadPrimary, Goto, Quiet
  <2>4. Counts'
    BY <1>2, <1>3, BoundsAssumption
       DEF Counts, fixedVars, CheckHealth, AfterHealth, ReadPrimary, Goto, Quiet
  <2> QED BY <2>1, <2>2, <2>3, <2>4 DEF Typed, TypeOK, Counts
<1>4. ASSUME NEW r \in Runs, Preflight(r) PROVE Typed'
  <2>1. GroupType'
    BY <1>2, <1>4 DEF GroupType, Preflight, AfterHealth, Goto, Quiet, groupVars, fixedVars
  <2>2. RunType'
    BY <1>1, <1>2, <1>4, AttemptsAssumption
       DEF RunType, CeilingInv, Phase, Over, Preflight, AfterHealth, Goto, Quiet
  <2>3. CeilingInv'
    BY <1>2, <1>4, AttemptsAssumption
       DEF RunType, CeilingInv, Over, Preflight, AfterHealth, Goto, Quiet
  <2>4. Counts'
    BY <1>2, <1>4, BoundsAssumption DEF Counts, fixedVars, Preflight, AfterHealth, Goto, Quiet
  <2> QED BY <2>1, <2>2, <2>3, <2>4 DEF Typed, TypeOK, Counts
<1>5. ASSUME NEW r \in Runs, Release(r) PROVE Typed'
  <2>1. GroupType'
    BY <1>2, <1>5 DEF GroupType, Release, Goto, Quiet, groupVars, fixedVars
  <2>2. RunType'
    BY <1>1, <1>2, <1>5, AttemptsAssumption
       DEF RunType, CeilingInv, Phase, Over, Release, Goto, Quiet
  <2>3. CeilingInv'
    BY <1>2, <1>5, AttemptsAssumption DEF RunType, CeilingInv, Over, Release, Goto, Quiet
  <2>4. Counts'
    BY <1>2, <1>5, BoundsAssumption DEF Counts, fixedVars, Release, Goto, Quiet
  <2> QED BY <2>1, <2>2, <2>3, <2>4 DEF Typed, TypeOK, Counts
<1>6. ASSUME NEW r \in Runs, PollReleased(r) PROVE Typed'
  <2>1. GroupType'
    BY <1>2, <1>6 DEF GroupType, PollReleased, Stay, Goto, Quiet, groupVars, fixedVars
  <2>2. RunType'
    BY <1>1, <1>2, <1>6, AttemptsAssumption
       DEF RunType, CeilingInv, Phase, Over, PollReleased, Stay, Goto, Quiet
  <2>3. CeilingInv'
    BY <1>2, <1>6, AttemptsAssumption DEF RunType, CeilingInv, Over, PollReleased, Stay, Goto, Quiet
  <2>4. Counts'
    BY <1>2, <1>6, BoundsAssumption DEF Counts, fixedVars, PollReleased, Stay, Goto, Quiet
  <2> QED BY <2>1, <2>2, <2>3, <2>4 DEF Typed, TypeOK, Counts
<1>7. ASSUME NEW r \in Runs, NoRelease(r) PROVE Typed'
  <2>1. GroupType'
    BY <1>2, <1>7 DEF GroupType, NoRelease, Goto, Quiet, groupVars, fixedVars
  <2>2. RunType'
    BY <1>1, <1>2, <1>7, AttemptsAssumption
       DEF RunType, CeilingInv, Phase, Over, NoRelease, Goto, Quiet
  <2>3. CeilingInv'
    BY <1>2, <1>7, AttemptsAssumption DEF RunType, CeilingInv, Over, NoRelease, Goto, Quiet
  <2>4. Counts'
    BY <1>2, <1>7, BoundsAssumption DEF Counts, fixedVars, NoRelease, Goto, Quiet
  <2> QED BY <2>1, <2>2, <2>3, <2>4 DEF Typed, TypeOK, Counts
<1>8. ASSUME NEW r \in Runs, PollPrimary(r) PROVE Typed'
  <2>1. GroupType'
    BY <1>2, <1>8 DEF GroupType, PollPrimary, ReadPrimary, Goto, Quiet, groupVars, fixedVars
  <2>2. RunType'
    BY <1>1, <1>2, <1>8, AttemptsAssumption
       DEF RunType, CeilingInv, Phase, Over, PollPrimary, ReadPrimary, Goto, Quiet
  <2>3. CeilingInv'
    BY <1>2, <1>8, AttemptsAssumption
       DEF RunType, CeilingInv, Over, PollPrimary, ReadPrimary, Goto, Quiet
  <2>4. Counts'
    BY <1>2, <1>8, BoundsAssumption DEF Counts, fixedVars, PollPrimary, ReadPrimary, Goto, Quiet
  <2> QED BY <2>1, <2>2, <2>3, <2>4 DEF Typed, TypeOK, Counts
<1>9. ASSUME NEW r \in Runs, PollUnreleased(r) PROVE Typed'
  <2>1. GroupType'
    BY <1>2, <1>9
       DEF GroupType, PollUnreleased, Poll, Polled, Stay, Goto, Quiet, groupVars,
           fixedVars
  <2>2. RunType'
    BY <1>1, <1>2, <1>9, AttemptsAssumption
       DEF RunType, CeilingInv, Phase, Over, PollUnreleased, Poll, Polled, Stay, Goto,
           Quiet
  <2>3. CeilingInv'
    BY <1>2, <1>9, AttemptsAssumption
       DEF RunType, CeilingInv, Over, PollUnreleased, Poll, Polled, Stay, Goto, Quiet
  <2>4. Counts'
    BY <1>2, <1>9, BoundsAssumption
       DEF Counts, fixedVars, PollUnreleased, Poll, Polled, Stay, Goto, Quiet
  <2> QED BY <2>1, <2>2, <2>3, <2>4 DEF Typed, TypeOK, Counts
<1>10. ASSUME NEW r \in Runs, CheckBackup(r) PROVE Typed'
  <2>1. GroupType'
    BY <1>2, <1>10 DEF GroupType, CheckBackup, Goto, Quiet, groupVars, fixedVars
  <2>2. RunType'
    BY <1>1, <1>2, <1>10, AttemptsAssumption
       DEF RunType, CeilingInv, Phase, Over, CheckBackup, Goto, Quiet
  <2>3. CeilingInv'
    BY <1>2, <1>10, AttemptsAssumption DEF RunType, CeilingInv, Over, CheckBackup, Goto, Quiet
  <2>4. Counts'
    BY <1>2, <1>10, BoundsAssumption DEF Counts, fixedVars, CheckBackup, Goto, Quiet
  <2> QED BY <2>1, <2>2, <2>3, <2>4 DEF Typed, TypeOK, Counts
<1>11. ASSUME NEW r \in Runs, Revert(r) PROVE Typed'
  <2>1. GroupType'
    BY <1>2, <1>11 DEF GroupType, Revert, Goto, Quiet, groupVars, fixedVars
  <2>2. RunType'
    BY <1>1, <1>2, <1>11, AttemptsAssumption
       DEF RunType, CeilingInv, Phase, Over, Revert, Goto, Quiet
  <2>3. CeilingInv'
    BY <1>2, <1>11, AttemptsAssumption DEF RunType, CeilingInv, Over, Revert, Goto, Quiet
  <2>4. Counts'
    BY <1>2, <1>11, BoundsAssumption DEF Counts, fixedVars, Revert, Goto, Quiet
  <2> QED BY <2>1, <2>2, <2>3, <2>4 DEF Typed, TypeOK, Counts
<1>12. ASSUME NEW r \in Runs, PollHome(r) PROVE Typed'
  <2>1. GroupType'
    BY <1>2, <1>12 DEF GroupType, PollHome, Poll, Polled, Stay, Goto, Quiet, groupVars, fixedVars
  <2>2. RunType'
    BY <1>1, <1>2, <1>12, AttemptsAssumption
       DEF RunType, CeilingInv, Phase, Over, PollHome, Poll, Polled, Stay, Goto, Quiet
  <2>3. CeilingInv'
    BY <1>2, <1>12, AttemptsAssumption
       DEF RunType, CeilingInv, Over, PollHome, Poll, Polled, Stay, Goto, Quiet
  <2>4. Counts'
    BY <1>2, <1>12, BoundsAssumption
       DEF Counts, fixedVars, PollHome, Poll, Polled, Stay, Goto, Quiet
  <2> QED BY <2>1, <2>2, <2>3, <2>4 DEF Typed, TypeOK, Counts
<1>13. ASSUME NEW r \in Runs, NoMate(r) PROVE Typed'
  <2>1. GroupType'
    BY <1>2, <1>13 DEF GroupType, NoMate, Goto, Quiet, groupVars, fixedVars
  <2>2. RunType'
    BY <1>1, <1>2, <1>13, AttemptsAssumption
       DEF RunType, CeilingInv, Phase, Over, NoMate, Goto, Quiet
  <2>3. CeilingInv'
    BY <1>2, <1>13, AttemptsAssumption DEF RunType, CeilingInv, Over, NoMate, Goto, Quiet
  <2>4. Counts'
    BY <1>2, <1>13, BoundsAssumption DEF Counts, fixedVars, NoMate, Goto, Quiet
  <2> QED BY <2>1, <2>2, <2>3, <2>4 DEF Typed, TypeOK, Counts
<1>14. ASSUME NEW r \in Runs, Begin(r) PROVE Typed'
  <2>1. GroupType'
    BY <1>2, <1>14 DEF GroupType, Begin, Goto, Quiet, groupVars, fixedVars
  <2>2. RunType'
    BY <1>1, <1>2, <1>14, AttemptsAssumption
       DEF RunType, CeilingInv, Phase, Over, Begin, Goto, Quiet
  <2>3. CeilingInv'
    BY <1>2, <1>14, AttemptsAssumption DEF RunType, CeilingInv, Over, Begin, Goto, Quiet
  <2>4. Counts'
    BY <1>2, <1>14, BoundsAssumption DEF Counts, fixedVars, Begin, Goto, Quiet
  <2> QED BY <2>1, <2>2, <2>3, <2>4 DEF Typed, TypeOK, Counts
<1>15. ASSUME NEW r \in Runs, Fail(r) PROVE Typed'
  <2>1. GroupType'
    BY <1>2, <1>15 DEF GroupType, Fail, Fault, Goto, groupVars, fixedVars
  <2>2. RunType'
    BY <1>1, <1>2, <1>15, AttemptsAssumption DEF RunType, CeilingInv, Phase, Over, Fail, Fault, Goto
  <2>3. CeilingInv'
    BY <1>2, <1>15, AttemptsAssumption DEF RunType, CeilingInv, Over, Fail, Fault, Goto
  <2>4. Counts'
    BY <1>2, <1>15, BoundsAssumption DEF Counts, fixedVars, Fail, Fault, Goto
  <2> QED BY <2>1, <2>2, <2>3, <2>4 DEF Typed, TypeOK, Counts
<1>16. ASSUME NEW r \in Runs, FailInFlight(r) PROVE Typed'
  <2>1. GroupType'
    BY <1>2, <1>16 DEF GroupType, FailInFlight, Fault, Goto, groupVars, fixedVars
  <2>2. RunType'
    BY <1>1, <1>2, <1>16, AttemptsAssumption
       DEF RunType, CeilingInv, Phase, Over, FailInFlight, Fault, Goto
  <2>3. CeilingInv'
    BY <1>2, <1>16, AttemptsAssumption DEF RunType, CeilingInv, Over, FailInFlight, Fault, Goto
  <2>4. Counts'
    BY <1>2, <1>16, BoundsAssumption DEF Counts, fixedVars, FailInFlight, Fault, Goto
  <2> QED BY <2>1, <2>2, <2>3, <2>4 DEF Typed, TypeOK, Counts
<1>17. CASE GiveUp
  <2>1. GroupType'
    BY <1>2, <1>17 DEF GroupType, GiveUp, Move, GroupStep, groupVars, fixedVars
  <2>2. RunType' /\ CeilingInv'
    BY <1>2, <1>17 DEF RunType, CeilingInv, GiveUp, Move, GroupStep
  <2>3. Counts'
    BY <1>2, <1>17, BoundsAssumption DEF Counts, GiveUp, Move, GroupStep
  <2> QED BY <2>1, <2>2, <2>3 DEF Typed, TypeOK, Counts
<1>18. CASE BackupTakes
  <2>1. GroupType'
    BY <1>2, <1>18 DEF GroupType, BackupTakes, Move, GroupStep, groupVars, fixedVars
  <2>2. RunType' /\ CeilingInv'
    BY <1>2, <1>18 DEF RunType, CeilingInv, BackupTakes, Move, GroupStep
  <2>3. Counts'
    BY <1>2, <1>18, BoundsAssumption DEF Counts, BackupTakes, Move, GroupStep
  <2> QED BY <2>1, <2>2, <2>3 DEF Typed, TypeOK, Counts
<1>19. CASE PrimaryTakes
  <2>1. GroupType'
    BY <1>2, <1>19 DEF GroupType, PrimaryTakes, Move, GroupStep, groupVars, fixedVars
  <2>2. RunType' /\ CeilingInv'
    BY <1>2, <1>19 DEF RunType, CeilingInv, PrimaryTakes, Move, GroupStep
  <2>3. Counts'
    BY <1>2, <1>19, BoundsAssumption DEF Counts, PrimaryTakes, Move, GroupStep
  <2> QED BY <2>1, <2>2, <2>3 DEF Typed, TypeOK, Counts
<1>20. CASE Hello
  <2>1. GroupType'
    BY <1>2, <1>20 DEF GroupType, Hello, GroupStep, groupVars, fixedVars
  <2>2. RunType' /\ CeilingInv'
    BY <1>2, <1>20 DEF RunType, CeilingInv, Hello, GroupStep
  <2>3. Counts'
    BY <1>2, <1>20, BoundsAssumption DEF Counts, Hello, GroupStep
  <2> QED BY <2>1, <2>2, <2>3 DEF Typed, TypeOK, Counts
<1>21. CASE Settle
  <2>1. GroupType'
    BY <1>2, <1>21 DEF GroupType, Settle, GroupStep, groupVars, fixedVars
  <2>2. RunType' /\ CeilingInv'
    BY <1>2, <1>21 DEF RunType, CeilingInv, Settle, GroupStep
  <2>3. Counts'
    BY <1>2, <1>21, BoundsAssumption DEF Counts, Settle, GroupStep
  <2> QED BY <2>1, <2>2, <2>3 DEF Typed, TypeOK, Counts
<1>22. CASE GiveBack
  <2>1. GroupType'
    BY <1>2, <1>22 DEF GroupType, GiveBack, Move, GroupStep, groupVars, fixedVars
  <2>2. RunType' /\ CeilingInv'
    BY <1>2, <1>22 DEF RunType, CeilingInv, GiveBack, Move, GroupStep
  <2>3. Counts'
    BY <1>2, <1>22, BoundsAssumption DEF Counts, GiveBack, Move, GroupStep
  <2> QED BY <2>1, <2>2, <2>3 DEF Typed, TypeOK, Counts
<1>23. CASE LoseMate
  <2>1. GroupType'
    BY <1>2, <1>23 DEF GroupType, LoseMate, Move, Outside, groupVars, fixedVars
  <2>2. RunType' /\ CeilingInv'
    BY <1>2, <1>23 DEF RunType, CeilingInv, LoseMate, Move, Outside
  <2>3. Counts'
    BY <1>2, <1>23, BoundsAssumption DEF Counts, LoseMate, Move, Outside
  <2> QED BY <2>1, <2>2, <2>3 DEF Typed, TypeOK, Counts
<1>24. CASE MateReturns
  <2>1. GroupType'
    BY <1>2, <1>24 DEF GroupType, MateReturns, GroupStep, groupVars, fixedVars
  <2>2. RunType' /\ CeilingInv'
    BY <1>2, <1>24 DEF RunType, CeilingInv, MateReturns, GroupStep
  <2>3. Counts'
    BY <1>2, <1>24, BoundsAssumption DEF Counts, MateReturns, GroupStep
  <2> QED BY <2>1, <2>2, <2>3 DEF Typed, TypeOK, Counts
<1>25. CASE Restore
  <2>1. GroupType'
    BY <1>2, <1>25 DEF GroupType, Restore, Outside, groupVars, fixedVars
  <2>2. RunType' /\ CeilingInv'
    BY <1>2, <1>25 DEF RunType, CeilingInv, Restore, Outside
  <2>3. Counts'
    BY <1>2, <1>25, BoundsAssumption DEF Counts, Restore, Outside
  <2> QED BY <2>1, <2>2, <2>3 DEF Typed, TypeOK, Counts
<1>26. CASE UNCHANGED vars
  BY <1>2, <1>26
     DEF vars, runVars, groupVars, fixedVars, Typed, TypeOK, GroupType, RunType,
         CeilingInv, Counts
<1> QED
  BY <1>3, <1>4, <1>5, <1>6, <1>7, <1>8, <1>9, <1>10, <1>11, <1>12, <1>13, <1>14, <1>15,
     <1>16, <1>17, <1>18, <1>19, <1>20, <1>21, <1>22, <1>23, <1>24, <1>25, <1>26
     DEF Next, RunStep

LEMMA TypedAlways == Spec => []Typed
BY TypedInit, TypedStep, PTL DEF Spec

\* Every variable keeps its type, and no wait polls more than PollAttempts times, for
\* any number of runs at once and of failures.
THEOREM TypeCorrect == Spec => []TypeOK
BY TypedAlways, PTL DEF Typed

-------------------------------------------------------------------------------
(* What a run knows of the group                                                 *)

\* The primary takes its mate for active only while it is not active itself; if the
\* mate is there, it is active or has just given activity up.
GroupInv ==
  /\ seen => holder # "primary"
  /\ mate /\ seen => holder = "backup" \/ reverting

\* No reading is left over when a wait begins.
FreshInv ==
  \A r \in Runs :
    pc[r] \in {"health", "release", "released", "noRelease", "backup", "revert"}
      => reading[r] = Unread

\* A run that can see an active backup, or has seen it, has seen no older one.
HistoryInv ==
  \A r \in Runs : pc[r] \notin Over =>
    /\ holder = "backup" => tookOver[r]
    /\ mate /\ seen => tookOver[r]
    /\ pc[r] # "health" /\ seen => tookOver[r]
    /\ pc[r] \in {"noRelease", "unreleased", "revert", "home"} => tookOver[r]

AloneInv == alone => \A r, s \in Runs : pc[r] \notin Over /\ pc[s] \notin Over => r = s

\* If nobody else acts, what a run has read of the primary still holds.
ReadyInv ==
  alone /\ outside = 0 =>
    /\ mate
    /\ \A r \in Runs :
        /\ pc[r] \in {"preflight", "release", "backup", "revert", "home"} => EnabledUp
        /\ pc[r] = "unreleased" => ~released
        /\ pc[r] = "unreleased" /\ Up(reading[r]) => EnabledUp
        /\ pc[r] = "home" /\ reading[r].local => holder = "primary"

Known == Typed /\ GroupInv /\ FreshInv /\ HistoryInv /\ AloneInv /\ ReadyInv

\* Nobody's interference is forgotten.
LEMMA OutsideGrows ==
  ASSUME Typed, [Next]_vars, outside' = 0
  PROVE  outside = 0
<1>1. outside \in Nat
  BY BoundsAssumption DEF Typed, TypeOK
<1>2. outside' = outside \/ outside' = outside + 1
  BY DEF Next, RunStep, Begin, CheckHealth, Preflight, Release, PollReleased, NoRelease,
         PollPrimary, PollUnreleased, PollHome, Poll, CheckBackup, Revert, NoMate, Fail,
         FailInFlight, Fault, Quiet, GiveUp, BackupTakes, PrimaryTakes, Hello, Settle,
         GiveBack, GroupStep, LoseMate, MateReturns, Restore, Outside, vars
<1> QED BY <1>1, <1>2

LEMMA KnownInit == Init => Known
<1> SUFFICES ASSUME Init PROVE Known
  OBVIOUS
<1>1. Typed
  BY TypedInit
<1>2. \A r \in Runs : pc[r] = "idle"
  BY DEF Init
<1> QED
  BY <1>1, <1>2 DEF Init, Known, GroupInv, FreshInv, HistoryInv, AloneInv, ReadyInv, Over

LEMMA KnownStep == Known /\ [Next]_vars => Known'
<1> SUFFICES ASSUME Known, [Next]_vars PROVE Known'
  OBVIOUS
<1>1. Typed'
  BY TypedStep DEF Known
<1>2. outside' = 0 => outside = 0
  BY OutsideGrows DEF Known
<1>3. GroupType /\ RunType /\ outside \in Nat
  BY BoundsAssumption DEF Known, Typed, TypeOK
<1>4. GroupInv /\ FreshInv /\ HistoryInv /\ AloneInv /\ ReadyInv
  BY DEF Known
<1> USE DEF GroupType, RunType, Over
<1>5. ASSUME NEW r \in Runs, CheckHealth(r) PROVE Known'
  <2>1. GroupInv'
    BY <1>3, <1>4, <1>5
       DEF GroupInv, CheckHealth, AfterHealth, ReadPrimary, Primary, LocalActive,
           MateActive, Healthy, Up, EnabledUp, Goto, Quiet, Unread, fixedVars, groupVars
  <2>2. FreshInv'
    BY <1>3, <1>4, <1>5
       DEF FreshInv, CheckHealth, AfterHealth, ReadPrimary, Primary, LocalActive,
           MateActive, Healthy, Up, EnabledUp, Goto, Quiet, Unread, fixedVars, groupVars
  <2>3. HistoryInv'
    BY <1>3, <1>4, <1>5
       DEF HistoryInv, GroupInv, CheckHealth, AfterHealth, ReadPrimary, Primary,
           LocalActive, MateActive, Healthy, Up, EnabledUp, Goto, Quiet, Unread,
           fixedVars, groupVars
  <2>4. AloneInv'
    BY <1>3, <1>4, <1>5
       DEF AloneInv, CheckHealth, AfterHealth, ReadPrimary, Primary, LocalActive,
           MateActive, Healthy, Up, EnabledUp, Goto, Quiet, Unread, fixedVars, groupVars
  <2>5. ReadyInv'
    BY <1>2, <1>3, <1>4, <1>5
       DEF ReadyInv, AloneInv, FreshInv, CheckHealth, AfterHealth, ReadPrimary, Primary,
           LocalActive, MateActive, Healthy, Up, EnabledUp, Goto, Quiet, Unread,
           fixedVars, groupVars
  <2> QED BY <1>1, <2>1, <2>2, <2>3, <2>4, <2>5 DEF Known
<1>6. ASSUME NEW r \in Runs, Preflight(r) PROVE Known'
  <2>1. GroupInv'
    BY <1>3, <1>4, <1>6
       DEF GroupInv, Preflight, AfterHealth, Unread, Goto, Quiet, Up, EnabledUp,
           fixedVars, groupVars
  <2>2. FreshInv'
    BY <1>3, <1>4, <1>6
       DEF FreshInv, Preflight, AfterHealth, Unread, Goto, Quiet, Up, EnabledUp,
           fixedVars, groupVars
  <2>3. HistoryInv'
    BY <1>3, <1>4, <1>6
       DEF HistoryInv, GroupInv, Preflight, AfterHealth, Unread, Goto, Quiet, Up,
           EnabledUp, fixedVars, groupVars
  <2>4. AloneInv'
    BY <1>3, <1>4, <1>6
       DEF AloneInv, Preflight, AfterHealth, Unread, Goto, Quiet, Up, EnabledUp,
           fixedVars, groupVars
  <2>5. ReadyInv'
    BY <1>2, <1>3, <1>4, <1>6
       DEF ReadyInv, AloneInv, FreshInv, Preflight, AfterHealth, Unread, Goto, Quiet,
           Up, EnabledUp, fixedVars, groupVars
  <2> QED BY <1>1, <2>1, <2>2, <2>3, <2>4, <2>5 DEF Known
<1>7. ASSUME NEW r \in Runs, Release(r) PROVE Known'
  <2>1. GroupInv'
    BY <1>3, <1>4, <1>7 DEF GroupInv, Release, Goto, Quiet, fixedVars, groupVars
  <2>2. FreshInv'
    BY <1>3, <1>4, <1>7 DEF FreshInv, Release, Goto, Quiet, fixedVars, groupVars
  <2>3. HistoryInv'
    BY <1>3, <1>4, <1>7 DEF HistoryInv, GroupInv, Release, Goto, Quiet, fixedVars, groupVars
  <2>4. AloneInv'
    BY <1>3, <1>4, <1>7 DEF AloneInv, Release, Goto, Quiet, fixedVars, groupVars
  <2>5. ReadyInv'
    BY <1>2, <1>3, <1>4, <1>7
       DEF ReadyInv, AloneInv, FreshInv, Release, Goto, Quiet, fixedVars, groupVars, Up,
           EnabledUp
  <2> QED BY <1>1, <2>1, <2>2, <2>3, <2>4, <2>5 DEF Known
<1>8. ASSUME NEW r \in Runs, PollReleased(r) PROVE Known'
  <2>1. GroupInv'
    BY <1>3, <1>4, <1>8
       DEF GroupInv, PollReleased, Stay, IsReleased, Primary, MateActive, LocalActive,
           Goto, Quiet, fixedVars, groupVars
  <2>2. FreshInv'
    BY <1>3, <1>4, <1>8
       DEF FreshInv, PollReleased, Stay, IsReleased, Primary, MateActive, LocalActive,
           Goto, Quiet, fixedVars, groupVars
  <2>3. HistoryInv'
    BY <1>3, <1>4, <1>8
       DEF HistoryInv, GroupInv, PollReleased, Stay, IsReleased, Primary, MateActive,
           LocalActive, Goto, Quiet, fixedVars, groupVars
  <2>4. AloneInv'
    BY <1>3, <1>4, <1>8
       DEF AloneInv, PollReleased, Stay, IsReleased, Primary, MateActive, LocalActive,
           Goto, Quiet, fixedVars, groupVars
  <2>5. ReadyInv'
    BY <1>2, <1>3, <1>4, <1>8
       DEF ReadyInv, AloneInv, FreshInv, PollReleased, Stay, IsReleased, Primary,
           MateActive, LocalActive, Goto, Quiet, fixedVars, groupVars, Up, EnabledUp
  <2> QED BY <1>1, <2>1, <2>2, <2>3, <2>4, <2>5 DEF Known
<1>9. ASSUME NEW r \in Runs, NoRelease(r) PROVE Known'
  <2>1. GroupInv'
    BY <1>3, <1>4, <1>9 DEF GroupInv, NoRelease, Goto, Quiet, fixedVars, groupVars
  <2>2. FreshInv'
    BY <1>3, <1>4, <1>9 DEF FreshInv, NoRelease, Goto, Quiet, fixedVars, groupVars
  <2>3. HistoryInv'
    BY <1>3, <1>4, <1>9 DEF HistoryInv, GroupInv, NoRelease, Goto, Quiet, fixedVars, groupVars
  <2>4. AloneInv'
    BY <1>3, <1>4, <1>9 DEF AloneInv, NoRelease, Goto, Quiet, fixedVars, groupVars
  <2>5. reading[r] = Unread /\ ~Up(Unread) /\ ~Unread.local
    BY <1>4, <1>9 DEF FreshInv, Up, Unread, NoRelease
  <2>6. ReadyInv'
    BY <1>2, <1>3, <1>4, <1>9, <2>5
       DEF ReadyInv, AloneInv, NoRelease, Goto, Quiet, fixedVars, groupVars, EnabledUp
  <2> QED BY <1>1, <2>1, <2>2, <2>3, <2>4, <2>6 DEF Known
<1>10. ASSUME NEW r \in Runs, PollPrimary(r) PROVE Known'
  <2>1. GroupInv'
    BY <1>3, <1>4, <1>10
       DEF GroupInv, PollPrimary, ReadPrimary, Primary, MateActive, LocalActive, Goto,
           Quiet, Unread, Up, EnabledUp, fixedVars, groupVars
  <2>2. FreshInv'
    BY <1>3, <1>4, <1>10
       DEF FreshInv, PollPrimary, ReadPrimary, Primary, MateActive, LocalActive, Goto,
           Quiet, Unread, Up, EnabledUp, fixedVars, groupVars
  <2>3. HistoryInv'
    BY <1>3, <1>4, <1>10
       DEF HistoryInv, GroupInv, PollPrimary, ReadPrimary, Primary, MateActive,
           LocalActive, Goto, Quiet, Unread, Up, EnabledUp, fixedVars, groupVars
  <2>4. AloneInv'
    BY <1>3, <1>4, <1>10
       DEF AloneInv, PollPrimary, ReadPrimary, Primary, MateActive, LocalActive, Goto,
           Quiet, Unread, Up, EnabledUp, fixedVars, groupVars
  <2>5. ReadyInv'
    BY <1>2, <1>3, <1>4, <1>10
       DEF ReadyInv, AloneInv, FreshInv, PollPrimary, ReadPrimary, Primary, MateActive,
           LocalActive, Goto, Quiet, Unread, Up, EnabledUp, fixedVars, groupVars
  <2> QED BY <1>1, <2>1, <2>2, <2>3, <2>4, <2>5 DEF Known
<1>11. ASSUME NEW r \in Runs, PollUnreleased(r) PROVE Known'
  <2>1. GroupInv'
    BY <1>3, <1>4, <1>11
       DEF GroupInv, PollUnreleased, Poll, Polled, Stay, Primary, LocalActive,
           MateActive, IsUnreleased, Unread, Goto, Quiet, Up, EnabledUp, fixedVars,
           groupVars
  <2>2. FreshInv'
    BY <1>3, <1>4, <1>11
       DEF FreshInv, PollUnreleased, Poll, Polled, Stay, Primary, LocalActive,
           MateActive, IsUnreleased, Unread, Goto, Quiet, Up, EnabledUp, fixedVars,
           groupVars
  <2>3. HistoryInv'
    BY ZenonT(60), <1>3, <1>4, <1>11
       DEF HistoryInv, GroupInv, PollUnreleased, Poll, Polled, Stay, Primary,
           LocalActive, MateActive, IsUnreleased, Unread, Goto, Quiet, Up, EnabledUp,
           fixedVars, groupVars
  <2>4. AloneInv'
    BY <1>3, <1>4, <1>11
       DEF AloneInv, PollUnreleased, Poll, Polled, Stay, Primary, LocalActive,
           MateActive, IsUnreleased, Unread, Goto, Quiet, Up, EnabledUp, fixedVars,
           groupVars
  <2>5. ReadyInv'
    BY ZenonT(60), <1>2, <1>3, <1>4, <1>11
       DEF ReadyInv, AloneInv, FreshInv, PollUnreleased, Poll, Polled, Stay, Primary,
           LocalActive, MateActive, IsUnreleased, Unread, Goto, Quiet, Up, EnabledUp,
           fixedVars, groupVars
  <2> QED BY <1>1, <2>1, <2>2, <2>3, <2>4, <2>5 DEF Known
<1>12. ASSUME NEW r \in Runs, CheckBackup(r) PROVE Known'
  <2>1. GroupInv'
    BY <1>3, <1>4, <1>12
       DEF GroupInv, CheckBackup, BackupActive, MateActive, Goto, Quiet, fixedVars,
           groupVars
  <2>2. FreshInv'
    BY <1>3, <1>4, <1>12
       DEF FreshInv, CheckBackup, BackupActive, MateActive, Goto, Quiet, fixedVars,
           groupVars
  <2>3. HistoryInv'
    BY <1>3, <1>4, <1>12
       DEF HistoryInv, GroupInv, CheckBackup, BackupActive, MateActive, Goto, Quiet,
           fixedVars, groupVars
  <2>4. AloneInv'
    BY <1>3, <1>4, <1>12
       DEF AloneInv, CheckBackup, BackupActive, MateActive, Goto, Quiet, fixedVars,
           groupVars
  <2>5. ReadyInv'
    BY <1>2, <1>3, <1>4, <1>12
       DEF ReadyInv, AloneInv, FreshInv, CheckBackup, BackupActive, MateActive, Goto,
           Quiet, fixedVars, groupVars, Up, EnabledUp
  <2> QED BY <1>1, <2>1, <2>2, <2>3, <2>4, <2>5 DEF Known
<1>13. ASSUME NEW r \in Runs, Revert(r) PROVE Known'
  <2>1. GroupInv'
    BY <1>3, <1>4, <1>13 DEF GroupInv, Revert, Goto, Quiet, fixedVars, groupVars
  <2>2. FreshInv'
    BY <1>3, <1>4, <1>13 DEF FreshInv, Revert, Goto, Quiet, fixedVars, groupVars
  <2>3. HistoryInv'
    BY <1>3, <1>4, <1>13 DEF HistoryInv, GroupInv, Revert, Goto, Quiet, fixedVars, groupVars
  <2>4. AloneInv'
    BY <1>3, <1>4, <1>13 DEF AloneInv, Revert, Goto, Quiet, fixedVars, groupVars
  <2>5. reading[r] = Unread /\ ~Up(Unread) /\ ~Unread.local
    BY <1>4, <1>13 DEF FreshInv, Up, Unread, Revert
  <2>6. ReadyInv'
    BY <1>2, <1>3, <1>4, <1>13, <2>5
       DEF ReadyInv, AloneInv, Revert, Goto, Quiet, fixedVars, groupVars, EnabledUp
  <2> QED BY <1>1, <2>1, <2>2, <2>3, <2>4, <2>6 DEF Known
<1>14. ASSUME NEW r \in Runs, PollHome(r) PROVE Known'
  <2>1. GroupInv'
    BY <1>3, <1>4, <1>14
       DEF GroupInv, PollHome, Poll, Polled, Stay, Primary, LocalActive, MateActive,
           IsHome, Unread, Goto, Quiet, Up, EnabledUp, fixedVars, groupVars
  <2>2. FreshInv'
    BY <1>3, <1>4, <1>14
       DEF FreshInv, PollHome, Poll, Polled, Stay, Primary, LocalActive, MateActive,
           IsHome, Unread, Goto, Quiet, Up, EnabledUp, fixedVars, groupVars
  <2>3. HistoryInv'
    BY <1>3, <1>4, <1>14
       DEF HistoryInv, GroupInv, PollHome, Poll, Polled, Stay, Primary, LocalActive,
           MateActive, IsHome, Unread, Goto, Quiet, Up, EnabledUp, fixedVars, groupVars
  <2>4. AloneInv'
    BY <1>3, <1>4, <1>14
       DEF AloneInv, PollHome, Poll, Polled, Stay, Primary, LocalActive, MateActive,
           IsHome, Unread, Goto, Quiet, Up, EnabledUp, fixedVars, groupVars
  <2>5. ReadyInv'
    BY <1>2, <1>3, <1>4, <1>14
       DEF ReadyInv, AloneInv, FreshInv, PollHome, Poll, Polled, Stay, Primary,
           LocalActive, MateActive, IsHome, Unread, Goto, Quiet, Up, EnabledUp,
           fixedVars, groupVars
  <2> QED BY <1>1, <2>1, <2>2, <2>3, <2>4, <2>5 DEF Known
<1>15. ASSUME NEW r \in Runs, NoMate(r) PROVE Known'
  <2>1. GroupInv'
    BY <1>3, <1>4, <1>15 DEF GroupInv, NoMate, Goto, Quiet, fixedVars, groupVars
  <2>2. FreshInv'
    BY <1>3, <1>4, <1>15 DEF FreshInv, NoMate, Goto, Quiet, fixedVars, groupVars
  <2>3. HistoryInv'
    BY <1>3, <1>4, <1>15 DEF HistoryInv, GroupInv, NoMate, Goto, Quiet, fixedVars, groupVars
  <2>4. AloneInv'
    BY <1>3, <1>4, <1>15 DEF AloneInv, NoMate, Goto, Quiet, fixedVars, groupVars
  <2>5. ReadyInv'
    BY <1>2, <1>3, <1>4, <1>15
       DEF ReadyInv, AloneInv, FreshInv, NoMate, Goto, Quiet, fixedVars, groupVars, Up,
           EnabledUp
  <2> QED BY <1>1, <2>1, <2>2, <2>3, <2>4, <2>5 DEF Known
<1>16. ASSUME NEW r \in Runs, Begin(r) PROVE Known'
  <2>1. GroupInv'
    BY <1>3, <1>4, <1>16 DEF GroupInv, Begin, Unread, Goto, Quiet, fixedVars, groupVars
  <2>2. FreshInv'
    BY <1>3, <1>4, <1>16 DEF FreshInv, Begin, Unread, Goto, Quiet, fixedVars, groupVars
  <2>3. HistoryInv'
    BY <1>3, <1>4, <1>16 DEF HistoryInv, GroupInv, Begin, Unread, Goto, Quiet, fixedVars, groupVars
  <2>4. AloneInv'
    BY <1>3, <1>4, <1>16 DEF AloneInv, Begin, Unread, Goto, Quiet, fixedVars, groupVars
  <2>5. ReadyInv'
    BY <1>2, <1>3, <1>4, <1>16
       DEF ReadyInv, AloneInv, FreshInv, Begin, Unread, Goto, Quiet, fixedVars,
           groupVars, Up, EnabledUp
  <2> QED BY <1>1, <2>1, <2>2, <2>3, <2>4, <2>5 DEF Known
<1>17. ASSUME NEW r \in Runs, Fail(r) PROVE Known'
  <2>1. GroupInv'
    BY <1>3, <1>4, <1>17 DEF GroupInv, Fail, Fault, Goto, fixedVars, groupVars
  <2>2. FreshInv'
    BY <1>3, <1>4, <1>17 DEF FreshInv, Fail, Fault, Goto, fixedVars, groupVars
  <2>3. HistoryInv'
    BY <1>3, <1>4, <1>17 DEF HistoryInv, GroupInv, Fail, Fault, Goto, fixedVars, groupVars
  <2>4. AloneInv'
    BY <1>3, <1>4, <1>17 DEF AloneInv, Fail, Fault, Goto, fixedVars, groupVars
  <2>5. ReadyInv'
    BY <1>2, <1>3, <1>4, <1>17
       DEF ReadyInv, AloneInv, FreshInv, Fail, Fault, Goto, fixedVars, groupVars, Up,
           EnabledUp
  <2> QED BY <1>1, <2>1, <2>2, <2>3, <2>4, <2>5 DEF Known
<1>18. ASSUME NEW r \in Runs, FailInFlight(r) PROVE Known'
  <2>1. GroupInv'
    BY <1>3, <1>4, <1>18 DEF GroupInv, FailInFlight, Fault, Goto, fixedVars, groupVars
  <2>2. FreshInv'
    BY <1>3, <1>4, <1>18 DEF FreshInv, FailInFlight, Fault, Goto, fixedVars, groupVars
  <2>3. HistoryInv'
    BY <1>3, <1>4, <1>18 DEF HistoryInv, GroupInv, FailInFlight, Fault, Goto, fixedVars, groupVars
  <2>4. AloneInv'
    BY <1>3, <1>4, <1>18 DEF AloneInv, FailInFlight, Fault, Goto, fixedVars, groupVars
  <2>5. ReadyInv'
    BY <1>2, <1>3, <1>4, <1>18
       DEF ReadyInv, AloneInv, FreshInv, FailInFlight, Fault, Goto, fixedVars,
           groupVars, Up, EnabledUp
  <2> QED BY <1>1, <2>1, <2>2, <2>3, <2>4, <2>5 DEF Known
<1>19. CASE GiveUp
  <2>1. GroupInv'
    BY <1>3, <1>4, <1>19 DEF GroupInv, GiveUp, Move, GroupStep
  <2>2. FreshInv'
    BY <1>3, <1>4, <1>19 DEF FreshInv, GiveUp, Move, GroupStep
  <2>3. HistoryInv'
    BY <1>3, <1>4, <1>19 DEF HistoryInv, GroupInv, GiveUp, Move, GroupStep
  <2>4. AloneInv'
    BY <1>3, <1>4, <1>19 DEF AloneInv, GiveUp, Move, GroupStep
  <2>5. ReadyInv'
    BY <1>2, <1>3, <1>4, <1>19
       DEF ReadyInv, AloneInv, FreshInv, GiveUp, Move, GroupStep, Up, EnabledUp
  <2> QED BY <1>1, <2>1, <2>2, <2>3, <2>4, <2>5 DEF Known
<1>20. CASE BackupTakes
  <2>1. GroupInv'
    BY <1>3, <1>4, <1>20 DEF GroupInv, BackupTakes, Move, GroupStep
  <2>2. FreshInv'
    BY <1>3, <1>4, <1>20 DEF FreshInv, BackupTakes, Move, GroupStep
  <2>3. HistoryInv'
    BY <1>3, <1>4, <1>20 DEF HistoryInv, GroupInv, BackupTakes, Move, GroupStep
  <2>4. AloneInv'
    BY <1>3, <1>4, <1>20 DEF AloneInv, BackupTakes, Move, GroupStep
  <2>5. ReadyInv'
    BY <1>2, <1>3, <1>4, <1>20
       DEF ReadyInv, AloneInv, FreshInv, BackupTakes, Move, GroupStep, Up, EnabledUp
  <2> QED BY <1>1, <2>1, <2>2, <2>3, <2>4, <2>5 DEF Known
<1>21. CASE PrimaryTakes
  <2>1. GroupInv'
    BY <1>3, <1>4, <1>21 DEF GroupInv, PrimaryTakes, Move, GroupStep
  <2>2. FreshInv'
    BY <1>3, <1>4, <1>21 DEF FreshInv, PrimaryTakes, Move, GroupStep
  <2>3. HistoryInv'
    BY <1>3, <1>4, <1>21 DEF HistoryInv, GroupInv, PrimaryTakes, Move, GroupStep
  <2>4. AloneInv'
    BY <1>3, <1>4, <1>21 DEF AloneInv, PrimaryTakes, Move, GroupStep
  <2>5. ReadyInv'
    BY <1>2, <1>3, <1>4, <1>21
       DEF ReadyInv, AloneInv, FreshInv, PrimaryTakes, Move, GroupStep, Up, EnabledUp
  <2> QED BY <1>1, <2>1, <2>2, <2>3, <2>4, <2>5 DEF Known
<1>22. CASE Hello
  <2>1. GroupInv'
    BY <1>3, <1>4, <1>22 DEF GroupInv, Hello, GroupStep
  <2>2. FreshInv'
    BY <1>3, <1>4, <1>22 DEF FreshInv, Hello, GroupStep
  <2>3. HistoryInv'
    BY <1>3, <1>4, <1>22 DEF HistoryInv, GroupInv, Hello, GroupStep
  <2>4. AloneInv'
    BY <1>3, <1>4, <1>22 DEF AloneInv, Hello, GroupStep
  <2>5. ReadyInv'
    BY <1>2, <1>3, <1>4, <1>22 DEF ReadyInv, AloneInv, FreshInv, Hello, GroupStep, Up, EnabledUp
  <2> QED BY <1>1, <2>1, <2>2, <2>3, <2>4, <2>5 DEF Known
<1>23. CASE Settle
  <2>1. GroupInv'
    BY <1>3, <1>4, <1>23 DEF GroupInv, Settle, GroupStep
  <2>2. FreshInv'
    BY <1>3, <1>4, <1>23 DEF FreshInv, Settle, GroupStep
  <2>3. HistoryInv'
    BY <1>3, <1>4, <1>23 DEF HistoryInv, GroupInv, Settle, GroupStep
  <2>4. AloneInv'
    BY <1>3, <1>4, <1>23 DEF AloneInv, Settle, GroupStep
  <2>5. ReadyInv'
    BY <1>2, <1>3, <1>4, <1>23 DEF ReadyInv, AloneInv, FreshInv, Settle, GroupStep, Up, EnabledUp
  <2> QED BY <1>1, <2>1, <2>2, <2>3, <2>4, <2>5 DEF Known
<1>24. CASE GiveBack
  <2>1. GroupInv'
    BY <1>3, <1>4, <1>24 DEF GroupInv, GiveBack, Move, GroupStep
  <2>2. FreshInv'
    BY <1>3, <1>4, <1>24 DEF FreshInv, GiveBack, Move, GroupStep
  <2>3. HistoryInv'
    BY <1>3, <1>4, <1>24 DEF HistoryInv, GroupInv, GiveBack, Move, GroupStep
  <2>4. AloneInv'
    BY <1>3, <1>4, <1>24 DEF AloneInv, GiveBack, Move, GroupStep
  <2>5. ReadyInv'
    BY <1>2, <1>3, <1>4, <1>24
       DEF ReadyInv, AloneInv, FreshInv, GiveBack, Move, GroupStep, Up, EnabledUp
  <2> QED BY <1>1, <2>1, <2>2, <2>3, <2>4, <2>5 DEF Known
<1>25. CASE LoseMate
  <2>1. GroupInv'
    BY <1>3, <1>4, <1>25 DEF GroupInv, LoseMate, Move, Outside, fixedVars
  <2>2. FreshInv'
    BY <1>3, <1>4, <1>25 DEF FreshInv, LoseMate, Move, Outside, fixedVars
  <2>3. HistoryInv'
    BY <1>3, <1>4, <1>25 DEF HistoryInv, GroupInv, LoseMate, Move, Outside, fixedVars
  <2>4. AloneInv'
    BY <1>3, <1>4, <1>25 DEF AloneInv, LoseMate, Move, Outside, fixedVars
  <2>5. ReadyInv'
    BY <1>2, <1>3, <1>4, <1>25
       DEF ReadyInv, AloneInv, FreshInv, LoseMate, Move, Outside, fixedVars, Up,
           EnabledUp
  <2> QED BY <1>1, <2>1, <2>2, <2>3, <2>4, <2>5 DEF Known
<1>26. CASE MateReturns
  <2>1. GroupInv'
    BY <1>3, <1>4, <1>26 DEF GroupInv, MateReturns, GroupStep
  <2>2. FreshInv'
    BY <1>3, <1>4, <1>26 DEF FreshInv, MateReturns, GroupStep
  <2>3. HistoryInv'
    BY <1>3, <1>4, <1>26 DEF HistoryInv, GroupInv, MateReturns, GroupStep
  <2>4. AloneInv'
    BY <1>3, <1>4, <1>26 DEF AloneInv, MateReturns, GroupStep
  <2>5. ReadyInv'
    BY <1>2, <1>3, <1>4, <1>26
       DEF ReadyInv, AloneInv, FreshInv, MateReturns, GroupStep, Up, EnabledUp
  <2> QED BY <1>1, <2>1, <2>2, <2>3, <2>4, <2>5 DEF Known
<1>27. CASE Restore
  <2>1. GroupInv'
    BY <1>3, <1>4, <1>27 DEF GroupInv, Restore, Outside, fixedVars
  <2>2. FreshInv'
    BY <1>3, <1>4, <1>27 DEF FreshInv, Restore, Outside, fixedVars
  <2>3. HistoryInv'
    BY <1>3, <1>4, <1>27 DEF HistoryInv, GroupInv, Restore, Outside, fixedVars
  <2>4. AloneInv'
    BY <1>3, <1>4, <1>27 DEF AloneInv, Restore, Outside, fixedVars
  <2>5. ReadyInv'
    BY <1>2, <1>3, <1>4, <1>27
       DEF ReadyInv, AloneInv, FreshInv, Restore, Outside, fixedVars, Up, EnabledUp
  <2> QED BY <1>1, <2>1, <2>2, <2>3, <2>4, <2>5 DEF Known
<1>28. CASE UNCHANGED vars
  BY <1>1, <1>4, <1>28
     DEF vars, runVars, groupVars, fixedVars, Known, GroupInv, FreshInv, HistoryInv,
         AloneInv, ReadyInv, EnabledUp
<1> QED
  BY <1>5, <1>6, <1>7, <1>8, <1>9, <1>10, <1>11, <1>12, <1>13, <1>14, <1>15, <1>16,
     <1>17, <1>18, <1>19, <1>20, <1>21, <1>22, <1>23, <1>24, <1>25, <1>26, <1>27, <1>28
     DEF Next, RunStep

LEMMA KnownAlways == Spec => []Known
BY KnownInit, KnownStep, PTL DEF Spec

\* Success is the end of the last wait, and of nothing else.
LEMMA OnlyHomeEnds ==
  ASSUME Typed, NEW r \in Runs, Next, Ends(r, "ok")
  PROVE  PollHome(r) /\ pc[r] = "home" /\ IsHome(Polled(r), holder = "backup")
<1>1. pc \in [Runs -> Phase]
  BY DEF Typed, TypeOK, RunType
<1>2. ASSUME NEW s \in Runs, Begin(s) \/ RunStep(s) \/ Fail(s) \/ FailInFlight(s), s # r
      PROVE  FALSE
  BY <1>1, <1>2
     DEF Ends, RunStep, Begin, CheckHealth, Preflight, Release, PollReleased, NoRelease,
         PollPrimary, PollUnreleased, PollHome, Poll, Stay, CheckBackup, Revert, NoMate,
         Fail, FailInFlight, Fault, Quiet, Goto
<1>3. CASE PollHome(r)
  BY <1>1, <1>3 DEF Ends, PollHome, Poll, Polled, Stay, Goto
<1>4. ASSUME \/ Begin(r) \/ CheckHealth(r) \/ Preflight(r) \/ Release(r) \/ PollReleased(r)
             \/ NoRelease(r) \/ PollPrimary(r) \/ PollUnreleased(r) \/ CheckBackup(r)
             \/ Revert(r) \/ NoMate(r) \/ Fail(r) \/ FailInFlight(r)
      PROVE  FALSE
  BY <1>1, <1>4
     DEF Ends, Begin, CheckHealth, AfterHealth, Preflight, Release, PollReleased,
         NoRelease, PollPrimary, PollUnreleased, Poll, Stay, CheckBackup, Revert,
         NoMate, Fail, FailInFlight, Goto
<1>5. ASSUME \/ GiveUp \/ BackupTakes \/ PrimaryTakes \/ Hello \/ Settle \/ GiveBack
             \/ LoseMate \/ MateReturns \/ Restore
      PROVE  FALSE
  BY <1>5
     DEF Ends, GiveUp, BackupTakes, PrimaryTakes, Hello, Settle, GiveBack, LoseMate,
         MateReturns, Restore, GroupStep, Outside
<1> QED
  BY <1>2, <1>3, <1>4, <1>5 DEF Next, RunStep

\* Success is never said of a run that has not seen the backup take over, however many
\* runs overlap, calls fail and nodes are lost.
THEOREM NoSuccessWithoutFailover == Spec => SuccessMeansFailover
<1>1. Known /\ [Next]_vars => [\A r \in Runs : Ends(r, "ok") => tookOver[r]]_vars
  BY OnlyHomeEnds DEF Known, HistoryInv, Over
<1> QED BY <1>1, KnownAlways, PTL DEF Spec, SuccessMeansFailover

\* Although the nodes are read one after the other, success finds the primary active,
\* enabled and up, if nobody else acts.
THEOREM SuccessFindsPrimary == Spec => SuccessIsHome
<1>1. ASSUME Known, Next, NEW r \in Runs, Ends(r, "ok"), alone, outside' = 0
      PROVE  holder = "primary" /\ EnabledUp
  <2>1. outside = 0
    BY <1>1, OutsideGrows DEF Known
  <2>2. pc[r] = "home" /\ IsHome(Polled(r), holder = "backup")
    BY <1>1, OnlyHomeEnds DEF Known
  <2>3. EnabledUp /\ (reading[r].local => holder = "primary")
    BY <1>1, <2>1, <2>2 DEF Known, ReadyInv
  <2>4. mode # "cluster" => holder = "primary"
    BY <2>2 DEF IsHome, Polled, Primary, LocalActive
  <2> QED BY <2>2, <2>3, <2>4 DEF IsHome, Polled
<1>2. Known /\ [Next]_vars
      => [\A r \in Runs : Ends(r, "ok") /\ alone /\ outside' = 0
            => holder = "primary" /\ EnabledUp]_vars
  BY <1>1
<1> QED BY <1>2, KnownAlways, PTL DEF Spec, SuccessIsHome

\* The backup is told to give activity up only when the primary can take it, whatever
\* earlier runs were cut short, if nobody else acts.
THEOREM RevertIsSafe == Spec => RevertFindsPrimaryReady
<1>1. ASSUME Known, Next, NEW r \in Runs, pc[r] = "revert", alone, outside' = 0
      PROVE  EnabledUp
  BY <1>1, OutsideGrows DEF Known, ReadyInv
<1>2. Known /\ [Next]_vars
      => [\A r \in Runs : pc[r] = "revert" /\ pc'[r] = "home" /\ alone /\ outside' = 0
            => holder = "primary" \/ EnabledUp]_vars
  BY <1>1
<1> QED BY <1>2, KnownAlways, PTL DEF Spec, RevertFindsPrimaryReady

-------------------------------------------------------------------------------
(* A run comes to its end *)

\* How far a run is from its end at most: the stages ahead of it, and in the stage it is
\* in the polls it has left, each of them one reading or two.
StagesLeft(p) ==
  CASE p = "health" -> 9 [] p = "preflight" -> 8 [] p = "release" -> 7 [] p = "released" -> 6
    [] p = "noRelease" -> 5 [] p = "unreleased" -> 4 [] p = "backup" -> 3 [] p = "revert" -> 2
    [] p = "home" -> 1 [] OTHER -> 0

StepsLeft(r) ==
  StagesLeft(pc[r]) * (2 * Attempts + 2) + 2 * (Attempts - tries[r])
    + (IF reading[r] = Unread THEN 1 ELSE 0)

Shortens(r) ==
  pc[r] \notin Over =>
    /\ StepsLeft(r)' <= StepsLeft(r)
    /\ RunStep(r) => StepsLeft(r)' < StepsLeft(r)

\* The ways a step can matter to a run in progress: on to a later stage, another poll
\* that found nothing, the first reading of a poll; or not at all.
Onward(r)    == StagesLeft(pc[r])' < StagesLeft(pc[r])
PollsOn(r)   == pc'[r] = pc[r] /\ tries'[r] = tries[r] + 1
ReadsOn(r)   == pc'[r] = pc[r] /\ tries'[r] = tries[r] /\ reading[r] = Unread /\ reading'[r] # Unread
LeftAlone(r) == pc'[r] = pc[r] /\ tries'[r] = tries[r] /\ reading'[r] = reading[r]

LEMMA StepsMatter ==
  ASSUME Typed, NEW r \in Runs, pc[r] \notin Over
  PROVE  /\ RunStep(r) => Onward(r) \/ PollsOn(r) \/ ReadsOn(r)
         /\ [Next]_vars => Onward(r) \/ PollsOn(r) \/ ReadsOn(r) \/ LeftAlone(r)
<1>1. pc \in [Runs -> Phase] /\ tries \in [Runs -> 0..Attempts] /\ reading \in [Runs -> Reading]
  BY DEF Typed, TypeOK, RunType
<1>2. ASSUME NEW p, Goto(r, p), StagesLeft(p) < StagesLeft(pc[r]) PROVE Onward(r)
  BY <1>1, <1>2 DEF Goto, Onward
<1>3. ASSUME Stay(r) PROVE Onward(r) \/ PollsOn(r)
  <2>1. pc[r] \in Phase \ Over /\ "failed" \in Over
    BY <1>1 DEF Over
  <2>2. StagesLeft("failed") < StagesLeft(pc[r])
    BY <2>1 DEF StagesLeft, Phase, Over
  <2>3. CASE tries[r] + 1 = Attempts
    BY <1>1, <1>3, <2>2, <2>3 DEF Stay, Onward
  <2>4. CASE tries[r] + 1 # Attempts
    BY <1>1, <1>3, <2>4 DEF Stay, PollsOn
  <2>5. QED
    BY <2>3, <2>4
<1>4. ASSUME Goto(r, "failed") PROVE Onward(r)
  <2>1. StagesLeft("failed") < StagesLeft(pc[r])
    BY <1>1 DEF StagesLeft, Phase, Over
  <2>2. QED
    BY <1>2, <1>4, <2>1
<1>5. ASSUME RunStep(r) PROVE Onward(r) \/ PollsOn(r) \/ ReadsOn(r)
  <2>1. CASE CheckHealth(r) \/ Preflight(r) \/ Release(r) \/ NoRelease(r) \/ CheckBackup(r) \/ Revert(r) \/ NoMate(r)
    <3>1. \E p : Goto(r, p) /\ StagesLeft(p) < StagesLeft(pc[r])
      <4>1. CASE CheckHealth(r)
        BY <4>1 DEF CheckHealth, AfterHealth, StagesLeft
      <4>2. CASE Preflight(r)
        BY <4>2 DEF Preflight, AfterHealth, StagesLeft
      <4>3. CASE Release(r) \/ NoRelease(r)
        BY <4>3 DEF Release, NoRelease, StagesLeft
      <4>4. CASE CheckBackup(r) \/ Revert(r) \/ NoMate(r)
        BY <4>4 DEF CheckBackup, Revert, NoMate, StagesLeft
      <4>5. QED
        BY <2>1, <4>1, <4>2, <4>3, <4>4
    <3>2. QED
      BY <1>2, <3>1
  <2>2. CASE PollReleased(r)
    <3>1. Stay(r) \/ (Goto(r, "noRelease") /\ StagesLeft("noRelease") < StagesLeft(pc[r]))
      BY <2>2 DEF PollReleased, StagesLeft
    <3>2. QED
      BY <1>2, <1>3, <3>1
  <2>3. CASE PollPrimary(r)
    <3>1. Primary # Unread
      BY DEF Primary, Unread
    <3>2. QED
      BY <1>1, <2>3, <3>1 DEF PollPrimary, ReadPrimary, ReadsOn
  <2>4. CASE PollUnreleased(r)
    <3>1. \/ Goto(r, "failed") \/ Stay(r)
          \/ Goto(r, "backup") /\ StagesLeft("backup") < StagesLeft(pc[r])
      BY <2>4 DEF PollUnreleased, Poll, StagesLeft
    <3>2. QED
      BY <1>2, <1>3, <1>4, <3>1
  <2>5. CASE PollHome(r)
    <3>1. \/ Goto(r, "failed") \/ Stay(r)
          \/ Goto(r, "ok") /\ StagesLeft("ok") < StagesLeft(pc[r])
      BY <2>5 DEF PollHome, Poll, StagesLeft
    <3>2. QED
      BY <1>2, <1>3, <1>4, <3>1
  <2>6. QED
    BY <1>5, <2>1, <2>2, <2>3, <2>4, <2>5 DEF RunStep
<1>6. ASSUME NEW s \in Runs, s # r, Begin(s) \/ RunStep(s) \/ Fail(s) \/ FailInFlight(s)
      PROVE  LeftAlone(r)
  <2>1. CASE Begin(s) \/ Fail(s) \/ FailInFlight(s)
    BY <1>1, <1>6, <2>1 DEF LeftAlone, Begin, Fail, FailInFlight, Goto
  <2>2. CASE RunStep(s)
    <3>1. \/ UNCHANGED pc
          \/ (\E p : pc' = [pc EXCEPT ![s] = p])
      BY <2>2 DEF RunStep, CheckHealth, Preflight, Release, PollReleased, NoRelease, PollPrimary,
                  PollUnreleased, CheckBackup, Revert, PollHome, NoMate, Poll, Goto, Stay
    <3>2. \/ UNCHANGED tries
          \/ (\E n : tries' = [tries EXCEPT ![s] = n])
      BY <2>2 DEF RunStep, CheckHealth, Preflight, Release, PollReleased, NoRelease, PollPrimary,
                  PollUnreleased, CheckBackup, Revert, PollHome, NoMate, Poll, Goto, Stay
    <3>3. \/ UNCHANGED reading
          \/ (\E q : reading' = [reading EXCEPT ![s] = q])
      BY <2>2 DEF RunStep, CheckHealth, Preflight, Release, PollReleased, NoRelease, PollPrimary,
                  PollUnreleased, CheckBackup, Revert, PollHome, NoMate, Poll, ReadPrimary
    <3>4. QED
      BY <1>1, <1>6, <3>1, <3>2, <3>3 DEF LeftAlone
  <2>3. QED
    BY <1>6, <2>1, <2>2
<1>7. ASSUME Fail(r) \/ FailInFlight(r) PROVE Onward(r)
  BY <1>4, <1>7 DEF Fail, FailInFlight
<1>8. ASSUME \/ GiveUp \/ BackupTakes \/ PrimaryTakes \/ Hello \/ Settle \/ GiveBack
             \/ LoseMate \/ MateReturns \/ Restore \/ UNCHANGED vars
      PROVE  LeftAlone(r)
  BY <1>8 DEF LeftAlone, GiveUp, BackupTakes, PrimaryTakes, Hello, Settle, GiveBack,
              LoseMate, MateReturns, Restore, GroupStep, Outside, vars, runVars
<1>9. ~Begin(r)
  BY DEF Begin
<1>10. QED
  BY <1>5, <1>6, <1>7, <1>8, <1>9 DEF Next

\* A stage outweighs all the polls of the one after it.
LEMMA StageOutweighs ==
  ASSUME NEW w \in Nat, NEW i \in Nat, NEW j \in Nat, NEW x \in Nat, NEW y \in Nat,
         j < i, y < w + x
  PROVE  j * w + y < i * w + x
<1> DEFINE d == i - j - 1
<1>1. d \in Nat /\ i = j + 1 + d
  OBVIOUS
<1> HIDE DEF d
<1>2. i * w = j * w + w + d * w
  BY <1>1
<1>3. j * w \in Nat /\ d * w \in Nat /\ i * w \in Nat
  BY <1>1
<1>4. QED
  BY <1>2, <1>3

\* RunsEnd without its fairness: whatever the group, other runs and other operators do in
\* between, no step of theirs takes a run in progress further from its end, and every
\* step of its own brings it nearer.
THEOREM EveryStepShortens == Spec => [][\A r \in Runs : Shortens(r)]_vars
<1>1. Typed /\ [Next]_vars => [\A r \in Runs : Shortens(r)]_vars
  <2> SUFFICES ASSUME Typed, [Next]_vars, Typed', NEW r \in Runs, pc[r] \notin Over
               PROVE  StepsLeft(r)' <= StepsLeft(r) /\ (RunStep(r) => StepsLeft(r)' < StepsLeft(r))
    BY TypedStep DEF Shortens
  <2> DEFINE W == 2 * Attempts + 2
             b == IF reading[r] = Unread THEN 1 ELSE 0
             m == StagesLeft(pc[r])
  <2>1. /\ Attempts \in Nat \ {0} /\ tries[r] \in 0..Attempts /\ tries'[r] \in 0..Attempts
    BY AttemptsAssumption DEF Typed, TypeOK, RunType
  <2>2. m \in 0..9 /\ m' \in 0..9 /\ b \in {0, 1} /\ b' \in {0, 1}
    BY DEF StagesLeft
  <2>3. StepsLeft(r) = m * W + 2 * (Attempts - tries[r]) + b
    BY DEF StepsLeft
  <2>4. StepsLeft(r)' = m' * W + 2 * (Attempts - tries'[r]) + b'
    BY DEF StepsLeft
  <2>5. CASE Onward(r)
    <3>1. m' < m
      BY <2>5 DEF Onward
    <3> DEFINE x == 2 * (Attempts - tries[r]) + b
               y == 2 * (Attempts - tries'[r]) + b'
    <3>2. W \in Nat /\ x \in Nat /\ y \in Nat /\ y < W + x
      BY <2>1, <2>2
    <3>3. StepsLeft(r) = m * W + x /\ StepsLeft(r)' = m' * W + y
      BY <2>1, <2>2, <2>3, <2>4, <3>2
    <3>4. m \in Nat /\ m' \in Nat
      BY <2>2
    <3> HIDE DEF m, b, x, y, W
    <3>5. m' * W + y < m * W + x
      BY <3>1, <3>2, <3>4, StageOutweighs
    <3>6. m' * W + y \in Nat /\ m * W + x \in Nat
      <4>1. \A i, w, z \in Nat : i * w + z \in Nat
        OBVIOUS
      <4>2. QED
        BY <3>2, <3>4, <4>1
    <3>7. QED
      BY <3>3, <3>5, <3>6
  <2>6. ASSUME pc'[r] = pc[r] PROVE m' = m /\ m * W \in Nat
    <3>1. m' = m
      BY <2>6
    <3> HIDE DEF m
    <3>2. QED
      BY <2>1, <2>2, <3>1
  <2>7. CASE PollsOn(r)
    <3>1. m' = m /\ m * W \in Nat /\ tries'[r] = tries[r] + 1
      BY <2>6, <2>7 DEF PollsOn
    <3> HIDE DEF m, b, W
    <3>2. QED
      BY <2>1, <2>2, <2>3, <2>4, <3>1
  <2>8. CASE ReadsOn(r)
    <3>1. m' = m /\ m * W \in Nat /\ tries'[r] = tries[r] /\ b = 1 /\ b' = 0
      <4>1. Unread' = Unread
        BY DEF Unread
      <4>2. QED
        BY <2>6, <2>8, <4>1 DEF ReadsOn
    <3> HIDE DEF m, b, W
    <3>2. QED
      BY <2>1, <2>2, <2>3, <2>4, <3>1
  <2>9. CASE LeftAlone(r)
    <3>1. m' = m /\ m * W \in Nat /\ tries'[r] = tries[r] /\ b = b'
      BY <2>6, <2>9 DEF LeftAlone, Unread
    <3> HIDE DEF m, b, W
    <3>2. StepsLeft(r)' = StepsLeft(r) /\ StepsLeft(r) \in Nat
      BY <2>1, <2>2, <2>3, <2>4, <3>1
    <3>3. ~(Onward(r) \/ PollsOn(r) \/ ReadsOn(r))
      BY <2>1, <2>2, <2>9, <3>1 DEF LeftAlone, Onward, PollsOn, ReadsOn, m
    <3>4. QED
      BY <3>2, <3>3, StepsMatter
  <2>10. QED
    BY <2>5, <2>7, <2>8, <2>9, StepsMatter
<1>2. QED
  BY <1>1, TypedAlways, PTL DEF Spec
===============================================================================
