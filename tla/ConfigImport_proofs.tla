-------------------------- MODULE ConfigImport_proofs --------------------------
(***************************************************************************)
(* Theorems about ConfigImport, for any configurations, artifact and       *)
(* failures.                                                               *)
(***************************************************************************)
EXTENDS ConfigImport, SequenceTheorems, TLAPS

-------------------------------------------------------------------------------
(* The inductive invariants *)

\* A chunk takes nothing out of a VPN but of the one it tears down, to which the
\* operator has agreed.
ChunkAgreed(ch) ==
  IF ch.kind = "teardown" THEN ch.vpn \in consent /\ \A o \in ch.drop : Home[o] = ch.vpn
  ELSE \A o \in ch.drop : Home[o] \in Sections

\* That holds of the chunks of this import and of what another has left running.
ImportAgreed ==
  /\ pc = "capture" => Existing \subseteq consent
  /\ \A i \in DOMAIN chunks : ChunkAgreed(chunks[i])
  /\ \A i \in DOMAIN script : ChunkAgreed(script[i])

TornBy(s) == {s[i].vpn : i \in {j \in DOMAIN s : s[j].kind = "teardown"}}

\* The chunks tear down the VPNs the operator was asked about, all of them.
ChunksComplete ==
  /\ pc = "capture" => /\ Len(chunks) <= Len(ToCapture)
                       /\ \A i \in DOMAIN chunks : chunks[i].kind = "teardown"
                                                     /\ chunks[i].vpn = ToCapture[i]
  /\ pc \in {"upload", "drive"} => TornBy(chunks) = Existing
  /\ pc = "drive" => script = chunks

\* What the script has said so far, and what has happened: a chunk that is said to
\* have gone well is behind it; one that is said to have failed is where it stopped.
TornBefore(n) == {script[i].vpn : i \in {j \in DOMAIN script : script[j].kind = "teardown" /\ j < n}}

ScriptSpeaks ==
  /\ \A k \in DOMAIN markers : markers[k].ok => markers[k].i < at
  /\ \A k \in DOMAIN markers : ~markers[k].ok =>
       k = Len(markers) /\ markers[k].i = at /\ at \in DOMAIN script /\ ~alive
  /\ ~unseen => /\ TornBefore(at) \subseteq gone
                /\ hurt \subseteq TornBefore(at)
                     \cup {script[i].vpn : i \in {j \in DOMAIN script : j = at /\ ~alive}}

ReportTrue ==
  /\ pc \in {"ask", "capture", "upload"} => hurt = {} /\ ~unseen
  /\ pc \in {"ask", "capture", "upload", "drive"} => rep = NoReport
  /\ pc = "drive" => ScriptSpeaks
  /\ ~unseen => rep.torn \subseteq gone
  /\ pc = "failed" /\ ~unseen /\ ~MarkerLost => hurt \subseteq rep.torn \cup {script[rep.failed].vpn}

RebuiltToTheEnd ==
  pc \in {"verify", "verified", "differs", "unread"} =>
    rep.rebuilt /\ (chunks # <<>> => at = Len(script) + 1 /\ ~alive /\ rep.torn = Existing)

VerifiedMatches == pc = "verified" /\ calm => Matches

-------------------------------------------------------------------------------
(* Type correctness *)

Replaced == {ch \in Chunk : ch.kind # "teardown" /\ \A o \in ch.drop : Home[o] \in Sections}

LEMMA ExistingType ==
  ASSUME TypeOK
  PROVE  /\ Existing \subseteq Vpns /\ ToCapture \in Seq(Vpns)
         /\ {ToCapture[i] : i \in DOMAIN ToCapture} = Existing
<1>1. Existing \in SUBSET Vpns
  BY DEF Existing, TypeOK
<1>2. QED
  BY <1>1, ShapeAssumption DEF ToCapture

LEMMA TeardownType ==
  ASSUME NEW v \in Vpns
  PROVE  /\ Teardown(v) \in Chunk
         /\ Teardown(v).kind = "teardown" /\ Teardown(v).vpn = v
         /\ \A o \in Teardown(v).drop : Home[o] = v
BY DEF Teardown, Chunk, InVpn, There

\* The chunks of the rebuild tear nothing down.
LEMMA RebuildParts ==
  ASSUME TypeOK
  PROVE  /\ \A S \in SUBSET Sections : Section(At(S)) \in Seq(Replaced)
         /\ ClearTargetOnly \in Seq(Replaced) /\ CreateVpns \in Seq(Replaced)
         /\ VpnChunks \in Seq(Replaced)
<1>0. art \in Art /\ plan \in [vpns : SUBSET Vpns, objs : SUBSET Objects] /\ Default \in Vpns
  BY ShapeAssumption DEF TypeOK
<1>1. ASSUME NEW S \in SUBSET Sections PROVE Section(At(S)) \in Seq(Replaced)
  <2> DEFINE A == {o \in At(S) \cap art.objs : Applies(o)}
             ch == [kind |-> "section", vpn |-> Default, drop |-> Cleared(A), make |-> A, vpns |-> {}]
  <2>1. A \subseteq Objects /\ Cleared(A) \subseteq A /\ \A o \in A : Home[o] \in Sections
    BY DEF At, Cleared
  <2>2. ch \in Replaced
    BY <1>0, <2>1 DEF Replaced, Chunk
  <2>3. <<ch>> \in Seq(Replaced) /\ <<>> \in Seq(Replaced)
    BY <2>2
  <2>4. QED
    BY <2>3 DEF Section
<1>2. ClearTargetOnly \in Seq(Replaced)
  <2> DEFINE ch == [kind |-> "clear", vpn |-> Default, drop |-> TargetOnly, make |-> {}, vpns |-> {}]
  <2>1. TargetOnly \subseteq Objects /\ \A o \in TargetOnly : Home[o] \in Sections
    BY <1>0, ShapeAssumption DEF TargetOnly
  <2>2. ch \in Replaced
    BY <1>0, <2>1 DEF Replaced, Chunk
  <2>3. <<ch>> \in Seq(Replaced) /\ <<>> \in Seq(Replaced)
    BY <2>2
  <2>4. QED
    BY <2>3 DEF ClearTargetOnly
<1>3. CreateVpns \in Seq(Replaced)
  <2> DEFINE ch == [kind |-> "vpns", vpn |-> Default, drop |-> {}, make |-> {}, vpns |-> art.vpns]
  <2>1. ch \in Replaced
    BY <1>0 DEF Replaced, Chunk, Art
  <2>2. <<ch>> \in Seq(Replaced) /\ <<>> \in Seq(Replaced)
    BY <2>1
  <2>3. QED
    BY <2>2 DEF CreateVpns
<1>4. VpnChunks \in Seq(Replaced)
  <2> DEFINE V == {v \in art.vpns : InVpn(v) \cap art.objs # {}}
             full == DefaultFirst(V)
  <2>1. V \cap {Default} \in SUBSET Vpns /\ V \ {Default} \in SUBSET Vpns
    BY <1>0 DEF Art
  <2>2. VpnOrder[V \cap {Default}] \in Seq(Vpns) /\ VpnOrder[V \ {Default}] \in Seq(Vpns)
    BY <2>1, ShapeAssumption
  <2>3. full \in Seq(Vpns)
    BY <2>2 DEF DefaultFirst
  <2>4. \A v \in Vpns : VpnChunk(v) \in Replaced
    BY DEF VpnChunk, Replaced, Chunk, InVpn
  <2>5. [i \in DOMAIN full |-> VpnChunk(full[i])] \in Seq(Replaced)
    <3>1. Len(full) \in Nat /\ DOMAIN full = 1..Len(full) /\ \A i \in 1..Len(full) : full[i] \in Vpns
      <4> HIDE DEF full
      <4>1. QED
        BY <2>3, LenProperties, ElementOfSeq
    <3>2. [i \in 1..Len(full) |-> VpnChunk(full[i])] \in [1..Len(full) -> Replaced]
      BY <2>4, <3>1
    <3>3. QED
      BY <3>1, <3>2, IsASeq
  <2>6. QED
    BY <2>5 DEF VpnChunks
<1>5. QED
  BY <1>1, <1>2, <1>3, <1>4

LEMMA RebuildType ==
  ASSUME TypeOK
  PROVE  Rebuild \in Seq(Replaced)
<1>1. /\ Section(At({"logging"})) \in Seq(Replaced) /\ Section(At({"usernames"})) \in Seq(Replaced)
      /\ Section(At(Sections \ {"logging", "usernames"})) \in Seq(Replaced)
  BY RebuildParts DEF Sections
<1>2. QED
  BY <1>1, RebuildParts DEF Rebuild

LEMMA ChunksType == Seq(Replaced) \subseteq Seq(Chunk)
BY SeqMonotonic DEF Replaced

\* What the broker makes of a chunk is a configuration again.
LEMMA AfterType ==
  ASSUME NEW c \in Conf, NEW ch, NEW D, NEW M, NEW V \in SUBSET Vpns, NEW whole
  PROVE  After(c, ch, D, M, V, whole) \in Conf
BY DEF After, Conf, Versions, Written

LEMMA BrokerType ==
  ASSUME NEW c \in Conf, NEW ch \in Chunk
  PROVE  Whole(c, ch) \in Conf /\ Parts(c, ch) \subseteq Conf
<1>1. ch.vpns \in SUBSET Vpns /\ {} \in SUBSET Vpns
  BY DEF Chunk
<1>2. Whole(c, ch) \in Conf
  BY <1>1, AfterType DEF Whole
<1>3. ASSUME NEW s PROVE StopsAt(c, ch, s) \subseteq Conf
  <2> DEFINE D == {o \in ch.drop : Rank[o] < Rank[s]}
             M == {o \in ch.make : Rank[o] < Rank[s]}
  <2>1. \A X : After(c, ch, D \cup X, M, {}, FALSE) \in Conf
    BY <1>1, AfterType
  <2>2. QED
    BY <2>1 DEF StopsAt
<1>4. \A V \in SUBSET ch.vpns : After(c, ch, {}, {}, V, FALSE) \in Conf
  BY <1>1, AfterType
<1>5. After(c, ch, ch.drop, {}, {}, FALSE) \in Conf
  BY <1>1, AfterType
<1>6. QED
  <2> DEFINE First == {o \in ch.drop \cup ch.make : \A r \in Refused(c, ch) : Rank[o] <= Rank[r]}
             InMiddle == UNION {StopsAt(c, ch, s) : s \in First}
             InVpns == {After(c, ch, {}, {}, V, FALSE) : V \in SUBSET ch.vpns}
             AtEnd == IF ch.kind = "teardown" /\ Refused(c, ch) = {}
                      THEN {After(c, ch, ch.drop, {}, {}, FALSE)} ELSE {}
  <2>1. InMiddle \subseteq Conf
    <3> HIDE DEF First
    <3>1. QED
      BY <1>3
  <2>2. InVpns \subseteq Conf /\ AtEnd \subseteq Conf
    BY <1>4, <1>5
  <2>3. Parts(c, ch) = InMiddle \cup InVpns \cup AtEnd
    BY DEF Parts
  <2> HIDE DEF InMiddle, InVpns, AtEnd
  <2>4. QED
    BY <1>2, <2>1, <2>2, <2>3

LEMMA InitTypeOK == Init => TypeOK
<1> SUFFICES ASSUME Init PROVE TypeOK
  OBVIOUS
<1>1. \A s \in Sources : s.vpns \subseteq Vpns /\ There(s) \subseteq Objects
  BY ShapeAssumption DEF There
<1>2. \A s \in Sources, sc \in Scopes, a \in BOOLEAN : Exported(s, sc, a) \in Art
  BY <1>1 DEF Exported, Art, There
<1>3. \A s \in Sources, b \in BOOLEAN : Edited(s, b) \in Art
  BY <1>1 DEF Edited, Art
<1>4. art \in Art
  BY <1>2, <1>3 DEF Init
<1>5. conf \in Conf
  BY ShapeAssumption DEF Init, Conf, Versions
<1>6. Reported \subseteq DOMAIN script
  BY DEF Init, Reported
<1>7. /\ pc \in Phase /\ plan \in [vpns : SUBSET Vpns, objs : SUBSET Objects]
      /\ rep \in [torn : SUBSET Vpns, failed : Nat, rebuilt : BOOLEAN]
  BY DEF Init, Phase, Verdicts, NoReport
<1>8. /\ chunks \in Seq(Chunk) /\ script \in Seq(Chunk) /\ markers \in Seq(Marker)
      /\ at \in 1..(Len(script) + 1)
  BY EmptySeq DEF Init
<1>9. /\ alive \in BOOLEAN /\ linked \in BOOLEAN /\ calm \in BOOLEAN /\ unseen \in BOOLEAN
      /\ consent \subseteq Vpns /\ taken \subseteq Objects /\ hurt \subseteq Vpns /\ gone \subseteq Vpns
  BY DEF Init
<1>10. runs \in 0..MaxRuns /\ mishaps \in 0..MaxMishaps
  BY BoundsAssumption DEF Init
<1>11. QED
  BY <1>4, <1>5, <1>6, <1>7, <1>8, <1>9, <1>10 DEF TypeOK

\* A marker of the chunk the script is at fits in with the others.
LEMMA MarkersType ==
  ASSUME TypeOK, at <= Len(script), UNCHANGED script, NEW b \in BOOLEAN,
         \/ markers' = markers
         \/ markers' = Append(markers, [i |-> at, ok |-> b])
  PROVE  markers' \in Seq(Marker) /\ Reported' \subseteq DOMAIN script
<1>1. at \in DOMAIN script /\ at \in Nat \ {0} /\ script \in Seq(Chunk) /\ markers \in Seq(Marker)
  BY DEF TypeOK
<1>2. \A k \in DOMAIN markers : markers[k].i \in DOMAIN script
  BY DEF TypeOK, Reported
<1>3. CASE markers' = markers
  BY <1>1, <1>3 DEF TypeOK, Reported
<1>4. CASE markers' = Append(markers, [i |-> at, ok |-> b])
  <2>1. [i |-> at, ok |-> b] \in Marker
    BY <1>1 DEF Marker
  <2>2. markers' \in Seq(Marker)
    BY <1>1, <1>4, <2>1
  <2>3. \A k \in DOMAIN markers' : markers'[k].i \in DOMAIN script
    BY <1>1, <1>2, <1>4, <2>1
  <2>4. QED
    BY <2>2, <2>3 DEF Reported
<1>5. QED
  BY <1>3, <1>4

\* What the history variables hold after a change of the broker.
LEMMA ChangedType ==
  ASSUME TypeOK, NEW c \in Conf, Changed(c)
  PROVE  conf' \in Conf /\ taken' \subseteq Objects /\ hurt' \subseteq Vpns
BY DEF TypeOK, Changed, There

LEMMA MishapType ==
  ASSUME TypeOK, Mishap \/ Well \/ (calm' = FALSE /\ UNCHANGED mishaps)
  PROVE  mishaps' \in 0..MaxMishaps /\ calm' \in BOOLEAN
<1>1. mishaps \in 0..MaxMishaps /\ MaxMishaps \in Nat
  BY BoundsAssumption DEF TypeOK
<1>2. calm \in BOOLEAN
  BY DEF TypeOK
<1>3. mishaps' \in 0..MaxMishaps
  BY <1>1 DEF Mishap, Well
<1>4. calm' \in BOOLEAN
  BY <1>2 DEF Mishap, Well
<1>5. QED
  BY <1>3, <1>4

\* The variables an import writes before its script runs, and after.
LEMMA ImportTypeOK ==
  ASSUME TypeOK, Plan \/ Answer \/ Capture \/ Build \/ Upload \/ Collect \/ Verify \/ Kill
  PROVE  TypeOK'
<1> USE DEF brokerVars, driverVars, historyVars, boundVars
<1>1. CASE Plan
  <2>1. plan' \in [vpns : SUBSET Vpns, objs : SUBSET Objects]
    BY <1>1 DEF Plan, TypeOK, Conf, There
  <2>2. rep' \in [torn : SUBSET Vpns, failed : Nat, rebuilt : BOOLEAN]
    BY <1>1 DEF Plan, NoReport
  <2>3. mishaps' \in 0..MaxMishaps /\ calm' \in BOOLEAN
    <3>1. CASE Mishap
      BY <3>1, MishapType
    <3>2. CASE calm' = TRUE /\ UNCHANGED mishaps
      BY <3>2 DEF TypeOK
    <3>3. QED
      BY <1>1, <3>1, <3>2 DEF Plan
  <2>4. runs' \in 0..MaxRuns
    BY <1>1, BoundsAssumption DEF Plan, TypeOK
  <2>5. pc' \in Phase
    BY <1>1 DEF Plan, Phase, Verdicts
  <2>6. Reported' = Reported
    BY <1>1 DEF Plan, Reported
  <2>7. /\ UNCHANGED <<art, conf, taken, chunks, driverVars, consent>>
        /\ hurt' = {} /\ gone' = {} /\ unseen' = FALSE
    BY <1>1 DEF Plan
  <2>8. QED
    BY <2>1, <2>2, <2>3, <2>4, <2>5, <2>6, <2>7 DEF TypeOK
<1>2. CASE Answer
  <2>1. consent' \subseteq Vpns /\ pc' \in Phase
    BY <1>2, ExistingType DEF Answer, TypeOK, Phase, Verdicts
  <2>2. chunks' \in Seq(Chunk)
    BY <1>2, EmptySeq DEF Answer
  <2>3. Reported' = Reported
    BY <1>2 DEF Answer, Reported
  <2>4. QED
    BY <1>2, <2>1, <2>2, <2>3 DEF Answer, TypeOK
<1>3. CASE Capture
  <2>1. mishaps' \in 0..MaxMishaps /\ calm' \in BOOLEAN
    BY <1>3, MishapType DEF Capture
  <2>2. pc' \in Phase
    BY <1>3 DEF Capture, TypeOK, Phase, Verdicts
  <2>3. chunks' \in Seq(Chunk)
    <3>1. ToCapture[Len(chunks) + 1] \in Vpns
      <4>1. Len(chunks) + 1 \in 1..Len(ToCapture)
        BY <1>3, ExistingType DEF Capture, TypeOK
      <4>2. QED
        BY <4>1, ExistingType
    <3>2. Teardown(ToCapture[Len(chunks) + 1]) \in Chunk
      BY <3>1, TeardownType
    <3>3. QED
      <4>1. chunks' \in {chunks, Append(chunks, Teardown(ToCapture[Len(chunks) + 1]))}
        BY <1>3 DEF Capture
      <4>2. chunks \in Seq(Chunk)
        BY DEF TypeOK
      <4>3. QED
        BY <3>2, <4>1, <4>2
  <2>4. Reported' = Reported
    BY <1>3 DEF Capture, Reported
  <2>5. UNCHANGED <<art, plan, rep, brokerVars, driverVars, consent, unseen, runs>>
    BY <1>3 DEF Capture
  <2>6. QED
    BY <2>1, <2>2, <2>3, <2>4, <2>5 DEF TypeOK
<1>4. CASE Build
  <2>1. chunks' \in Seq(Chunk)
    BY <1>4, RebuildType, ChunksType DEF Build, TypeOK
  <2>2. pc' \in Phase /\ rep' \in [torn : SUBSET Vpns, failed : Nat, rebuilt : BOOLEAN]
    BY <1>4 DEF Build, TypeOK, Phase, Verdicts
  <2>3. Reported' = Reported
    BY <1>4 DEF Build, Reported
  <2>4. QED
    BY <1>4, <2>1, <2>2, <2>3 DEF Build, TypeOK
<1>5. CASE Upload
  <2>1. mishaps' \in 0..MaxMishaps /\ calm' \in BOOLEAN
    BY <1>5, MishapType DEF Upload
  <2>2. pc' \in Phase /\ alive' \in BOOLEAN /\ linked' \in BOOLEAN
    BY <1>5 DEF Upload, TypeOK, Phase, Verdicts
  <2>3. /\ script' \in Seq(Chunk) /\ at' \in 1..(Len(script') + 1)
        /\ markers' \in Seq(Marker) /\ Reported' \subseteq DOMAIN script'
    <3>1. CASE UNCHANGED driverVars
      BY <3>1 DEF TypeOK, Reported
    <3>2. CASE script' = chunks /\ at' = 1 /\ markers' = <<>>
      <4>1. chunks \in Seq(Chunk) /\ Len(chunks) \in Nat
        BY DEF TypeOK
      <4>2. Reported' = {} /\ <<>> \in Seq(Marker)
        BY <3>2 DEF Reported
      <4>3. QED
        BY <3>2, <4>1, <4>2
    <3>3. QED
      BY <1>5, <3>1, <3>2 DEF Upload
  <2>4. UNCHANGED <<art, plan, rep, brokerVars, chunks, consent, unseen, runs>>
    BY <1>5 DEF Upload
  <2>5. QED
    BY <2>1, <2>2, <2>3, <2>4 DEF TypeOK
<1>6. CASE Collect
  <2>1. Torn \subseteq Vpns
    <3>1. \A j \in Reported : script[j].vpn \in Vpns
      <4>1. script \in Seq(Chunk) /\ Reported \subseteq DOMAIN script
        BY DEF TypeOK
      <4>2. \A j \in DOMAIN script : script[j] \in Chunk
        BY <4>1, ElementOfSeq
      <4>3. QED
        BY <4>1, <4>2 DEF Chunk
    <3>2. QED
      BY <3>1 DEF Torn
  <2>2. HasFailed => markers[FirstFailed].i \in Nat
    <3>1. HasFailed => FirstFailed \in DOMAIN markers
      BY DEF HasFailed, FirstFailed
    <3>2. QED
      <4>1. markers \in Seq(Marker)
        BY DEF TypeOK
      <4>2. \A k \in DOMAIN markers : markers[k] \in Marker
        BY <4>1, ElementOfSeq
      <4>3. QED
        BY <3>1, <4>2 DEF Marker
  <2>3. rep' \in [torn : SUBSET Vpns, failed : Nat, rebuilt : BOOLEAN]
    BY <1>6, <2>1, <2>2 DEF Collect
  <2>4. pc' \in Phase
    BY <1>6 DEF Collect, Parsed, Phase, Verdicts
  <2>5. Reported' = Reported
    BY <1>6 DEF Collect, Reported
  <2>6. QED
    BY <1>6, <2>3, <2>4, <2>5 DEF Collect, TypeOK
<1>7. CASE Verify
  <2>1. mishaps' \in 0..MaxMishaps /\ calm' \in BOOLEAN
    BY <1>7, MishapType DEF Verify
  <2>2. pc' \in Phase
    BY <1>7 DEF Verify, Phase, Verdicts
  <2>3. Reported' = Reported
    BY <1>7 DEF Verify, Reported
  <2>4. QED
    BY <1>7, <2>1, <2>2, <2>3 DEF Verify, TypeOK
<1>8. CASE Kill
  <2>1. mishaps' \in 0..MaxMishaps /\ calm' \in BOOLEAN
    BY <1>8, MishapType DEF Kill
  <2>2. pc' \in Phase
    BY <1>8 DEF Kill, Phase, Verdicts
  <2>3. Reported' = Reported
    BY <1>8 DEF Kill, Reported
  <2>4. QED
    BY <1>8, <2>1, <2>2, <2>3 DEF Kill, TypeOK
<1>9. QED
  BY <1>1, <1>2, <1>3, <1>4, <1>5, <1>6, <1>7, <1>8

\* ... and the ones the script, the broker and others write.
LEMMA ScriptTypeOK ==
  ASSUME TypeOK, ApplyChunk \/ RefuseChunk \/ Finish \/ Break \/ Die \/ Meddle
  PROVE  TypeOK'
<1> USE DEF brokerVars, driverVars, historyVars, boundVars
<1>0. Len(script) \in Nat /\ at \in Nat /\ (at <= Len(script) => script[at] \in Chunk)
  BY DEF TypeOK
<1>1. CASE ApplyChunk
  <2>1. conf' \in Conf /\ taken' \subseteq Objects /\ hurt' \subseteq Vpns
    BY <1>0, <1>1, BrokerType, ChangedType DEF ApplyChunk, TypeOK
  <2>2. mishaps' \in 0..MaxMishaps /\ calm' \in BOOLEAN
    BY <1>1, MishapType DEF ApplyChunk, Emit
  <2>3. markers' \in Seq(Marker) /\ Reported' \subseteq DOMAIN script
    BY <1>1, MarkersType DEF ApplyChunk, Emit
  <2>4. gone' \subseteq Vpns
    BY <1>0, <1>1 DEF ApplyChunk, TypeOK, Chunk
  <2>5. at' \in 1..(Len(script) + 1)
    BY <1>0, <1>1 DEF ApplyChunk, TypeOK
  <2>6. UNCHANGED <<art, pc, plan, chunks, rep, script, alive, linked, consent, unseen, runs>>
    BY <1>1 DEF ApplyChunk
  <2>7. QED
    BY <2>1, <2>2, <2>3, <2>4, <2>5, <2>6 DEF TypeOK
<1>2. CASE RefuseChunk
  <2>1. PICK c \in Parts(conf, script[at]) : Changed(c)
    BY <1>2 DEF RefuseChunk
  <2>2. conf' \in Conf /\ taken' \subseteq Objects /\ hurt' \subseteq Vpns
    BY <1>0, <1>2, <2>1, BrokerType, ChangedType DEF RefuseChunk, TypeOK
  <2>3. mishaps' \in 0..MaxMishaps /\ calm' \in BOOLEAN
    BY <1>2, MishapType DEF RefuseChunk, Emit
  <2>4. markers' \in Seq(Marker) /\ Reported' \subseteq DOMAIN script
    BY <1>2, MarkersType DEF RefuseChunk, Emit
  <2>a. at \in 1..(Len(script) + 1) /\ unseen \in BOOLEAN /\ alive \in BOOLEAN
    BY DEF TypeOK
  <2>b. unseen' \in BOOLEAN /\ alive' \in BOOLEAN
    BY <1>2, <2>a DEF RefuseChunk
  <2>5. at' \in 1..(Len(script) + 1)
    <3>1. at' \in {at, at + 1} /\ at <= Len(script)
      BY <1>2 DEF RefuseChunk
    <3>2. QED
      BY <1>0, <2>a, <3>1
  <2>6. UNCHANGED <<art, pc, plan, chunks, rep, gone, script, linked, consent, runs>>
    BY <1>2 DEF RefuseChunk
  <2>7. QED
    BY <2>2, <2>3, <2>4, <2>b, <2>5, <2>6 DEF TypeOK
<1>3. CASE Finish
  BY ZenonT(60), <1>3 DEF Finish, TypeOK, Reported
<1>4. CASE Break
  <2>1. mishaps' \in 0..MaxMishaps /\ calm' \in BOOLEAN
    BY <1>4, MishapType DEF Break
  <2>2. QED
    BY ZenonT(60), <1>4, <2>1 DEF Break, TypeOK, Reported
<1>5. CASE Die
  BY ZenonT(60), <1>5 DEF Die, TypeOK, Reported
<1>6. CASE Meddle
  <2>1. mishaps' \in 0..MaxMishaps /\ calm' \in BOOLEAN
    BY <1>6, MishapType DEF Meddle
  <2>2. conf' \in Conf
    <3>1. ASSUME NEW o \in Objects,
                 conf' = [conf EXCEPT !.has[o] = IF @ = "none" THEN "theirs" ELSE "none"]
          PROVE  conf' \in Conf
      BY <3>1 DEF TypeOK, Conf, Versions
    <3>2. ASSUME NEW v \in Vpns, conf' = [conf EXCEPT !.vpns = @ \cup {v}] PROVE conf' \in Conf
      BY <3>2 DEF TypeOK, Conf
    <3>3. ASSUME NEW v \in Vpns,
                 conf' = [vpns |-> conf.vpns \ {v},
                          has |-> [o \in Objects |-> IF Home[o] = v THEN "none" ELSE conf.has[o]]]
          PROVE  conf' \in Conf
      BY <3>3 DEF TypeOK, Conf, Versions
    <3>4. conf.vpns \subseteq Vpns
      BY DEF TypeOK, Conf
    <3>5. QED
      BY <1>6, <3>1, <3>2, <3>3, <3>4 DEF Meddle
  <2>3. UNCHANGED <<art, pc, plan, chunks, rep, taken, hurt, gone, driverVars, consent, unseen, runs>>
    BY <1>6 DEF Meddle
  <2>4. Reported' = Reported
    BY <2>3 DEF Reported
  <2>5. QED
    BY <2>1, <2>2, <2>3, <2>4 DEF TypeOK
<1>7. QED
  BY <1>1, <1>2, <1>3, <1>4, <1>5, <1>6

\* Every artifact, plan, chunk, marker and report is well formed, and no marker is
\* of a chunk the script does not have.
THEOREM TypeCorrect == Spec => []TypeOK
<1>1. TypeOK /\ UNCHANGED vars => TypeOK'
  BY DEF TypeOK, vars, brokerVars, driverVars, historyVars, boundVars, Reported
<1>2. TypeOK /\ [Next]_vars => TypeOK'
  BY <1>1, ImportTypeOK, ScriptTypeOK DEF Next
<1>3. QED
  BY InitTypeOK, <1>2, PTL DEF Spec

-------------------------------------------------------------------------------
(* Consent: what an import takes out of a VPN was agreed to *)

\* Lines of an agreed chunk take objects only out of the VPN it tears down.
LEMMA AfterTakes ==
  ASSUME NEW c \in Conf, NEW ch \in Chunk, ChunkAgreed(ch),
         NEW D \in SUBSET ch.drop, NEW M, NEW V, NEW whole \in BOOLEAN,
         NEW o \in There(c) \ There(After(c, ch, D, M, V, whole)), Home[o] \in Vpns
  PROVE  ch.kind = "teardown" /\ Home[o] = ch.vpn
<1>1. o \in Objects /\ c.has[o] # "none" /\ After(c, ch, D, M, V, whole).has[o] = "none"
  BY DEF There
<1>2. o \in D \/ (ch.kind = "teardown" /\ Home[o] = ch.vpn)
  BY <1>1 DEF After, Written
<1>3. QED
  BY <1>2, ShapeAssumption DEF ChunkAgreed

LEMMA BrokerTakes ==
  ASSUME NEW c \in Conf, NEW ch \in Chunk, ChunkAgreed(ch),
         NEW d \in Parts(c, ch) \cup {Whole(c, ch)},
         NEW o \in There(c) \ There(d), Home[o] \in Vpns
  PROVE  ch.kind = "teardown" /\ Home[o] = ch.vpn
<1>1. CASE d = Whole(c, ch)
  <2>1. d = After(c, ch, ch.drop, ch.make, ch.vpns, TRUE)
    BY <1>1 DEF Whole
  <2>2. ch.drop \in SUBSET ch.drop /\ TRUE \in BOOLEAN
    OBVIOUS
  <2>3. QED
    BY ZenonT(60), <2>1, <2>2, AfterTakes
<1>2. CASE \E s : d \in StopsAt(c, ch, s)
  <2>1. PICK s : d \in StopsAt(c, ch, s)
    BY <1>2
  <2> DEFINE D == {x \in ch.drop : Rank[x] < Rank[s]}
             M == {x \in ch.make : Rank[x] < Rank[s]}
  <2>2. PICK X \in {{}, {s} \cap ch.drop \cap ch.make \cap There(c)} :
          d = After(c, ch, D \cup X, M, {}, FALSE)
    BY <2>1 DEF StopsAt
  <2>3. D \cup X \in SUBSET ch.drop
    BY <2>2
  <2>4. QED
    BY <2>2, <2>3, AfterTakes
<1>3. CASE \E V : d = After(c, ch, {}, {}, V, FALSE)
  <2>1. PICK V : d = After(c, ch, {}, {}, V, FALSE)
    BY <1>3
  <2>2. {} \in SUBSET ch.drop
    OBVIOUS
  <2>3. QED
    BY <2>1, <2>2, AfterTakes
<1>4. CASE d = After(c, ch, ch.drop, {}, {}, FALSE)
  <2>1. ch.drop \in SUBSET ch.drop /\ FALSE \in BOOLEAN
    OBVIOUS
  <2>2. QED
    BY <1>4, <2>1, AfterTakes
<1>5. QED
  BY <1>1, <1>2, <1>3, <1>4 DEF Parts

LEMMA InitImportAgreed == Init => ImportAgreed
BY DEF Init, ImportAgreed

LEMMA NextImportAgreed ==
  ASSUME TypeOK, ImportAgreed, [Next]_vars
  PROVE  ImportAgreed'
<1> USE DEF vars, brokerVars, driverVars, historyVars, boundVars
<1>0. \A ch : ChunkAgreed(ch) /\ consent \subseteq consent' => ChunkAgreed(ch)'
  BY DEF ChunkAgreed
<1>1. CASE UNCHANGED <<art, plan, chunks, script, consent>> /\ pc' # "capture"
  BY <1>1 DEF ImportAgreed, ChunkAgreed
<1>2. CASE Plan
  BY <1>2 DEF Plan, ImportAgreed, ChunkAgreed
<1>3. CASE Answer
  <2>1. consent \subseteq consent' /\ chunks' = <<>> /\ script' = script
    BY <1>3 DEF Answer
  <2>2. pc' = "capture" => Existing' \subseteq consent'
    BY <1>3 DEF Answer, Existing
  <2>3. QED
    BY <1>0, <2>1, <2>2 DEF ImportAgreed
<1>4. CASE Capture
  <2>1. UNCHANGED <<consent, script>> /\ Existing' = Existing /\ Existing \subseteq consent
    BY <1>4 DEF Capture, Existing, ImportAgreed
  <2>2. ToCapture[Len(chunks) + 1] \in Existing
    <3>1. Len(chunks) + 1 \in 1..Len(ToCapture)
      BY <1>4, ExistingType DEF Capture, TypeOK
    <3>2. QED
      BY <3>1, ExistingType
  <2>3. ChunkAgreed(Teardown(ToCapture[Len(chunks) + 1]))
    BY <2>1, <2>2, ExistingType, TeardownType DEF ChunkAgreed
  <2>4. chunks' \in {chunks, Append(chunks, Teardown(ToCapture[Len(chunks) + 1]))}
    BY <1>4 DEF Capture
  <2>5. \A i \in DOMAIN chunks' : ChunkAgreed(chunks'[i])
    <3>1. chunks \in Seq(Chunk) /\ \A i \in DOMAIN chunks : ChunkAgreed(chunks[i])
      BY DEF TypeOK, ImportAgreed
    <3>2. CASE chunks' = chunks
      BY <3>1, <3>2
    <3>3. CASE chunks' = Append(chunks, Teardown(ToCapture[Len(chunks) + 1]))
      BY <2>3, <3>1, <3>3
    <3>4. QED
      BY <2>4, <3>2, <3>3
  <2>6. QED
    BY <1>0, <2>1, <2>5 DEF ImportAgreed
<1>5. CASE Build
  <2>1. UNCHANGED <<consent, script>> /\ chunks' = chunks \o Rebuild /\ pc' # "capture"
    BY <1>5 DEF Build
  <2>2. Rebuild \in Seq(Replaced) /\ Rebuild \in Seq(Chunk) /\ chunks \in Seq(Chunk)
    BY RebuildType, ChunksType DEF TypeOK
  <2>3. \A i \in DOMAIN Rebuild : ChunkAgreed(Rebuild[i])
    <3>1. \A i \in DOMAIN Rebuild : Rebuild[i] \in Replaced
      BY <2>2, ElementOfSeq
    <3>2. QED
      BY <3>1 DEF Replaced, ChunkAgreed
  <2>4. \A i \in DOMAIN chunks' : ChunkAgreed(chunks'[i])
    BY <2>1, <2>2, <2>3, ConcatProperties DEF ImportAgreed
  <2>5. QED
    BY <1>0, <2>1, <2>4 DEF ImportAgreed
<1>6. CASE Upload
  BY <1>6 DEF Upload, ImportAgreed, ChunkAgreed
<1>8. CASE UNCHANGED <<art, plan, chunks, script, consent, pc>>
  BY <1>8 DEF ImportAgreed, ChunkAgreed, Existing
<1>9. ASSUME Collect \/ Verify \/ Kill
      PROVE  UNCHANGED <<art, plan, chunks, script, consent>> /\ pc' # "capture"
  BY <1>9 DEF Collect, Verify, Kill, Parsed
<1>10. ASSUME ApplyChunk \/ RefuseChunk \/ Finish \/ Break \/ Die \/ Meddle \/ UNCHANGED vars
       PROVE  UNCHANGED <<art, plan, chunks, script, consent, pc>>
  BY <1>10 DEF ApplyChunk, RefuseChunk, Finish, Break, Die, Meddle
<1>11. QED
  BY <1>1, <1>2, <1>3, <1>4, <1>5, <1>6, <1>8, <1>9, <1>10 DEF Next

LEMMA AlwaysAgreed == Spec => []ImportAgreed
<1>1. TypeOK /\ ImportAgreed /\ [Next]_vars => ImportAgreed'
  BY NextImportAgreed
<1>2. QED
  BY InitImportAgreed, <1>1, TypeCorrect, PTL DEF Spec

\* What the broker loses to a chunk is agreed to, VPN by VPN.
LEMMA TakenAgreed ==
  ASSUME TypeOK, ImportAgreed, ApplyChunk \/ RefuseChunk
  PROVE  /\ conf' \in Conf /\ taken' = taken \cup (There(conf) \ There(conf'))
         /\ \A o \in There(conf) \ There(conf') : Home[o] \in Vpns =>
              /\ script[at].kind = "teardown" /\ script[at].vpn = Home[o]
              /\ Home[o] \in consent
<1>1. /\ script[at] \in Chunk /\ conf \in Conf /\ ChunkAgreed(script[at])
  <2>1. at <= Len(script) /\ at \in 1..(Len(script) + 1) /\ script \in Seq(Chunk)
    BY DEF ApplyChunk, RefuseChunk, TypeOK
  <2>2. at \in DOMAIN script
    BY <2>1
  <2>3. QED
    BY <2>1, <2>2 DEF TypeOK, ImportAgreed
<1>2. PICK d \in Parts(conf, script[at]) \cup {Whole(conf, script[at])} : Changed(d)
  BY DEF ApplyChunk, RefuseChunk
<1>3. d \in Conf
  BY <1>1, <1>2, BrokerType
<1>4. \A o \in There(conf) \ There(d) : Home[o] \in Vpns =>
         script[at].kind = "teardown" /\ script[at].vpn = Home[o]
  BY <1>1, <1>2, BrokerTakes
<1>5. QED
  BY <1>1, <1>2, <1>3, <1>4 DEF Changed, ChunkAgreed

-------------------------------------------------------------------------------
(* The import keeps its promise *)

Word == IF pc = "none" THEN "nothing"
        ELSE IF pc = "verified" THEN "success"
        ELSE IF Idle THEN "no success" ELSE "at work"

LEMMA PromiseInit == Init => Promise!Init
<1> SUFFICES ASSUME Init PROVE Promise!Init
  OBVIOUS
<1>1. TypeOK
  BY InitTypeOK
<1>2. Wanted \subseteq Objects /\ Landed \subseteq Objects
  BY <1>1 DEF Wanted, Landed, TypeOK, Art
<1>3. QED
  BY <1>2 DEF Promise!Init, Init

\* Steps after which the same is wanted, and the same is there.
LEMMA SameTarget ==
  ASSUME UNCHANGED <<art, conf>>
  PROVE  UNCHANGED <<Wanted, Landed>>
BY DEF Wanted, Landed, Ignored, Unclassified, Skipped

\* Every step is a step of the promise, or none.
LEMMA PromiseNext ==
  ASSUME TypeOK, ImportAgreed, [Next]_vars
  PROVE  [Promise!Next]_Promise!vars
<1> USE DEF vars, brokerVars, driverVars, historyVars, boundVars
<1>a. ASSUME UNCHANGED <<Wanted, Landed, taken, consent>>, UNCHANGED Word
      PROVE  UNCHANGED Promise!vars
  BY <1>a DEF Promise!vars, Word
<1>b. ASSUME UNCHANGED <<Wanted, Landed, taken, consent>>, Word' = "no success"
      PROVE  Promise!GiveUp
  BY <1>b DEF Promise!GiveUp, Word
<1>c. ASSUME UNCHANGED <<Wanted, consent, pc>>,
             NEW T \in SUBSET Objects, taken' = taken \cup T,
             \A o \in T : Home[o] \in Vpns => Home[o] \in consent
      PROVE  Promise!Change
  <2>1. Landed' \subseteq Objects
    BY DEF Landed
  <2>2. UNCHANGED Word
    BY <1>c DEF Word, Idle
  <2>3. QED
    BY <1>c, <2>1, <2>2 DEF Promise!Change, Word
<1>1. CASE Plan
  <2>1. UNCHANGED <<Wanted, Landed, taken, consent>>
    BY <1>1, SameTarget DEF Plan
  <2>2. CASE pc' = "ask"
    <3>1. Word # "at work" /\ Word' = "at work"
      BY <1>1, <2>2 DEF Plan, Word, Idle, Verdicts
    <3>2. QED
      BY <2>1, <3>1 DEF Promise!Next, Promise!Begin, Word
  <2>3. CASE pc' = "refused"
    <3>1. Word' = "no success"
      BY <2>3 DEF Word, Idle, Verdicts
    <3>2. QED
      BY <1>b, <2>1, <3>1 DEF Promise!Next
  <2>4. QED
    BY <1>1, <2>2, <2>3 DEF Plan
<1>2. CASE Answer
  <2>1. UNCHANGED <<Wanted, Landed, taken>>
    BY <1>2, SameTarget DEF Answer
  <2>2. CASE pc' = "capture" /\ consent' = consent \cup Existing
    <3>1. Word = "at work" /\ Word' = "at work"
      BY <1>2, <2>2 DEF Answer, Word, Idle, Verdicts
    <3>2. Existing \in SUBSET Vpns
      BY ExistingType
    <3>3. QED
      BY <2>1, <2>2, <3>1, <3>2 DEF Promise!Next, Promise!Agree, Word
  <2>3. CASE pc' = "declined" /\ consent' = consent
    <3>1. Word' = "no success"
      BY <2>3 DEF Word, Idle, Verdicts
    <3>2. QED
      BY <1>b, <2>1, <2>3, <3>1 DEF Promise!Next
  <2>4. QED
    BY <1>2, <2>2, <2>3 DEF Answer
<1>3. CASE Capture \/ Build \/ Upload \/ Collect \/ Kill
  <2>1. UNCHANGED <<Wanted, Landed, taken, consent>>
    BY <1>3, SameTarget DEF Capture, Build, Upload, Collect, Kill
  <2>2. Word = "at work"
    BY <1>3 DEF Capture, Build, Upload, Collect, Kill, Word, Idle, Verdicts
  <2>3. pc' \in {"capture", "upload", "drive", "verify", "stopped", "not run", "cut short",
                 "unknown", "failed", "killed"}
    BY <1>3 DEF Capture, Build, Upload, Collect, Kill, Parsed
  <2>4. Word' \in {"at work", "no success"}
    BY <2>3 DEF Word, Idle, Verdicts
  <2>5. QED
    BY <1>a, <1>b, <2>1, <2>2, <2>4 DEF Promise!Next
<1>4. CASE ApplyChunk \/ RefuseChunk
  <2>1. UNCHANGED <<art, consent, pc>>
    BY <1>4 DEF ApplyChunk, RefuseChunk
  <2>2. UNCHANGED Wanted
    BY <2>1 DEF Wanted, Ignored, Unclassified, Skipped
  <2>3. There(conf) \ There(conf') \in SUBSET Objects
    BY DEF There
  <2>4. QED
    BY <1>4, <1>c, <2>1, <2>2, <2>3, TakenAgreed DEF Promise!Next
<1>5. CASE Finish \/ Break \/ Die \/ UNCHANGED vars
  <2>1. UNCHANGED <<art, conf, taken, consent, pc>>
    BY <1>5 DEF Finish, Break, Die
  <2>2. QED
    BY <1>a, <2>1, SameTarget DEF Word, Idle
<1>6. CASE Verify
  <2>1. UNCHANGED <<Wanted, Landed, taken, consent>>
    BY <1>6, SameTarget DEF Verify
  <2>2. Word = "at work"
    BY <1>6 DEF Verify, Word, Idle, Verdicts
  <2>3. CASE pc' = "verified"
    <3>1. Wanted \subseteq Landed
      BY <1>6, <2>3 DEF Verify, Matches
    <3>2. Word' = "success"
      BY <2>3 DEF Word
    <3>3. QED
      BY <2>1, <2>2, <3>1, <3>2 DEF Promise!Next, Promise!Succeed, Word
  <2>4. CASE pc' \in {"differs", "unread"}
    <3>1. Word' = "no success"
      BY <2>4 DEF Word, Idle, Verdicts
    <3>2. QED
      BY <1>b, <2>1, <3>1 DEF Promise!Next
  <2>5. QED
    BY <1>6, <2>3, <2>4 DEF Verify
<1>7. CASE Meddle
  <2>1. UNCHANGED <<art, taken, consent, pc>>
    BY <1>7 DEF Meddle
  <2>2. UNCHANGED Wanted
    BY <2>1 DEF Wanted, Ignored, Unclassified, Skipped
  <2>3. {} \in SUBSET Objects /\ taken' = taken \cup {}
    BY <2>1
  <2>4. Promise!Change
    BY <1>c, <2>1, <2>2, <2>3
  <2>5. QED
    BY <2>4 DEF Promise!Next
<1>8. QED
  BY <1>1, <1>2, <1>3, <1>4, <1>5, <1>6, <1>7 DEF Next

\* An import implements the promise: it takes nothing out of a VPN without consent,
\* whatever breaks, and when it says it went well the artifact is there.
THEOREM ImportKeepsPromise == Spec => KeepsPromise
<1>1. TypeOK /\ ImportAgreed /\ [Next]_vars => [Promise!Next]_Promise!vars
  BY PromiseNext
<1>2. QED
  BY PromiseInit, <1>1, TypeCorrect, AlwaysAgreed, PTL DEF Spec, KeepsPromise, Promise!Spec

-------------------------------------------------------------------------------
(* The report: what was torn down, and what was rebuilt *)

LEMMA InitChunksComplete == Init => ChunksComplete
BY DEF Init, ChunksComplete

LEMMA NextChunksComplete ==
  ASSUME TypeOK, ChunksComplete, [Next]_vars
  PROVE  ChunksComplete'
<1> USE DEF vars, brokerVars, driverVars, historyVars, boundVars
<1>0. /\ chunks \in Seq(Chunk) /\ ToCapture \in Seq(Vpns)
      /\ {ToCapture[i] : i \in DOMAIN ToCapture} = Existing
  BY ExistingType DEF TypeOK
<1>a. UNCHANGED <<art, plan>> => UNCHANGED <<Existing, ToCapture>>
  BY DEF Existing, ToCapture
<1>1. CASE Plan \/ Collect \/ Verify \/ Kill
  BY <1>1 DEF Plan, Collect, Verify, Kill, Parsed, ChunksComplete
<1>2. CASE Answer
  <2>1. chunks' = <<>> /\ pc' \notin {"upload", "drive"} /\ UNCHANGED <<art, plan>>
    BY <1>2 DEF Answer
  <2>2. Len(chunks') <= Len(ToCapture') /\ DOMAIN chunks' = {}
    BY <1>0, <1>a, <2>1
  <2>3. QED
    BY <2>1, <2>2 DEF ChunksComplete
<1>3. CASE Capture
  <2>1. /\ UNCHANGED <<art, plan>> /\ pc = "capture" /\ pc' \notin {"upload", "drive"}
        /\ Len(chunks) < Len(ToCapture)
        /\ chunks' \in {chunks, Append(chunks, Teardown(ToCapture[Len(chunks) + 1]))}
    BY <1>3 DEF Capture
  <2>2. CASE chunks' = chunks
    BY <1>a, <2>1, <2>2 DEF ChunksComplete
  <2>3. CASE chunks' = Append(chunks, Teardown(ToCapture[Len(chunks) + 1]))
    <3> DEFINE t == Teardown(ToCapture[Len(chunks) + 1])
    <3>1. t.kind = "teardown" /\ t.vpn = ToCapture[Len(chunks) + 1]
      BY DEF Teardown
    <3> HIDE DEF t
    <3>2. Len(chunks') = Len(chunks) + 1 /\ DOMAIN chunks' = 1..(Len(chunks) + 1)
          /\ \A i \in 1..(Len(chunks) + 1) : chunks'[i] = IF i <= Len(chunks) THEN chunks[i] ELSE t
      BY <1>0, <2>3 DEF t
    <3>3. Len(chunks') <= Len(ToCapture)
      BY <1>0, <2>1, <3>2
    <3>4. \A i \in DOMAIN chunks' : chunks'[i].kind = "teardown" /\ chunks'[i].vpn = ToCapture[i]
      BY <1>0, <2>1, <3>1, <3>2 DEF ChunksComplete
    <3>5. QED
      BY <1>a, <2>1, <3>3, <3>4 DEF ChunksComplete
  <2>4. QED
    BY <2>1, <2>2, <2>3
<1>4. CASE Build
  <2>1. /\ UNCHANGED <<art, plan>> /\ pc = "capture" /\ pc' \notin {"capture", "drive"}
        /\ Len(chunks) = Len(ToCapture) /\ chunks' = chunks \o Rebuild
    BY <1>4 DEF Build
  <2>2. Rebuild \in Seq(Chunk) /\ Rebuild \in Seq(Replaced)
    BY RebuildType, ChunksType
  <2>3. \A i \in DOMAIN Rebuild : Rebuild[i].kind # "teardown"
    <3>1. \A i \in DOMAIN Rebuild : Rebuild[i] \in Replaced
      BY <2>2, ElementOfSeq
    <3>2. QED
      BY <3>1 DEF Replaced
  <2>a. /\ DOMAIN chunks = 1..Len(chunks) /\ DOMAIN Rebuild = 1..Len(Rebuild)
        /\ Len(chunks) \in Nat /\ Len(Rebuild) \in Nat
    BY <1>0, <2>2
  <2>b. /\ chunks' \in Seq(Chunk) /\ Len(chunks') = Len(chunks) + Len(Rebuild)
        /\ \A i \in 1..(Len(chunks) + Len(Rebuild)) :
             chunks'[i] = IF i <= Len(chunks) THEN chunks[i] ELSE Rebuild[i - Len(chunks)]
    BY ZenonT(60), <1>0, <2>1, <2>2, ConcatProperties
  <2>4. /\ DOMAIN chunks' = 1..(Len(chunks) + Len(Rebuild))
        /\ \A i \in DOMAIN chunks' :
             chunks'[i] = IF i <= Len(chunks) THEN chunks[i] ELSE Rebuild[i - Len(chunks)]
    BY <2>b
  <2>5. {i \in DOMAIN chunks' : chunks'[i].kind = "teardown"} = DOMAIN ToCapture
    <3>1. \A i \in DOMAIN chunks : chunks[i].kind = "teardown"
      BY <2>1 DEF ChunksComplete
    <3>2. DOMAIN ToCapture = 1..Len(chunks)
      BY <1>0, <2>1
    <3>3. ASSUME NEW i \in DOMAIN chunks', i > Len(chunks) PROVE chunks'[i].kind # "teardown"
      <4>1. i - Len(chunks) \in DOMAIN Rebuild
        BY <2>a, <2>4, <3>3
      <4>2. QED
        BY <2>3, <2>4, <3>3, <4>1
    <3>4. QED
      BY <2>a, <2>4, <3>1, <3>2, <3>3
  <2>6. \A i \in DOMAIN ToCapture : chunks'[i].vpn = ToCapture[i]
    <3>a. DOMAIN ToCapture = 1..Len(chunks)
      BY <1>0, <2>1
    <3>1. DOMAIN ToCapture = 1..Len(chunks) /\ DOMAIN ToCapture \subseteq DOMAIN chunks'
      BY <3>a, <2>a, <2>4
    <3>2. \A i \in DOMAIN ToCapture : chunks'[i] = chunks[i]
      BY <2>a, <2>4, <3>1
    <3>3. QED
      BY <2>1, <2>a, <3>1, <3>2 DEF ChunksComplete
  <2>7. TornBy(chunks') = Existing
    BY <1>0, <2>5, <2>6 DEF TornBy
  <2>8. QED
    BY <1>a, <2>1, <2>7 DEF ChunksComplete
<1>5. CASE Upload
  <2>1. UNCHANGED <<art, plan, chunks>> /\ pc = "upload" /\ pc' # "capture"
        /\ (pc' = "drive" => script' = chunks)
    BY <1>5 DEF Upload
  <2>2. QED
    BY <1>a, <2>1 DEF ChunksComplete
<1>6. CASE ApplyChunk \/ RefuseChunk \/ Finish \/ Break \/ Die \/ Meddle \/ UNCHANGED vars
  <2>1. UNCHANGED <<art, plan, chunks, script, pc>>
    BY <1>6 DEF ApplyChunk, RefuseChunk, Finish, Break, Die, Meddle
  <2>2. QED
    BY <1>a, <2>1 DEF ChunksComplete
<1>7. QED
  BY <1>1, <1>2, <1>3, <1>4, <1>5, <1>6 DEF Next

LEMMA ChunksAlwaysComplete == Spec => []ChunksComplete
<1>1. TypeOK /\ ChunksComplete /\ [Next]_vars => ChunksComplete'
  BY NextChunksComplete
<1>2. QED
  BY InitChunksComplete, <1>1, TypeCorrect, PTL DEF Spec

\* What has been received is what the script has printed, each chunk as it went.
LEMMA SpeaksApply ==
  ASSUME TypeOK, ImportAgreed, ScriptSpeaks, pc = "drive", ApplyChunk
  PROVE  ScriptSpeaks'
<1> USE DEF Mine, Emit
<1>1. /\ at \in Nat \ {0} /\ at \in DOMAIN script /\ at' = at + 1 /\ alive /\ UNCHANGED <<script, unseen, alive>>
      /\ markers \in Seq(Marker)
  BY DEF ApplyChunk, TypeOK
<1>2. markers' \in {markers, Append(markers, [i |-> at, ok |-> TRUE])}
  BY DEF ApplyChunk
<1>3. \A k \in DOMAIN markers : markers[k].ok /\ markers[k].i < at /\ markers[k].i \in Nat
  <2>1. \A k \in DOMAIN markers : markers[k] \in Marker
    BY <1>1, ElementOfSeq
  <2>2. QED
    BY <1>1, <2>1 DEF ScriptSpeaks, Marker
<1>4. \A k \in DOMAIN markers' : markers'[k].ok /\ markers'[k].i < at + 1
  <2>1. CASE markers' = markers
    BY <1>1, <1>3, <2>1
  <2>2. CASE markers' = Append(markers, [i |-> at, ok |-> TRUE])
    BY <1>1, <1>3, <2>2
  <2>3. QED
    BY <1>2, <2>1, <2>2
<1>5. ASSUME ~unseen
      PROVE  TornBefore(at)' \subseteq gone' /\ hurt' \subseteq TornBefore(at)'
  <2>1. gone \subseteq gone' /\ (script[at].kind = "teardown" => script[at].vpn \in gone')
    BY DEF ApplyChunk
  <2>2. TornBefore(at) \subseteq gone /\ hurt \subseteq TornBefore(at)
    BY <1>1, <1>5 DEF ScriptSpeaks
  <2>3. hurt' = hurt \cup {v \in Vpns : InVpn(v) \cap (There(conf) \ There(conf')) # {}}
    BY DEF ApplyChunk, Changed
  <2>4. \A v \in hurt' \ hurt : script[at].kind = "teardown" /\ script[at].vpn = v
    BY <2>3, TakenAgreed DEF InVpn
  <2>5. DOMAIN script \subseteq Nat
    BY DEF TypeOK
  <2>6. \A i \in DOMAIN script : i < at + 1 <=> i < at \/ i = at
    BY <1>1, <2>5
  <2>7. TornBefore(at)' = TornBefore(at) \cup {script[i].vpn : i \in {j \in {at} : script[j].kind = "teardown"}}
    <3>1. {j \in DOMAIN script : script[j].kind = "teardown" /\ j < at + 1}
            = {j \in DOMAIN script : script[j].kind = "teardown" /\ j < at}
                \cup {j \in {at} : script[j].kind = "teardown"}
      BY <1>1, <2>6
    <3>2. QED
      BY <1>1, <3>1 DEF TornBefore
  <2>8. QED
    BY <2>1, <2>2, <2>4, <2>7
<1>6. QED
  BY <1>1, <1>4, <1>5 DEF ScriptSpeaks

LEMMA SpeaksRefuse ==
  ASSUME TypeOK, ImportAgreed, ScriptSpeaks, pc = "drive", RefuseChunk
  PROVE  ScriptSpeaks'
<1> USE DEF Mine, Emit
<1>1. /\ at \in Nat \ {0} /\ at \in DOMAIN script /\ alive /\ UNCHANGED script
      /\ markers \in Seq(Marker)
  BY DEF RefuseChunk, TypeOK
<1>2. \A k \in DOMAIN markers : markers[k].ok /\ markers[k].i < at /\ markers[k].i \in Nat
  <2>1. \A k \in DOMAIN markers : markers[k] \in Marker
    BY <1>1, ElementOfSeq
  <2>2. QED
    BY <1>1, <2>1 DEF ScriptSpeaks, Marker
<1>3. CASE unseen' /\ at' = at + 1 /\ markers' = Append(markers, [i |-> at, ok |-> TRUE])
  <2>1. \A k \in DOMAIN markers' : markers'[k].ok /\ markers'[k].i < at + 1
    BY <1>1, <1>2, <1>3
  <2>2. QED
    BY <1>3, <2>1 DEF ScriptSpeaks
<1>4. CASE /\ alive' = FALSE /\ UNCHANGED <<at, unseen>>
           /\ markers' \in {markers, Append(markers, [i |-> at, ok |-> FALSE])}
  <2>1. \A k \in DOMAIN markers' :
          /\ markers'[k].ok => markers'[k].i < at
          /\ ~markers'[k].ok => k = Len(markers') /\ markers'[k].i = at
    <3>1. CASE markers' = markers
      BY <1>2, <3>1
    <3>2. CASE markers' = Append(markers, [i |-> at, ok |-> FALSE])
      <4>1. /\ Len(markers') = Len(markers) + 1 /\ DOMAIN markers' = 1..(Len(markers) + 1)
            /\ DOMAIN markers = 1..Len(markers) /\ Len(markers) \in Nat
            /\ \A k \in 1..Len(markers) : markers'[k] = markers[k]
            /\ markers'[Len(markers) + 1] = [i |-> at, ok |-> FALSE]
        BY <1>1, <3>2
      <4>2. QED
        BY <1>2, <4>1
    <3>3. QED
      BY <1>4, <3>1, <3>2
  <2>2. ASSUME ~unseen
        PROVE  TornBefore(at) \subseteq gone' /\ hurt' \subseteq TornBefore(at) \cup {script[at].vpn}
    <3>1. TornBefore(at) \subseteq gone /\ hurt \subseteq TornBefore(at) /\ gone' = gone
      BY <1>1, <2>2 DEF ScriptSpeaks, RefuseChunk
    <3>2. hurt' = hurt \cup {v \in Vpns : InVpn(v) \cap (There(conf) \ There(conf')) # {}}
      BY DEF RefuseChunk, Changed
    <3>3. \A v \in hurt' \ hurt : script[at].vpn = v
      BY <3>2, TakenAgreed DEF InVpn
    <3>4. QED
      BY <3>1, <3>3
  <2>3. TornBefore(at)' = TornBefore(at)
    BY <1>1, <1>4 DEF TornBefore
  <2>4. {script[i].vpn : i \in {j \in DOMAIN script : j = at /\ ~alive}}' = {script[at].vpn}
    BY <1>1, <1>4
  <2>5. QED
    BY <1>1, <1>4, <2>1, <2>2, <2>3, <2>4 DEF ScriptSpeaks
<1>5. QED
  BY <1>3, <1>4 DEF RefuseChunk

\* What the report says was torn down was; and after a refusal it names the rest.
LEMMA CollectSpeaks ==
  ASSUME TypeOK, ScriptSpeaks, ~unseen
  PROVE  /\ Torn \subseteq gone
         /\ HasFailed /\ ~MarkerLost => hurt \subseteq Torn \cup {script[markers[FirstFailed].i].vpn}
<1>1. HasFailed => /\ FirstFailed \in DOMAIN markers /\ ~markers[FirstFailed].ok
                   /\ FirstFailed = Len(markers) /\ markers[FirstFailed].i = at
  <2>1. HasFailed => FirstFailed \in DOMAIN markers /\ ~markers[FirstFailed].ok
    BY DEF HasFailed, FirstFailed
  <2>2. QED
    BY <2>1 DEF ScriptSpeaks
<1>2. \A j \in Reported : j < at \/ (HasFailed /\ j = markers[FirstFailed].i)
  <2>1. \A k \in DOMAIN markers : markers[k].i < at \/ (HasFailed /\ markers[k].i = markers[FirstFailed].i)
    BY <1>1 DEF ScriptSpeaks, HasFailed
  <2>2. QED
    BY <2>1 DEF Reported
<1>3. Torn \subseteq TornBefore(at)
  BY <1>2 DEF Torn, TornBefore, TypeOK
<1>4. ASSUME HasFailed, ~MarkerLost
      PROVE  hurt \subseteq Torn \cup {script[markers[FirstFailed].i].vpn}
  <2>1. \A k \in DOMAIN markers : markers[k].i = k
    BY <1>4 DEF MarkerLost
  <2>2. markers \in Seq(Marker) /\ at = Len(markers) /\ markers[FirstFailed].i = at
    BY <1>1, <1>4, <2>1 DEF TypeOK
  <2>3. \A j \in 1..at : j \in Reported
    BY <2>1, <2>2 DEF Reported
  <2>4. script \in Seq(Chunk) /\ at \in Nat
    BY <2>2 DEF TypeOK
  <2>5. \A j \in DOMAIN script : j < at => j \in Reported /\ j # at
    BY <2>3, <2>4
  <2>6. TornBefore(at) \subseteq Torn
    BY <2>2, <2>5 DEF Torn, TornBefore
  <2>7. {script[i].vpn : i \in {j \in DOMAIN script : j = at /\ ~alive}} \subseteq {script[at].vpn}
    OBVIOUS
  <2>8. QED
    BY <2>2, <2>6, <2>7 DEF ScriptSpeaks
<1>5. QED
  BY <1>3, <1>4 DEF ScriptSpeaks

LEMMA InitReportTrue == Init => ReportTrue
BY DEF Init, ReportTrue, NoReport

LEMMA NextReportTrue ==
  ASSUME TypeOK, ImportAgreed, ReportTrue, [Next]_vars
  PROVE  ReportTrue'
<1> USE DEF vars, brokerVars, driverVars, historyVars, boundVars
<1>1. CASE Plan
  <2>1. pc' \in {"ask", "refused"} /\ rep' = NoReport /\ hurt' = {} /\ gone' = {} /\ unseen' = FALSE
    BY <1>1 DEF Plan
  <2>2. QED
    BY <2>1 DEF ReportTrue, NoReport
<1>2. CASE Answer \/ Capture
  <2>1. /\ pc \in {"ask", "capture"} /\ pc' \in {"ask", "capture", "declined", "stopped"}
        /\ UNCHANGED <<rep, hurt, gone, unseen>>
    BY <1>2 DEF Answer, Capture
  <2>2. QED
    BY <2>1 DEF ReportTrue
<1>3. CASE Build
  <2>1. /\ pc = "capture" /\ pc' \in {"upload", "verify"} /\ rep'.torn = rep.torn
        /\ (pc' = "upload" => rep' = rep) /\ UNCHANGED <<hurt, gone, unseen>>
    BY <1>3 DEF Build, TypeOK
  <2>2. QED
    BY <2>1 DEF ReportTrue
<1>4. CASE Upload
  <2>1. /\ pc = "upload" /\ pc' \in {"drive", "stopped"} /\ UNCHANGED <<rep, hurt, gone, unseen>>
        /\ (pc' = "drive" => at' = 1 /\ markers' = <<>> /\ script' = chunks)
    BY <1>4 DEF Upload
  <2>2. ASSUME pc' = "drive" PROVE ScriptSpeaks'
    <3>1. DOMAIN markers' = {} /\ hurt' = {}
      BY <2>1, <2>2 DEF ReportTrue
    <3>2. DOMAIN chunks \subseteq Nat \ {0}
      BY DEF TypeOK
    <3>3. TornBefore(at)' = {}
      BY <2>1, <2>2, <3>2 DEF TornBefore
    <3>4. QED
      BY <3>1, <3>3 DEF ScriptSpeaks
  <2>3. QED
    BY <2>1, <2>2 DEF ReportTrue
<1>5. CASE pc = "drive" /\ (ApplyChunk \/ RefuseChunk)
  <2>1. pc' = "drive" /\ rep' = rep /\ gone \subseteq gone' /\ (unseen => unseen')
    BY <1>5 DEF ApplyChunk, RefuseChunk, TypeOK
  <2>2. ScriptSpeaks'
    BY <1>5, SpeaksApply, SpeaksRefuse DEF ReportTrue
  <2>3. ASSUME ~unseen' PROVE rep'.torn \subseteq gone'
    BY <2>1, <2>3 DEF ReportTrue
  <2>4. rep' = NoReport
    BY <1>5, <2>1 DEF ReportTrue
  <2>5. QED
    BY <2>1, <2>2, <2>3, <2>4 DEF ReportTrue
<1>6. CASE pc # "drive" /\ (ApplyChunk \/ RefuseChunk)
  <2>1. UNCHANGED <<pc, rep, script, hurt, gone, unseen, markers>>
    BY <1>6 DEF ApplyChunk, RefuseChunk, Changed, Mine
  <2>2. QED
    BY <1>6, <2>1 DEF ReportTrue, MarkerLost
<1>7. CASE Finish \/ Break \/ Die
  <2>1. UNCHANGED <<pc, rep, script, hurt, gone, unseen, markers, at>>
    BY <1>7 DEF Finish, Break, Die
  <2>2. pc = "drive" => alive' \in {alive, FALSE}
    BY <1>7 DEF Finish, Break, Die
  <2>3. ASSUME pc = "drive" PROVE ScriptSpeaks'
    <3>1. TornBefore(at)' = TornBefore(at)
      BY <2>1 DEF TornBefore
    <3>2. {script[i].vpn : i \in {j \in DOMAIN script : j = at /\ ~alive}}
            \subseteq {script[i].vpn : i \in {j \in DOMAIN script : j = at /\ ~alive}}'
      <4>1. ~alive => ~alive'
        BY <2>2, <2>3
      <4>2. QED
        BY <2>1, <4>1
    <3>3. ScriptSpeaks
      BY <2>3 DEF ReportTrue
    <3>4. QED
      BY <2>1, <2>2, <2>3, <3>1, <3>2, <3>3 DEF ScriptSpeaks
  <2>4. QED
    BY <2>1, <2>3 DEF ReportTrue, MarkerLost
<1>8. CASE Collect
  <2>1. /\ pc = "drive" /\ pc' \notin {"ask", "capture", "upload", "drive"}
        /\ UNCHANGED <<hurt, gone, unseen, markers, script>> /\ rep'.torn = Torn
        /\ (pc' = "failed" => HasFailed /\ rep'.failed = markers[FirstFailed].i)
    BY <1>8 DEF Collect, Parsed
  <2>2. ~unseen => /\ Torn \subseteq gone
                   /\ HasFailed /\ ~MarkerLost
                        => hurt \subseteq Torn \cup {script[markers[FirstFailed].i].vpn}
    BY <2>1, CollectSpeaks DEF ReportTrue
  <2>3. QED
    BY <2>1, <2>2 DEF ReportTrue, MarkerLost
<1>9. CASE Verify \/ Kill
  <2>1. /\ pc' \in {"verified", "differs", "unread", "killed"}
        /\ UNCHANGED <<rep, gone, unseen>>
    BY <1>9 DEF Verify, Kill
  <2>2. QED
    BY <2>1 DEF ReportTrue
<1>10. CASE Meddle \/ UNCHANGED vars
  <2>1. UNCHANGED <<pc, rep, script, hurt, gone, unseen, markers, at, alive>>
    BY <1>10 DEF Meddle
  <2>2. QED
    BY <2>1 DEF ReportTrue, MarkerLost, ScriptSpeaks, TornBefore
<1>11. QED
  BY <1>1, <1>2, <1>3, <1>4, <1>5, <1>6, <1>7, <1>8, <1>9, <1>10 DEF Next

LEMMA ReportAlwaysTrue == Spec => []ReportTrue
<1>1. TypeOK /\ ImportAgreed /\ ReportTrue /\ [Next]_vars => ReportTrue'
  BY NextReportTrue
<1>2. QED
  BY InitReportTrue, <1>1, TypeCorrect, AlwaysAgreed, PTL DEF Spec

\* A report calls torn down only what was torn down, and a refused import names every
\* VPN it has taken something of.
THEOREM ReportNamesDestruction == Spec => []DestroyedIsNamed
<1>1. ReportTrue => DestroyedIsNamed
  BY DEF ReportTrue, DestroyedIsNamed
<1>2. QED
  BY <1>1, ReportAlwaysTrue, PTL

LEMMA InitRebuiltToTheEnd == Init => RebuiltToTheEnd /\ VerifiedMatches
BY DEF Init, RebuiltToTheEnd, VerifiedMatches

\* An output that is complete and in order says all the teardowns.
LEMMA CompleteSaysAll ==
  ASSUME TypeOK, ~HasFailed, InOrder
  PROVE  Torn = TornBy(script)
<1>1. markers \in Seq(Marker) /\ script \in Seq(Chunk)
  BY DEF TypeOK
<1>2. DOMAIN markers = DOMAIN script /\ \A k \in DOMAIN markers : markers[k].i = k
  BY <1>1 DEF InOrder
<1>3. Reported = DOMAIN script
  BY <1>2 DEF Reported
<1>4. QED
  BY <1>3 DEF Torn, TornBy

LEMMA NextRebuiltToTheEnd ==
  ASSUME TypeOK, ChunksComplete, RebuiltToTheEnd, [Next]_vars
  PROVE  RebuiltToTheEnd'
<1> USE DEF vars, brokerVars, driverVars, historyVars, boundVars
<1>1. CASE Plan \/ Answer \/ Capture \/ Upload \/ Kill
  BY <1>1 DEF Plan, Answer, Capture, Upload, Kill, RebuiltToTheEnd
<1>2. CASE Build
  BY <1>2 DEF Build, RebuiltToTheEnd, TypeOK
<1>3. CASE ApplyChunk \/ RefuseChunk \/ Finish \/ Die
  <2>1. alive /\ UNCHANGED <<pc, rep, chunks>>
    BY <1>3 DEF ApplyChunk, RefuseChunk, Finish, Die
  <2>2. QED
    BY <2>1 DEF RebuiltToTheEnd
<1>4. CASE Break
  BY <1>4 DEF Break, RebuiltToTheEnd
<1>5. CASE Collect
  <2>1. ASSUME pc' = "verify" PROVE Parsed = "applied"
    BY <1>5, <2>1 DEF Collect, Parsed
  <2>2. ASSUME Parsed = "applied" PROVE ~HasFailed /\ Done /\ InOrder
    BY <2>2 DEF Parsed
  <2>3. ASSUME pc' = "verify"
        PROVE  rep'.rebuilt /\ at' = Len(script') + 1 /\ ~alive' /\ rep'.torn = Existing'
    <3>1. rep'.rebuilt /\ rep'.torn = Torn /\ pc = "drive" /\ UNCHANGED <<at, script, alive, art, plan>>
      BY <1>5, <2>1, <2>3 DEF Collect
    <3>2. Torn = Existing
      BY <2>1, <2>2, <2>3, <3>1, CompleteSaysAll DEF ChunksComplete
    <3>3. QED
      BY <2>1, <2>2, <2>3, <3>1, <3>2 DEF Done, Existing
  <2>4. pc' \notin {"verified", "differs", "unread"}
    BY <1>5 DEF Collect, Parsed
  <2>5. QED
    BY <2>3, <2>4 DEF RebuiltToTheEnd
<1>6. CASE Verify \/ Meddle \/ UNCHANGED vars
  <2>1. /\ UNCHANGED <<rep, chunks, at, script, alive, art, plan>>
        /\ pc' = pc \/ pc = "verify"
    BY <1>6 DEF Verify, Meddle
  <2>2. QED
    BY <2>1 DEF RebuiltToTheEnd, Existing
<1>7. QED
  BY <1>1, <1>2, <1>3, <1>4, <1>5, <1>6 DEF Next

LEMMA RebuiltAlwaysToTheEnd == Spec => []RebuiltToTheEnd
<1>1. TypeOK /\ ChunksComplete /\ RebuiltToTheEnd /\ [Next]_vars => RebuiltToTheEnd'
  BY NextRebuiltToTheEnd
<1>2. QED
  BY InitRebuiltToTheEnd, <1>1, TypeCorrect, ChunksAlwaysComplete, PTL DEF Spec

\* What an import calls rebuilt has been applied to its last chunk, every VPN that was
\* there torn down before.
THEOREM RebuiltMeansWhole == Spec => []RebuiltIsWhole
<1>1. RebuiltToTheEnd => RebuiltIsWhole
  BY DEF RebuiltToTheEnd, RebuiltIsWhole
<1>2. QED
  BY <1>1, RebuiltAlwaysToTheEnd, PTL

LEMMA NextVerifiedMatches ==
  ASSUME TypeOK, VerifiedMatches, [Next]_vars
  PROVE  VerifiedMatches'
<1> USE DEF vars, brokerVars, driverVars, historyVars, boundVars
<1>0. UNCHANGED <<art, conf>> => Matches' = Matches
  BY DEF Matches, Wanted, Landed, Ignored, Unclassified, Skipped
<1>1. CASE Verify
  BY <1>0, <1>1 DEF Verify, VerifiedMatches
<1>2. CASE Plan \/ Answer \/ Capture \/ Build \/ Upload \/ Collect \/ Kill
  BY <1>2 DEF Plan, Answer, Capture, Build, Upload, Collect, Kill, Parsed, VerifiedMatches
<1>3. CASE ApplyChunk \/ RefuseChunk
  <2>1. pc' = pc /\ (pc # "drive" => calm' = FALSE)
    BY <1>3 DEF ApplyChunk, RefuseChunk, Mine
  <2>2. QED
    BY <2>1 DEF VerifiedMatches
<1>4. CASE Finish \/ Break \/ Die \/ UNCHANGED vars
  <2>1. UNCHANGED <<art, conf, pc>> /\ calm' \in {calm, FALSE}
    BY <1>4 DEF Finish, Break, Die, Mishap
  <2>2. Matches' = Matches
    BY <1>0, <2>1
  <2>3. QED
    BY <2>1, <2>2 DEF VerifiedMatches
<1>5. CASE Meddle
  BY <1>5 DEF Meddle, Mishap, VerifiedMatches
<1>6. QED
  BY <1>1, <1>2, <1>3, <1>4, <1>5 DEF Next

\* An import that ends well, with nobody else writing, has left no section it does not
\* know unapplied.
THEOREM GapNeverSilent == Spec => []GapIsLoud
<1>1. TypeOK /\ VerifiedMatches /\ [Next]_vars => VerifiedMatches'
  BY NextVerifiedMatches
<1>2. TypeOK /\ VerifiedMatches => GapIsLoud
  BY DEF VerifiedMatches, GapIsLoud, Matches, Wanted, Landed, Ignored, TypeOK, Art
<1>3. QED
  BY InitRebuiltToTheEnd, <1>1, <1>2, TypeCorrect, PTL DEF Spec

-------------------------------------------------------------------------------
(* An import that goes well *)

\* Whatever is in a message-VPN is in one that is there.
Housed(V, O) == \A o \in O : Home[o] \in Vpns => Home[o] \in V

TeardownsOnlyTake(s) == \A i \in DOMAIN s : s[i].kind = "teardown" => s[i].make = {}

EverythingHoused ==
  /\ Housed(conf.vpns, There(conf)) /\ Housed(art.vpns, art.objs) /\ Housed(plan.vpns, plan.objs)
  /\ TeardownsOnlyTake(chunks) /\ TeardownsOnlyTake(script)

\* What the chunks of an import do, by what its plan has read.
PlannedTeardown(v) ==
  [kind |-> "teardown", vpn |-> v, make |-> {}, vpns |-> {},
   drop |-> {o \in InVpn(v) \cap plan.objs : Kind[o] # "fixed"}]

Rebuilds(ch) ==
  \/ ch.kind = "clear" /\ ch.drop = TargetOnly /\ ch.make = {} /\ ch.vpns = {}
  \/ ch.kind = "vpns" /\ ch.drop = {} /\ ch.make = {} /\ ch.vpns = art.vpns
  \/ /\ ch.kind = "section" /\ ch.drop = Cleared(ch.make) /\ ch.vpns = {}
     /\ ch.make \subseteq art.objs /\ \A o \in ch.make : Home[o] \in Sections
  \/ /\ ch.kind = "vpn" /\ ch.drop = {} /\ ch.make = InVpn(ch.vpn) \cap art.objs /\ ch.vpns = {}
     /\ ch.vpn \in art.vpns

\* The objects a chunk is about.  A sequence of chunks of the rebuild is about objects
\* of Z, each in one chunk at most.
Touched(ch) == ch.drop \cup ch.make

EachOnce(s, Z) ==
  /\ \A i \in DOMAIN s : Rebuilds(s[i]) /\ Touched(s[i]) \subseteq Z
  /\ \A i, j \in DOMAIN s : i # j => Touched(s[i]) \cap Touched(s[j]) = {}

\* The VPNs are created ahead of all that needs them, and everything that is to be
\* applied is.
VpnsBefore(s) ==
  \A i \in DOMAIN s : s[i].kind \in {"section", "vpn"} /\ art.vpns # {} =>
    \E j \in DOMAIN s : j < i /\ s[j].kind = "vpns"

Creates(s) ==
  /\ art.vpns # {} => \E ch \in Range(s) : ch.kind = "vpns"
  /\ \A o \in art.objs : Applies(o) \/ Home[o] \in Vpns => \E ch \in Range(s) : o \in ch.make

\* The teardowns come first, each of another VPN, all that were agreed to.
TearsFirst(s) ==
  /\ \A i \in DOMAIN s : s[i].kind = "teardown" =>
       /\ s[i] = PlannedTeardown(s[i].vpn) /\ s[i].vpn \in Existing
       /\ \A j \in DOMAIN s : j < i => s[j].kind = "teardown" /\ s[j].vpn # s[i].vpn
  /\ \A v \in Existing : \E ch \in Range(s) : ch.kind = "teardown" /\ ch.vpn = v

RebuildsOnce(s) ==
  /\ \A i \in DOMAIN s : s[i].kind # "teardown" => Rebuilds(s[i])
  /\ \A i, j \in DOMAIN s : s[i].kind # "teardown" /\ s[j].kind # "teardown" /\ i # j =>
       Touched(s[i]) \cap Touched(s[j]) = {}

WellBuilt(s) == TearsFirst(s) /\ RebuildsOnce(s) /\ VpnsBefore(s) /\ Creates(s)

\* Where the broker is when the chunks before the one it is at have gone through: what
\* none of them is about is as the plan has read it, what they have made is there, and
\* a VPN torn down is empty but for what cannot be deleted and what was made since.
Behind == {j \in DOMAIN chunks : j < at}
TornBehind == {chunks[j].vpn : j \in {k \in Behind : chunks[k].kind = "teardown"}}

Untouched(o) == Home[o] \notin TornBehind /\ \A j \in Behind : o \notin Touched(chunks[j])
Unmade(o) == \A j \in Behind : o \notin chunks[j].make

Progress ==
  /\ \A o \in Objects : Untouched(o) => (conf.has[o] # "none" <=> o \in plan.objs)
  /\ \A j \in Behind : \A o \in chunks[j].make : conf.has[o] = Written(o)
  /\ \A o \in Objects : Home[o] \in TornBehind /\ Unmade(o) => Kind[o] = "fixed" \/ conf.has[o] = "none"
  /\ plan.vpns \ TornBehind \subseteq conf.vpns
  /\ \A j \in Behind : chunks[j].kind = "vpns" => art.vpns \subseteq conf.vpns

\* The artifact has no object of a section of a kind whose create is refused when it is
\* there and that is not removed ahead (a CLI user is one).
NoUsers == \A o \in art.objs : Kind[o] \in {"create", "bridge"} => Home[o] \in Vpns

\* An import in which nothing has failed and nobody has interfered.
DriveGoesWell ==
  /\ chunks # <<>> /\ linked
  /\ HasFailed => ~alive /\ ~(NoUsers /\ Applicable)
  /\ ~HasFailed => /\ alive \/ at = Len(chunks) + 1
                   /\ Len(markers) = at - 1 /\ \A k \in DOMAIN markers : markers[k].i = k
                   /\ Progress

CalmRun ==
  calm =>
    /\ pc \in {"ask", "capture", "upload"} => plan = [vpns |-> conf.vpns, objs |-> There(conf)]
    /\ pc = "capture" => \A i \in DOMAIN chunks : chunks[i] = PlannedTeardown(ToCapture[i])
    /\ pc \in {"upload", "drive", "verify", "verified", "differs"} => WellBuilt(chunks)
    /\ pc = "upload" => chunks # <<>>
    /\ pc = "drive" => DriveGoesWell
    /\ pc \in {"verify", "verified", "differs"} /\ chunks # <<>> => at = Len(chunks) + 1 /\ Progress
    /\ pc \notin {"stopped", "not run", "cut short", "unknown", "unread"}
    /\ pc = "failed" => ~(NoUsers /\ Applicable)
    /\ pc = "differs" => ~Matches

-------------------------------------------------------------------------------
(* The chunks of an import *)

LEMMA JoinedOnce ==
  ASSUME NEW s \in Seq(Replaced), NEW t \in Seq(Replaced), NEW Y, NEW Z, Y \cap Z = {},
         EachOnce(s, Y), EachOnce(t, Z)
  PROVE  EachOnce(s \o t, Y \cup Z)
<1> DEFINE u == s \o t
<1>1. /\ Len(s) \in Nat /\ Len(t) \in Nat /\ DOMAIN s = 1..Len(s) /\ DOMAIN t = 1..Len(t)
      /\ DOMAIN u = 1..(Len(s) + Len(t))
  BY ConcatProperties, LenProperties
<1>2. \A i \in DOMAIN u : u[i] = IF i <= Len(s) THEN s[i] ELSE t[i - Len(s)]
  BY <1>1, ConcatProperties
<1> HIDE DEF u
<1>3. \A i \in DOMAIN u : (i <= Len(s) => i \in DOMAIN s) /\ (~(i <= Len(s)) => i - Len(s) \in DOMAIN t)
  BY <1>1
<1>4. ASSUME NEW i \in DOMAIN u
      PROVE  Rebuilds(u[i]) /\ Touched(u[i]) \subseteq Y \cup Z
  BY <1>2, <1>3, <1>4 DEF EachOnce
<1>5. ASSUME NEW i \in DOMAIN u, NEW j \in DOMAIN u, i # j
      PROVE  Touched(u[i]) \cap Touched(u[j]) = {}
  <2>1. CASE i <= Len(s) /\ j <= Len(s)
    BY <1>2, <1>3, <1>5, <2>1 DEF EachOnce
  <2>2. CASE ~(i <= Len(s)) /\ ~(j <= Len(s))
    <3>1. i - Len(s) # j - Len(s)
      BY <1>1, <1>5
    <3>2. QED
      BY <1>2, <1>3, <2>2, <3>1 DEF EachOnce
  <2>3. CASE i <= Len(s) /\ ~(j <= Len(s))
    <3>1. Touched(u[i]) \subseteq Y /\ Touched(u[j]) \subseteq Z
      BY <1>2, <1>3, <2>3 DEF EachOnce
    <3>2. QED
      BY <3>1
  <2>4. CASE ~(i <= Len(s)) /\ j <= Len(s)
    <3>1. Touched(u[i]) \subseteq Z /\ Touched(u[j]) \subseteq Y
      BY <1>2, <1>3, <2>4 DEF EachOnce
    <3>2. QED
      BY <3>1
  <2>5. QED
    BY <2>1, <2>2, <2>3, <2>4
<1>6. QED
  BY <1>4, <1>5 DEF EachOnce, u

LEMMA SectionOnce ==
  ASSUME TypeOK, NEW S \in SUBSET Sections
  PROVE  EachOnce(Section(At(S)), At(S) \cap art.objs)
<1> DEFINE A == {o \in At(S) \cap art.objs : Applies(o)}
           ch == [kind |-> "section", vpn |-> Default, drop |-> Cleared(A), make |-> A, vpns |-> {}]
<1>1. A \subseteq At(S) \cap art.objs /\ Cleared(A) \subseteq A /\ \A o \in A : Home[o] \in Sections
  BY DEF At, Cleared
<1>2. Rebuilds(ch) /\ Touched(ch) \subseteq At(S) \cap art.objs
  BY <1>1 DEF Rebuilds, Touched
<1>3. Section(At(S)) = IF A = {} THEN <<>> ELSE <<ch>>
  BY DEF Section
<1> HIDE DEF ch, A
<1>4. QED
  BY <1>2, <1>3 DEF EachOnce

LEMMA ClearAndCreateOnce ==
  /\ EachOnce(ClearTargetOnly, TargetOnly) /\ EachOnce(CreateVpns, {})
  /\ \A i \in DOMAIN ClearTargetOnly : ClearTargetOnly[i].kind = "clear"
  /\ \A i \in DOMAIN CreateVpns : CreateVpns[i].kind = "vpns"
  /\ art.vpns # {} => Len(CreateVpns) = 1
<1>1. EachOnce(ClearTargetOnly, TargetOnly) /\ \A i \in DOMAIN ClearTargetOnly : ClearTargetOnly[i].kind = "clear"
  <2> DEFINE ch == [kind |-> "clear", vpn |-> Default, drop |-> TargetOnly, make |-> {}, vpns |-> {}]
  <2>1. Rebuilds(ch) /\ Touched(ch) \subseteq TargetOnly /\ ch.kind = "clear"
    BY DEF Rebuilds, Touched
  <2>2. ClearTargetOnly = IF TargetOnly = {} THEN <<>> ELSE <<ch>>
    BY DEF ClearTargetOnly
  <2> HIDE DEF ch
  <2>3. QED
    BY <2>1, <2>2 DEF EachOnce
<1>2. /\ EachOnce(CreateVpns, {}) /\ \A i \in DOMAIN CreateVpns : CreateVpns[i].kind = "vpns"
      /\ art.vpns # {} => Len(CreateVpns) = 1
  <2> DEFINE ch == [kind |-> "vpns", vpn |-> Default, drop |-> {}, make |-> {}, vpns |-> art.vpns]
  <2>1. Rebuilds(ch) /\ Touched(ch) \subseteq {} /\ ch.kind = "vpns"
    BY DEF Rebuilds, Touched
  <2>2. CreateVpns = IF art.vpns = {} THEN <<>> ELSE <<ch>>
    BY DEF CreateVpns
  <2> HIDE DEF ch
  <2>3. QED
    BY <2>1, <2>2 DEF EachOnce
<1>3. QED
  BY <1>1, <1>2

\* The default VPN first, then the others: each once.
LEMMA DefaultFirstLists ==
  ASSUME NEW V \in SUBSET Vpns
  PROVE  /\ DefaultFirst(V) \in Seq(Vpns) /\ Range(DefaultFirst(V)) = V
         /\ \A i, j \in DOMAIN DefaultFirst(V) : DefaultFirst(V)[i] = DefaultFirst(V)[j] => i = j
<1> DEFINE D == V \cap {Default}
           E == V \ {Default}
           s == VpnOrder[D]
           t == VpnOrder[E]
           u == s \o t
<1>1. D \in SUBSET Vpns /\ E \in SUBSET Vpns /\ D \cap E = {} /\ D \cup E = V
  OBVIOUS
<1>2. s \in Seq(Vpns) /\ t \in Seq(Vpns) /\ Range(s) = D /\ Range(t) = E
  <2> HIDE DEF D, E
  <2>1. QED
    BY <1>1, ShapeAssumption DEF Range
<1>3. /\ \A i, j \in DOMAIN s : s[i] = s[j] => i = j
      /\ \A i, j \in DOMAIN t : t[i] = t[j] => i = j
  <2> HIDE DEF D, E
  <2>1. QED
    BY <1>1, ListedOnce
<1>4. u = DefaultFirst(V)
  BY DEF DefaultFirst
<1> HIDE DEF s, t, D, E
<1>5. u \in Seq(Vpns) /\ Range(u) = V
  <2>1. u \in Seq(Vpns)
    BY <1>2
  <2>2. Range(u) = Range(s) \cup Range(t)
    BY <1>2, RangeConcatenation
  <2>3. QED
    BY <1>1, <1>2, <2>1, <2>2
<1>6. /\ Len(s) \in Nat /\ Len(t) \in Nat /\ DOMAIN s = 1..Len(s) /\ DOMAIN t = 1..Len(t)
      /\ DOMAIN u = 1..(Len(s) + Len(t))
      /\ \A i \in DOMAIN u : u[i] = IF i <= Len(s) THEN s[i] ELSE t[i - Len(s)]
  BY <1>2, ConcatProperties, LenProperties
<1> HIDE DEF u
<1>7. \A i \in DOMAIN u : /\ i <= Len(s) => i \in DOMAIN s /\ u[i] = s[i] /\ u[i] \in D
                          /\ ~(i <= Len(s)) => i - Len(s) \in DOMAIN t /\ u[i] = t[i - Len(s)] /\ u[i] \in E
  <2>1. (\A i \in DOMAIN s : s[i] \in D) /\ (\A i \in DOMAIN t : t[i] \in E)
    BY <1>2 DEF Range
  <2>2. QED
    BY <1>6, <2>1
<1>8. ASSUME NEW i \in DOMAIN u, NEW j \in DOMAIN u, u[i] = u[j]
      PROVE  i = j
  <2>1. (i <= Len(s)) <=> (j <= Len(s))
    BY <1>1, <1>7, <1>8
  <2>2. CASE i <= Len(s)
    BY <1>3, <1>7, <1>8, <2>1, <2>2
  <2>3. CASE ~(i <= Len(s))
    <3>1. i - Len(s) = j - Len(s)
      BY <1>3, <1>7, <1>8, <2>1, <2>3
    <3>2. QED
      BY <1>6, <3>1
  <2>4. QED
    BY <2>2, <2>3
<1>9. QED
  BY <1>4, <1>5, <1>8

LEMMA VpnChunksOnce ==
  ASSUME TypeOK
  PROVE  /\ EachOnce(VpnChunks, At(Vpns) \cap art.objs)
         /\ \A o \in art.objs : Home[o] \in art.vpns => \E ch \in Range(VpnChunks) : o \in ch.make
<1> DEFINE V == {v \in art.vpns : InVpn(v) \cap art.objs # {}}
           full == DefaultFirst(V)
<1>1. V \in SUBSET Vpns /\ V \subseteq art.vpns
  BY DEF TypeOK, Art
<1>2. VpnChunks = [i \in DOMAIN full |-> VpnChunk(full[i])]
  BY DEF VpnChunks
<1>3. /\ Range(full) = V
      /\ \A i, j \in DOMAIN full : full[i] = full[j] => i = j
  <2> HIDE DEF V
  <2>1. QED
    BY <1>1, DefaultFirstLists
<1>4. \A i \in DOMAIN full : full[i] \in art.vpns /\ full[i] \in Vpns
  <2> HIDE DEF full, V
  <2>1. QED
    BY <1>1, <1>3 DEF Range
<1>5. \A o \in art.objs : Home[o] \in art.vpns => \E ch \in Range(VpnChunks) : o \in ch.make
  <2> SUFFICES ASSUME NEW o \in art.objs, Home[o] \in art.vpns
               PROVE  \E ch \in Range(VpnChunks) : o \in ch.make
    OBVIOUS
  <2>1. o \in InVpn(Home[o]) \cap art.objs
    BY DEF InVpn, TypeOK, Art
  <2>2. Home[o] \in V
    BY <2>1
  <2>3. PICK i \in DOMAIN full : full[i] = Home[o]
    <3> HIDE DEF full, V
    <3>1. QED
      BY <1>3, <2>2 DEF Range
  <2> HIDE DEF full, V
  <2>4. i \in DOMAIN VpnChunks /\ VpnChunks[i] = VpnChunk(Home[o])
    BY <1>2, <2>3
  <2>5. VpnChunks[i] \in Range(VpnChunks)
    BY <2>4 DEF Range
  <2>6. o \in VpnChunks[i].make
    BY <2>1, <2>4 DEF VpnChunk
  <2>7. QED
    BY <2>5, <2>6
<1> HIDE DEF full, V
<1>6. \A i \in DOMAIN VpnChunks : i \in DOMAIN full /\ VpnChunks[i] = VpnChunk(full[i])
  BY <1>2
<1>7. ASSUME NEW v \in art.vpns
      PROVE  Rebuilds(VpnChunk(v)) /\ Touched(VpnChunk(v)) = InVpn(v) \cap art.objs
  BY DEF Rebuilds, Touched, VpnChunk
<1>8. ASSUME NEW i \in DOMAIN VpnChunks
      PROVE  Rebuilds(VpnChunks[i]) /\ Touched(VpnChunks[i]) = InVpn(full[i]) \cap art.objs
  BY <1>4, <1>6, <1>7
<1>9. \A v \in Vpns : InVpn(v) \subseteq At(Vpns)
  BY DEF InVpn, At
<1>10. \A v, w \in Vpns : v # w => InVpn(v) \cap InVpn(w) = {}
  BY DEF InVpn
<1>11. EachOnce(VpnChunks, At(Vpns) \cap art.objs)
  <2>1. \A i \in DOMAIN VpnChunks : Rebuilds(VpnChunks[i]) /\ Touched(VpnChunks[i]) \subseteq At(Vpns) \cap art.objs
    BY <1>4, <1>6, <1>8, <1>9
  <2>2. ASSUME NEW i \in DOMAIN VpnChunks, NEW j \in DOMAIN VpnChunks, i # j
        PROVE  Touched(VpnChunks[i]) \cap Touched(VpnChunks[j]) = {}
    <3>1. full[i] # full[j] /\ full[i] \in Vpns /\ full[j] \in Vpns
      BY <1>3, <1>4, <1>6, <2>2
    <3>2. InVpn(full[i]) \cap InVpn(full[j]) = {}
      BY <1>10, <3>1
    <3>3. QED
      BY <1>8, <3>2
  <2>3. QED
    BY <2>1, <2>2 DEF EachOnce
<1>12. QED
  BY <1>5, <1>11

\* The rebuild handles every object once.
LEMMA RebuildOnce ==
  ASSUME TypeOK
  PROVE  EachOnce(Rebuild, Objects)
<1> DEFINE s1 == ClearTargetOnly
           s2 == CreateVpns
           s3 == Section(At({"logging"}))
           s4 == Section(At({"usernames"}))
           s5 == Section(At(Sections \ {"logging", "usernames"}))
           s6 == VpnChunks
           W3 == At({"logging"}) \cap art.objs
           W4 == At({"usernames"}) \cap art.objs
           W5 == At(Sections \ {"logging", "usernames"}) \cap art.objs
           W6 == At(Vpns) \cap art.objs
<1>1. /\ s1 \in Seq(Replaced) /\ s2 \in Seq(Replaced) /\ s3 \in Seq(Replaced)
      /\ s4 \in Seq(Replaced) /\ s5 \in Seq(Replaced) /\ s6 \in Seq(Replaced)
  BY RebuildParts DEF Sections
<1>2. /\ EachOnce(s1, TargetOnly) /\ EachOnce(s2, {}) /\ EachOnce(s3, W3)
      /\ EachOnce(s4, W4) /\ EachOnce(s5, W5) /\ EachOnce(s6, W6)
  BY ClearAndCreateOnce, SectionOnce, VpnChunksOnce DEF Sections
<1>3. /\ W3 \cap W4 = {} /\ (W3 \cup W4) \cap W5 = {} /\ (W3 \cup W4 \cup W5) \cap W6 = {}
      /\ W3 \cup W4 \cup W5 \cup W6 \subseteq art.objs /\ TargetOnly \cap art.objs = {}
      /\ W3 \cup W4 \cup W5 \cup W6 \cup TargetOnly \subseteq Objects
  <2>1. \A S, T : S \cap T = {} => At(S) \cap At(T) = {}
    BY DEF At
  <2>2. {"logging", "usernames"} \subseteq Sections /\ Vpns \cap Sections = {}
    BY ShapeAssumption DEF Sections
  <2>3. /\ At({"logging"}) \cap At({"usernames"}) = {}
        /\ At({"logging"}) \cap At(Sections \ {"logging", "usernames"}) = {}
        /\ At({"usernames"}) \cap At(Sections \ {"logging", "usernames"}) = {}
    BY <2>1
  <2>4. At({"logging"}) \cap At(Vpns) = {} /\ At({"usernames"}) \cap At(Vpns) = {}
        /\ At(Sections \ {"logging", "usernames"}) \cap At(Vpns) = {}
    BY <2>1, <2>2
  <2>5. TargetOnly \subseteq Objects \ art.objs /\ art.objs \subseteq Objects
    BY DEF TargetOnly, TypeOK, Art
  <2>6. QED
    BY <2>3, <2>4, <2>5
<1>4. Rebuild = s1 \o s2 \o s3 \o s4 \o s5 \o s6
  BY DEF Rebuild
<1> HIDE DEF s1, s2, s3, s4, s5, s6, W3, W4, W5, W6
<1>5. EachOnce(s1 \o s2, TargetOnly \cup {}) /\ s1 \o s2 \in Seq(Replaced)
  BY <1>1, <1>2, JoinedOnce, ConcatProperties
<1>6. EachOnce(s1 \o s2 \o s3, TargetOnly \cup {} \cup W3) /\ s1 \o s2 \o s3 \in Seq(Replaced)
  BY <1>1, <1>2, <1>3, <1>5, JoinedOnce, ConcatProperties
<1>7. EachOnce(s1 \o s2 \o s3 \o s4, TargetOnly \cup {} \cup W3 \cup W4) /\ s1 \o s2 \o s3 \o s4 \in Seq(Replaced)
  BY <1>1, <1>2, <1>3, <1>6, JoinedOnce, ConcatProperties
<1>8. EachOnce(s1 \o s2 \o s3 \o s4 \o s5, TargetOnly \cup {} \cup W3 \cup W4 \cup W5)
        /\ s1 \o s2 \o s3 \o s4 \o s5 \in Seq(Replaced)
  BY <1>1, <1>2, <1>3, <1>7, JoinedOnce, ConcatProperties
<1>9. EachOnce(s1 \o s2 \o s3 \o s4 \o s5 \o s6, TargetOnly \cup {} \cup W3 \cup W4 \cup W5 \cup W6)
  BY <1>1, <1>2, <1>3, <1>8, JoinedOnce
<1>10. EachOnce(Rebuild, TargetOnly \cup {} \cup W3 \cup W4 \cup W5 \cup W6)
  BY <1>4, <1>9
<1>11. QED
  BY <1>3, <1>10 DEF EachOnce

\* Whatever the artifact wants has a chunk.
LEMMA RebuildCreates ==
  ASSUME TypeOK, Housed(art.vpns, art.objs)
  PROVE  Creates(Rebuild)
<1> DEFINE s1 == ClearTargetOnly
           s2 == CreateVpns
           s3 == Section(At({"logging"}))
           s4 == Section(At({"usernames"}))
           s5 == Section(At(Sections \ {"logging", "usernames"}))
           s6 == VpnChunks
<1>1. Range(Rebuild) = Range(s1) \cup Range(s2) \cup Range(s3) \cup Range(s4) \cup Range(s5) \cup Range(s6)
  <2>1. /\ s1 \in Seq(Replaced) /\ s2 \in Seq(Replaced) /\ s3 \in Seq(Replaced)
        /\ s4 \in Seq(Replaced) /\ s5 \in Seq(Replaced) /\ s6 \in Seq(Replaced)
    BY RebuildParts DEF Sections
  <2>2. Rebuild = s1 \o s2 \o s3 \o s4 \o s5 \o s6
    BY DEF Rebuild
  <2> HIDE DEF s1, s2, s3, s4, s5, s6
  <2> DEFINE t2 == s1 \o s2
             t3 == t2 \o s3
             t4 == t3 \o s4
             t5 == t4 \o s5
  <2>3. t2 \in Seq(Replaced) /\ Range(t2) = Range(s1) \cup Range(s2)
    BY <2>1, RangeConcatenation, ConcatProperties
  <2>4. t3 \in Seq(Replaced) /\ Range(t3) = Range(t2) \cup Range(s3)
    <3> HIDE DEF t2
    <3>1. QED
      BY <2>1, <2>3, RangeConcatenation, ConcatProperties
  <2>5. t4 \in Seq(Replaced) /\ Range(t4) = Range(t3) \cup Range(s4)
    <3> HIDE DEF t3
    <3>1. QED
      BY <2>1, <2>4, RangeConcatenation, ConcatProperties
  <2>6. t5 \in Seq(Replaced) /\ Range(t5) = Range(t4) \cup Range(s5)
    <3> HIDE DEF t4
    <3>1. QED
      BY <2>1, <2>5, RangeConcatenation, ConcatProperties
  <2>7. Rebuild = t5 \o s6
    BY <2>2
  <2> HIDE DEF t2, t3, t4, t5
  <2>8. Range(Rebuild) = Range(t5) \cup Range(s6)
    BY <2>1, <2>6, <2>7, RangeConcatenation
  <2>9. QED
    BY <2>3, <2>4, <2>5, <2>6, <2>8
<1>2. ASSUME NEW S \in SUBSET Sections, NEW o \in art.objs, Home[o] \in S, Applies(o)
      PROVE  \E ch \in Range(Section(At(S))) : o \in ch.make
  <2> DEFINE A == {x \in At(S) \cap art.objs : Applies(x)}
             ch == [kind |-> "section", vpn |-> Default, drop |-> Cleared(A), make |-> A, vpns |-> {}]
  <2>1. o \in A
    BY <1>2 DEF At, TypeOK, Art
  <2>2. Section(At(S)) = <<ch>>
    BY <2>1 DEF Section
  <2>3. o \in ch.make
    BY <2>1
  <2> HIDE DEF A, ch
  <2>4. 1 \in DOMAIN Section(At(S)) /\ Section(At(S))[1] = ch
    BY <2>2
  <2>5. QED
    BY <2>3, <2>4 DEF Range
<1>3. art.vpns # {} => \E ch \in Range(s2) : ch.kind = "vpns"
  <2> SUFFICES ASSUME art.vpns # {} PROVE \E ch \in Range(s2) : ch.kind = "vpns"
    OBVIOUS
  <2>1. Len(s2) = 1 /\ s2 \in Seq(Replaced)
    BY ClearAndCreateOnce, RebuildParts
  <2>2. 1 \in DOMAIN s2 /\ s2[1].kind = "vpns"
    <3>1. 1 \in DOMAIN s2
      BY <2>1, LenProperties
    <3>2. QED
      BY <3>1, ClearAndCreateOnce
  <2>3. QED
    BY <2>2 DEF Range
<1>4. ASSUME NEW o \in art.objs, Applies(o) \/ Home[o] \in Vpns
      PROVE  \E ch \in Range(Rebuild) : o \in ch.make
  <2>1. Home[o] \in Vpns \cup Sections
    BY ShapeAssumption DEF TypeOK, Art
  <2>2. CASE Home[o] \in Vpns
    <3>1. Home[o] \in art.vpns
      BY <2>2 DEF Housed
    <3>2. PICK ch \in Range(s6) : o \in ch.make
      BY <3>1, VpnChunksOnce
    <3> HIDE DEF s1, s2, s3, s4, s5, s6
    <3>3. QED
      BY <1>1, <3>2
  <2>3. CASE Home[o] \in Sections /\ Applies(o)
    <3>1. \/ Home[o] \in {"logging"} \/ Home[o] \in {"usernames"}
          \/ Home[o] \in Sections \ {"logging", "usernames"}
      BY <2>3
    <3>2. \/ \E ch \in Range(s3) : o \in ch.make
          \/ \E ch \in Range(s4) : o \in ch.make
          \/ \E ch \in Range(s5) : o \in ch.make
      <4>1. {"logging"} \subseteq Sections /\ {"usernames"} \subseteq Sections
        BY DEF Sections
      <4>2. QED
        BY <1>2, <2>3, <3>1, <4>1
    <3> HIDE DEF s1, s2, s3, s4, s5, s6
    <3>3. QED
      BY <1>1, <3>2
  <2>4. QED
    BY <1>4, <2>1, <2>2, <2>3
<1>5. art.vpns # {} => \E ch \in Range(Rebuild) : ch.kind = "vpns"
  <2> HIDE DEF s1, s2, s3, s4, s5, s6
  <2>1. QED
    BY <1>1, <1>3
<1>6. QED
  BY <1>4, <1>5 DEF Creates

\* The VPNs are created ahead of what needs them.
LedByVpns(s) ==
  /\ VpnsBefore(s)
  /\ art.vpns # {} => \E i \in DOMAIN s : s[i].kind = "vpns"

LEMMA JoinedLed ==
  ASSUME NEW s \in Seq(Replaced), NEW t \in Seq(Replaced), LedByVpns(s)
  PROVE  LedByVpns(s \o t)
<1> DEFINE u == s \o t
<1>1. /\ Len(s) \in Nat /\ Len(t) \in Nat /\ DOMAIN s = 1..Len(s)
      /\ DOMAIN u = 1..(Len(s) + Len(t))
      /\ \A i \in DOMAIN u : i <= Len(s) => u[i] = s[i]
  BY ConcatProperties, LenProperties
<1> HIDE DEF u
<1>2. \A i \in DOMAIN s : i \in DOMAIN u /\ u[i] = s[i]
  BY <1>1
<1>3. art.vpns # {} => \E i \in DOMAIN u : u[i].kind = "vpns"
  BY <1>2 DEF LedByVpns
<1>4. ASSUME NEW i \in DOMAIN u, u[i].kind \in {"section", "vpn"}, art.vpns # {}
      PROVE  \E j \in DOMAIN u : j < i /\ u[j].kind = "vpns"
  <2>1. CASE i <= Len(s)
    <3>1. i \in DOMAIN s
      BY <1>1, <2>1
    <3>2. PICK j \in DOMAIN s : j < i /\ s[j].kind = "vpns"
      BY <1>2, <1>4, <3>1 DEF LedByVpns, VpnsBefore
    <3>3. QED
      BY <1>2, <3>2
  <2>2. CASE ~(i <= Len(s))
    <3>1. PICK j \in DOMAIN s : s[j].kind = "vpns"
      BY <1>4 DEF LedByVpns
    <3>2. j < i
      BY <1>1, <2>2, <3>1
    <3>3. QED
      BY <1>2, <3>1, <3>2
  <2>3. QED
    BY <2>1, <2>2
<1>5. LedByVpns(u)
  BY <1>3, <1>4 DEF LedByVpns, VpnsBefore
<1>6. QED
  BY <1>5 DEF u

LEMMA RebuildVpnsBefore ==
  ASSUME TypeOK
  PROVE  VpnsBefore(Rebuild)
<1> DEFINE s1 == ClearTargetOnly
           s2 == CreateVpns
           s3 == Section(At({"logging"}))
           s4 == Section(At({"usernames"}))
           s5 == Section(At(Sections \ {"logging", "usernames"}))
           s6 == VpnChunks
<1>1. /\ s1 \in Seq(Replaced) /\ s2 \in Seq(Replaced) /\ s3 \in Seq(Replaced)
      /\ s4 \in Seq(Replaced) /\ s5 \in Seq(Replaced) /\ s6 \in Seq(Replaced)
  BY RebuildParts DEF Sections
<1>2. /\ \A i \in DOMAIN s1 : s1[i].kind = "clear"
      /\ \A i \in DOMAIN s2 : s2[i].kind = "vpns"
      /\ art.vpns # {} => Len(s2) = 1
  BY ClearAndCreateOnce
<1>3. Rebuild = s1 \o s2 \o s3 \o s4 \o s5 \o s6
  BY DEF Rebuild
<1> HIDE DEF s1, s2, s3, s4, s5, s6
<1>4. LedByVpns(s1 \o s2)
  <2> DEFINE t == s1 \o s2
  <2>1. /\ Len(s1) \in Nat /\ Len(s2) \in Nat /\ DOMAIN s1 = 1..Len(s1) /\ DOMAIN s2 = 1..Len(s2)
        /\ DOMAIN t = 1..(Len(s1) + Len(s2))
        /\ \A i \in DOMAIN t : t[i] = IF i <= Len(s1) THEN s1[i] ELSE s2[i - Len(s1)]
    BY <1>1, ConcatProperties, LenProperties
  <2> HIDE DEF t
  <2>2. \A i \in DOMAIN t : /\ i <= Len(s1) => i \in DOMAIN s1 /\ t[i] = s1[i]
                            /\ ~(i <= Len(s1)) => i - Len(s1) \in DOMAIN s2 /\ t[i] = s2[i - Len(s1)]
    BY <2>1
  <2>3. \A i \in DOMAIN t : t[i].kind = "clear" \/ t[i].kind = "vpns"
    BY <1>2, <2>2
  <2>4. ASSUME art.vpns # {} PROVE \E i \in DOMAIN t : t[i].kind = "vpns"
    <3>1. Len(s1) + 1 \in DOMAIN t /\ ~(Len(s1) + 1 <= Len(s1))
      BY <1>2, <2>1, <2>4
    <3>2. QED
      BY <1>2, <2>2, <3>1
  <2>5. LedByVpns(t)
    BY <2>3, <2>4 DEF LedByVpns, VpnsBefore
  <2>6. QED
    BY <2>5 DEF t
<1>5. s1 \o s2 \in Seq(Replaced)
  BY <1>1, ConcatProperties
<1>6. LedByVpns(s1 \o s2 \o s3) /\ s1 \o s2 \o s3 \in Seq(Replaced)
  BY <1>1, <1>4, <1>5, JoinedLed, ConcatProperties
<1>7. LedByVpns(s1 \o s2 \o s3 \o s4) /\ s1 \o s2 \o s3 \o s4 \in Seq(Replaced)
  BY <1>1, <1>6, JoinedLed, ConcatProperties
<1>8. LedByVpns(s1 \o s2 \o s3 \o s4 \o s5) /\ s1 \o s2 \o s3 \o s4 \o s5 \in Seq(Replaced)
  BY <1>1, <1>7, JoinedLed, ConcatProperties
<1>9. LedByVpns(s1 \o s2 \o s3 \o s4 \o s5 \o s6)
  BY <1>1, <1>8, JoinedLed
<1>10. LedByVpns(Rebuild)
  BY <1>3, <1>9
<1>11. QED
  BY <1>10 DEF LedByVpns

\* All the chunks of an import: one teardown for each VPN agreed to, then the rebuild.
LEMMA TeardownsThenRebuild ==
  ASSUME TypeOK, Housed(art.vpns, art.objs), NEW s \in Seq(Chunk), Len(s) = Len(ToCapture),
         \A i \in DOMAIN s : s[i] = PlannedTeardown(ToCapture[i])
  PROVE  WellBuilt(s \o Rebuild)
<1> DEFINE u == s \o Rebuild
           n == Len(s)
<1>1. /\ n \in Nat /\ DOMAIN s = 1..n /\ DOMAIN Rebuild = 1..Len(Rebuild) /\ Len(Rebuild) \in Nat
      /\ DOMAIN u = 1..(n + Len(Rebuild))
      /\ \A i \in DOMAIN u : u[i] = IF i <= n THEN s[i] ELSE Rebuild[i - n]
      /\ Range(u) = Range(s) \cup Range(Rebuild)
  <2>1. Rebuild \in Seq(Chunk)
    BY RebuildType, ChunksType
  <2>2. QED
    BY <2>1, ConcatProperties, LenProperties, RangeConcatenation
<1> HIDE DEF u
<1>2. ToCapture \in Seq(Vpns) /\ Range(ToCapture) = Existing /\ DOMAIN ToCapture = 1..n
  <2>1. ToCapture \in Seq(Vpns) /\ {ToCapture[i] : i \in DOMAIN ToCapture} = Existing
    BY ExistingType
  <2>2. QED
    BY <2>1, LenProperties DEF Range
<1>3. \A i, j \in 1..n : ToCapture[i] = ToCapture[j] => i = j
  <2>1. Existing \in SUBSET Vpns
    BY ExistingType
  <2>2. QED
    BY <1>2, <2>1, ListedOnce DEF ToCapture
<1>4. \A i \in 1..n : u[i] = PlannedTeardown(ToCapture[i]) /\ ToCapture[i] \in Existing
  <2>1. \A i \in 1..n : ToCapture[i] \in Existing
    BY <1>2 DEF Range
  <2>2. \A i \in 1..n : i \in DOMAIN u /\ u[i] = s[i]
    BY <1>1
  <2>3. QED
    BY <1>1, <2>1, <2>2
<1>5. \A v : PlannedTeardown(v).kind = "teardown" /\ PlannedTeardown(v).vpn = v
  BY DEF PlannedTeardown
<1>6. \A i \in 1..n : u[i].kind = "teardown" /\ u[i].vpn = ToCapture[i]
  BY <1>4, <1>5
<1>7. \A i \in DOMAIN u : i \notin 1..n => i - n \in DOMAIN Rebuild /\ u[i] = Rebuild[i - n]
  BY <1>1
<1>8. EachOnce(Rebuild, Objects) /\ VpnsBefore(Rebuild) /\ Creates(Rebuild)
  BY RebuildOnce, RebuildVpnsBefore, RebuildCreates
<1>9. \A i \in DOMAIN Rebuild : Rebuilds(Rebuild[i]) /\ Rebuild[i].kind # "teardown"
  <2>1. \A ch : Rebuilds(ch) => ch.kind # "teardown"
    BY DEF Rebuilds
  <2>2. QED
    BY <1>8, <2>1 DEF EachOnce
<1>10. \A i \in DOMAIN u : u[i].kind = "teardown" => i \in 1..n
  BY <1>7, <1>9
<1>11. TearsFirst(u)
  <2>1. ASSUME NEW i \in DOMAIN u, u[i].kind = "teardown"
        PROVE  /\ u[i] = PlannedTeardown(u[i].vpn) /\ u[i].vpn \in Existing
               /\ \A j \in DOMAIN u : j < i => u[j].kind = "teardown" /\ u[j].vpn # u[i].vpn
    <3>1. i \in 1..n
      BY <1>10, <2>1
    <3>2. u[i] = PlannedTeardown(u[i].vpn) /\ u[i].vpn \in Existing
      BY <1>4, <1>6, <3>1
    <3>3. ASSUME NEW j \in DOMAIN u, j < i
          PROVE  u[j].kind = "teardown" /\ u[j].vpn # u[i].vpn
      <4>1. j \in 1..n /\ j # i
        BY <1>1, <3>1, <3>3
      <4>2. QED
        BY <1>3, <1>6, <3>1, <4>1
    <3>4. QED
      BY <3>2, <3>3
  <2>2. ASSUME NEW v \in Existing PROVE \E ch \in Range(u) : ch.kind = "teardown" /\ ch.vpn = v
    <3>1. PICK i \in 1..n : ToCapture[i] = v
      BY <1>2 DEF Range
    <3>2. i \in DOMAIN u
      BY <1>1, <3>1
    <3>3. u[i] \in Range(u)
      BY <3>2 DEF Range
    <3>4. QED
      BY <1>6, <3>1, <3>3
  <2>3. QED
    BY <2>1, <2>2 DEF TearsFirst
<1>12. RebuildsOnce(u)
  <2>1. \A i \in DOMAIN u : u[i].kind # "teardown" => i \notin 1..n
    BY <1>6
  <2>2. ASSUME NEW i \in DOMAIN u, NEW j \in DOMAIN u, i # j, u[i].kind # "teardown", u[j].kind # "teardown"
        PROVE  Touched(u[i]) \cap Touched(u[j]) = {}
    <3>1. i - n # j - n
      BY <1>1, <2>2
    <3>2. QED
      BY <1>7, <1>8, <2>1, <2>2, <3>1 DEF EachOnce
  <2>3. \A i \in DOMAIN u : u[i].kind # "teardown" => Rebuilds(u[i])
    BY <1>7, <1>9, <2>1
  <2>4. QED
    BY <2>2, <2>3 DEF RebuildsOnce
<1>13. VpnsBefore(u)
  <2> SUFFICES ASSUME NEW i \in DOMAIN u, u[i].kind \in {"section", "vpn"}, art.vpns # {}
               PROVE  \E j \in DOMAIN u : j < i /\ u[j].kind = "vpns"
    BY DEF VpnsBefore
  <2>1. i \notin 1..n
    BY <1>6
  <2>2. PICK j \in DOMAIN Rebuild : j < i - n /\ Rebuild[j].kind = "vpns"
    BY <1>7, <1>8, <2>1 DEF VpnsBefore
  <2>3. j + n \in DOMAIN u /\ j + n < i /\ j + n \notin 1..n /\ (j + n) - n = j
    BY <1>1, <2>2
  <2>4. u[j + n] = Rebuild[j]
    BY <1>7, <2>3
  <2>5. QED
    BY <2>2, <2>3, <2>4
<1>14. Creates(u)
  BY <1>1, <1>8 DEF Creates
<1>15. WellBuilt(u)
  BY <1>11, <1>12, <1>13, <1>14 DEF WellBuilt
<1>16. QED
  BY <1>15 DEF u

-------------------------------------------------------------------------------
(* Whatever is in a message-VPN is in one that is there *)

LEMMA InitHoused == Init => EverythingHoused
<1> SUFFICES ASSUME Init PROVE EverythingHoused
  OBVIOUS
<1>1. \A c \in Sources \cup Targets : Housed(c.vpns, There(c))
  <2> SUFFICES ASSUME NEW c \in Sources \cup Targets, NEW o \in There(c), Home[o] \in Vpns
               PROVE  Home[o] \in c.vpns
    BY DEF Housed
  <2>1. o \in Objects /\ c.has[o] # "none"
    BY DEF There
  <2>2. QED
    BY <2>1, ObjectsAreHoused
<1>2. ASSUME NEW s \in Sources, NEW sc \in Scopes, NEW a \in BOOLEAN
      PROVE  Housed(Exported(s, sc, a).vpns, Exported(s, sc, a).objs)
  BY <1>1 DEF Housed, Exported
<1>3. ASSUME NEW s \in Sources, NEW b \in BOOLEAN
      PROVE  Housed(Edited(s, b).vpns, Edited(s, b).objs)
  BY <1>1 DEF Housed, Edited
<1>4. Housed(art.vpns, art.objs)
  BY <1>2, <1>3 DEF Init
<1>5. Housed(conf.vpns, There(conf)) /\ Housed(plan.vpns, plan.objs)
  BY <1>1 DEF Init, Housed
<1>6. TeardownsOnlyTake(chunks) /\ TeardownsOnlyTake(script)
  BY DEF Init, TeardownsOnlyTake
<1>7. QED
  BY <1>4, <1>5, <1>6 DEF EverythingHoused

\* Lines that write nothing into a VPN that is not there leave nothing in one.
LEMMA AfterHoused ==
  ASSUME NEW c \in Conf, Housed(c.vpns, There(c)), NEW ch \in Chunk, NEW D, NEW M, NEW V, NEW whole,
         Housed(c.vpns, M), ch.kind = "teardown" /\ whole => M = {}
  PROVE  Housed(After(c, ch, D, M, V, whole).vpns, There(After(c, ch, D, M, V, whole)))
<1> DEFINE e == After(c, ch, D, M, V, whole)
           cut == whole /\ ch.kind = "teardown" /\ ch.vpn # Default
<1>1. /\ e.vpns = (IF cut THEN c.vpns \ {ch.vpn} ELSE c.vpns) \cup V
      /\ \A o \in Objects : e.has[o] = IF o \in M THEN Written(o)
                                       ELSE IF o \in D \/ (cut /\ Home[o] = ch.vpn) THEN "none" ELSE c.has[o]
  BY DEF After
<1> HIDE DEF e
<1>2. SUFFICES ASSUME NEW o \in Objects, e.has[o] # "none", Home[o] \in Vpns
               PROVE  Home[o] \in e.vpns
  BY DEF Housed, There, e
<1>3. CASE o \in M
  BY <1>1, <1>2, <1>3 DEF Housed
<1>4. CASE o \notin M
  <2>1. c.has[o] # "none" /\ ~(cut /\ Home[o] = ch.vpn)
    BY <1>1, <1>2, <1>4
  <2>2. Home[o] \in c.vpns
    BY <1>2, <2>1 DEF Housed, There
  <2>3. QED
    BY <1>1, <2>1, <2>2
<1>5. QED
  BY <1>3, <1>4

LEMMA BrokerHoused ==
  ASSUME NEW c \in Conf, Housed(c.vpns, There(c)), NEW ch \in Chunk, ch.kind = "teardown" => ch.make = {}
  PROVE  /\ Accepts(c, ch) => Housed(Whole(c, ch).vpns, There(Whole(c, ch)))
         /\ \A e \in Parts(c, ch) : Housed(e.vpns, There(e))
<1>1. ASSUME Accepts(c, ch) PROVE Housed(Whole(c, ch).vpns, There(Whole(c, ch)))
  <2>1. Housed(c.vpns, ch.make)
    <3>1. Refused(c, ch) = {}
      BY <1>1 DEF Accepts
    <3>2. QED
      BY <3>1 DEF Refused, Housed
  <2>2. QED
    BY <2>1, AfterHoused DEF Whole
<1>2. Housed(c.vpns, {})
  BY DEF Housed
<1>3. ASSUME NEW s \in ch.drop \cup ch.make, \A r \in Refused(c, ch) : Rank[s] <= Rank[r],
             NEW e \in StopsAt(c, ch, s)
      PROVE  Housed(e.vpns, There(e))
  <2> DEFINE D == {o \in ch.drop : Rank[o] < Rank[s]}
             M == {o \in ch.make : Rank[o] < Rank[s]}
  <2>1. PICK X : e = After(c, ch, D \cup X, M, {}, FALSE)
    BY <1>3 DEF StopsAt
  <2>2. Housed(c.vpns, M)
    <3> SUFFICES ASSUME NEW o \in ch.make, Rank[o] < Rank[s], Home[o] \in Vpns, Home[o] \notin c.vpns
                 PROVE  FALSE
      BY DEF Housed
    <3>1. o \in Refused(c, ch)
      BY DEF Refused
    <3>2. Rank[s] \in Nat /\ Rank[o] \in Nat
      BY ShapeAssumption DEF Chunk
    <3>3. QED
      BY <1>3, <3>1, <3>2
  <2> HIDE DEF D, M
  <2>3. QED
    BY <2>1, <2>2, AfterHoused
<1>4. \A V \in SUBSET ch.vpns :
        LET e == After(c, ch, {}, {}, V, FALSE) IN Housed(e.vpns, There(e))
  BY <1>2, AfterHoused
<1>5. LET e == After(c, ch, ch.drop, {}, {}, FALSE) IN Housed(e.vpns, There(e))
  BY <1>2, AfterHoused
<1>6. ASSUME NEW e \in Parts(c, ch) PROVE Housed(e.vpns, There(e))
  <2>1. \/ \E s \in {o \in ch.drop \cup ch.make : \A r \in Refused(c, ch) : Rank[o] <= Rank[r]} :
              e \in StopsAt(c, ch, s)
        \/ \E V \in SUBSET ch.vpns : e = After(c, ch, {}, {}, V, FALSE)
        \/ e = After(c, ch, ch.drop, {}, {}, FALSE)
    BY DEF Parts
  <2>2. QED
    BY <1>3, <1>4, <1>5, <2>1
<1>7. QED
  BY <1>1, <1>6

LEMMA NextHoused ==
  ASSUME TypeOK, EverythingHoused, [Next]_vars
  PROVE  EverythingHoused'
<1> USE DEF brokerVars, driverVars, historyVars, boundVars
<1>0. script \in Seq(Chunk) /\ chunks \in Seq(Chunk) /\ conf \in Conf
  BY DEF TypeOK
<1>1. ASSUME UNCHANGED <<art, conf, plan>>, TeardownsOnlyTake(chunks'), TeardownsOnlyTake(script')
      PROVE  EverythingHoused'
  BY <1>1 DEF EverythingHoused, Housed, There, TeardownsOnlyTake
<1>2. ASSUME NEW e \in Conf, conf' = e, Housed(e.vpns, There(e)), UNCHANGED <<art, plan, chunks, script>>
      PROVE  EverythingHoused'
  BY <1>2 DEF EverythingHoused, Housed, There, TeardownsOnlyTake
<1>3. CASE Plan
  <2>1. /\ UNCHANGED <<art, conf, chunks, script>>
        /\ plan' = plan \/ plan' = [vpns |-> conf.vpns, objs |-> There(conf)]
    BY <1>3 DEF Plan
  <2>2. Housed(plan'.vpns, plan'.objs)
    BY <2>1 DEF EverythingHoused
  <2>3. QED
    BY <2>1, <2>2 DEF EverythingHoused, Housed, There, TeardownsOnlyTake
<1>4. CASE Answer
  <2>1. chunks' = <<>> /\ UNCHANGED <<art, conf, plan, script>>
    BY <1>4 DEF Answer
  <2>2. QED
    BY <1>1, <2>1 DEF EverythingHoused, TeardownsOnlyTake
<1>5. CASE Capture
  <2> DEFINE ch == Teardown(ToCapture[Len(chunks) + 1])
  <2>1. UNCHANGED <<art, conf, plan, script>> /\ chunks' \in {chunks, Append(chunks, ch)}
    BY <1>5 DEF Capture
  <2>2. ch.make = {}
    BY DEF Teardown
  <2> HIDE DEF ch
  <2>3. TeardownsOnlyTake(chunks')
    <3>1. CASE chunks' = chunks
      BY <3>1 DEF EverythingHoused
    <3>2. CASE chunks' = Append(chunks, ch)
      BY <1>0, <2>2, <3>2 DEF EverythingHoused, TeardownsOnlyTake
    <3>3. QED
      BY <2>1, <3>1, <3>2
  <2>4. QED
    BY <1>1, <2>1, <2>3 DEF EverythingHoused
<1>6. CASE Build
  <2>1. chunks' = chunks \o Rebuild /\ UNCHANGED <<art, conf, plan, script>>
    BY <1>6 DEF Build
  <2>2. Rebuild \in Seq(Replaced) /\ Rebuild \in Seq(Chunk)
    BY RebuildType, ChunksType
  <2>3. \A i \in DOMAIN Rebuild : Rebuild[i].kind # "teardown"
    BY <2>2, LenProperties, ElementOfSeq DEF Replaced
  <2>4. /\ Len(chunks) \in Nat /\ DOMAIN chunks = 1..Len(chunks)
        /\ DOMAIN Rebuild = 1..Len(Rebuild) /\ Len(Rebuild) \in Nat
        /\ DOMAIN chunks' = 1..(Len(chunks) + Len(Rebuild))
        /\ \A i \in DOMAIN chunks' : chunks'[i] = IF i <= Len(chunks) THEN chunks[i] ELSE Rebuild[i - Len(chunks)]
    BY <1>0, <2>1, <2>2, ConcatProperties, LenProperties
  <2>5. TeardownsOnlyTake(chunks')
    <3> SUFFICES ASSUME NEW i \in DOMAIN chunks', chunks'[i].kind = "teardown" PROVE chunks'[i].make = {}
      BY DEF TeardownsOnlyTake
    <3>1. i <= Len(chunks)
      <4>1. ~(i <= Len(chunks)) => i - Len(chunks) \in DOMAIN Rebuild
        BY <2>4
      <4>2. QED
        BY <2>3, <2>4, <4>1
    <3>2. i \in DOMAIN chunks /\ chunks'[i] = chunks[i]
      BY <2>4, <3>1
    <3>3. QED
      BY <3>2 DEF EverythingHoused, TeardownsOnlyTake
  <2>6. QED
    BY <1>1, <2>1, <2>5 DEF EverythingHoused
<1>7. CASE Upload
  <2>1. script' \in {script, chunks} /\ UNCHANGED <<art, conf, plan, chunks>>
    BY <1>7 DEF Upload
  <2>2. QED
    BY <1>1, <2>1 DEF EverythingHoused, TeardownsOnlyTake
<1>8. CASE ApplyChunk \/ RefuseChunk
  <2>1. /\ UNCHANGED <<art, plan, chunks, script>> /\ at \in DOMAIN script
        /\ \/ Accepts(conf, script[at]) /\ conf' = Whole(conf, script[at])
           \/ conf' \in Parts(conf, script[at])
    BY <1>0, <1>8 DEF ApplyChunk, RefuseChunk, Changed, TypeOK
  <2>2. script[at] \in Chunk /\ (script[at].kind = "teardown" => script[at].make = {})
    BY <1>0, <2>1 DEF EverythingHoused, TeardownsOnlyTake
  <2>3. Housed(conf.vpns, There(conf))
    BY DEF EverythingHoused
  <2>4. conf' \in Conf
    BY <1>0, <2>1, <2>2, BrokerType
  <2>5. PICK e \in Conf : e = conf'
    BY <2>4
  <2>6. Housed(e.vpns, There(e))
    BY <1>0, <2>1, <2>2, <2>3, <2>5, BrokerHoused
  <2>7. QED
    BY <1>2, <2>1, <2>5, <2>6
<1>9. CASE Meddle
  <2>1. UNCHANGED <<art, plan, chunks, script>>
    BY <1>9 DEF Meddle
  <2>2. \A o \in Objects : conf.has[o] # "none" /\ Home[o] \in Vpns => Home[o] \in conf.vpns
    BY DEF EverythingHoused, Housed, There
  <2>3. conf' \in Conf /\ \A o \in Objects : conf'.has[o] # "none" /\ Home[o] \in Vpns => Home[o] \in conf'.vpns
    <3>1. ASSUME NEW x \in Objects, Home[x] \in Vpns => Home[x] \in conf.vpns, NEW w \in Versions,
                 conf' = [conf EXCEPT !.has = [conf.has EXCEPT ![x] = w]]
          PROVE  conf' \in Conf /\ \A o \in Objects : conf'.has[o] # "none" /\ Home[o] \in Vpns => Home[o] \in conf'.vpns
      BY <1>0, <2>2, <3>1 DEF Conf
    <3>2. ASSUME NEW v \in Vpns, conf' = [conf EXCEPT !.vpns = conf.vpns \cup {v}]
          PROVE  conf' \in Conf /\ \A o \in Objects : conf'.has[o] # "none" /\ Home[o] \in Vpns => Home[o] \in conf'.vpns
      BY <1>0, <2>2, <3>2 DEF Conf
    <3>3. ASSUME NEW v \in Vpns,
                 conf' = [vpns |-> conf.vpns \ {v},
                          has |-> [o \in Objects |-> IF Home[o] = v THEN "none" ELSE conf.has[o]]]
          PROVE  conf' \in Conf /\ \A o \in Objects : conf'.has[o] # "none" /\ Home[o] \in Vpns => Home[o] \in conf'.vpns
      BY <1>0, <2>2, <3>3 DEF Conf, Versions
    <3>4. QED
      BY <1>0, <1>9, <3>1, <3>2, <3>3 DEF Meddle, Versions, Conf
  <2>4. PICK e \in Conf : e = conf'
    BY <2>3
  <2>5. Housed(e.vpns, There(e))
    BY <2>3, <2>4 DEF Housed, There
  <2>6. QED
    BY <1>2, <2>1, <2>4, <2>5
<1>10. CASE Finish \/ Break \/ Collect \/ Verify \/ Kill \/ Die \/ UNCHANGED vars
  <2>1. UNCHANGED <<art, conf, plan, chunks, script>>
    BY <1>10 DEF Finish, Break, Collect, Verify, Kill, Die, vars
  <2>2. QED
    BY <1>1, <2>1 DEF EverythingHoused
<1>11. QED
  BY <1>3, <1>4, <1>5, <1>6, <1>7, <1>8, <1>9, <1>10 DEF Next

LEMMA AlwaysHoused == Spec => []EverythingHoused
<1>1. EverythingHoused /\ TypeOK /\ [Next]_vars => EverythingHoused'
  BY NextHoused
<1>2. QED
  BY <1>1, InitHoused, TypeCorrect, PTL DEF Spec

-------------------------------------------------------------------------------
(* One chunk after the other *)

\* What a teardown is about, no chunk before it was.
LEMMA TeardownAhead ==
  ASSUME TypeOK, WellBuilt(chunks), at \in DOMAIN chunks, chunks[at].kind = "teardown"
  PROVE  /\ chunks[at] = PlannedTeardown(chunks[at].vpn)
         /\ chunks[at].vpn \in Existing \ TornBehind
         /\ \A o \in InVpn(chunks[at].vpn) : Untouched(o)
         /\ \A j \in Behind : chunks[j].kind = "teardown" /\ chunks[j].make = {}
<1>1. /\ chunks[at] = PlannedTeardown(chunks[at].vpn) /\ chunks[at].vpn \in Existing
      /\ \A j \in Behind : chunks[j].kind = "teardown" /\ chunks[j].vpn # chunks[at].vpn
  BY DEF WellBuilt, TearsFirst, Behind
<1>2. chunks[at].vpn \notin TornBehind
  BY <1>1 DEF TornBehind
<1>3. \A j \in Behind : chunks[j] = PlannedTeardown(chunks[j].vpn)
  BY <1>1 DEF WellBuilt, TearsFirst, Behind
<1>4. \A v : PlannedTeardown(v).make = {} /\ PlannedTeardown(v).drop \subseteq InVpn(v)
  BY DEF PlannedTeardown
<1>5. \A j \in Behind : chunks[j].make = {} /\ Touched(chunks[j]) \subseteq InVpn(chunks[j].vpn)
  BY <1>3, <1>4 DEF Touched
<1>6. ASSUME NEW o \in InVpn(chunks[at].vpn) PROVE Untouched(o)
  BY <1>1, <1>2, <1>5 DEF Untouched, InVpn
<1>7. QED
  BY <1>1, <1>2, <1>5, <1>6

\* What a chunk of the rebuild is about, no chunk of the rebuild before it was: it can only
\* have gone with its VPN.
LEMMA RebuildAhead ==
  ASSUME TypeOK, WellBuilt(chunks), at \in DOMAIN chunks, chunks[at].kind # "teardown"
  PROVE  /\ Rebuilds(chunks[at])
         /\ \A j \in Behind : \A o \in chunks[j].make : o \notin Touched(chunks[at])
         /\ \A o \in Touched(chunks[at]) : Unmade(o) /\ (Home[o] \notin TornBehind => Untouched(o))
<1>1. Rebuilds(chunks[at])
  BY DEF WellBuilt, RebuildsOnce
<1>2. ASSUME NEW j \in Behind, NEW o \in Touched(chunks[at]), o \in Touched(chunks[j])
      PROVE  chunks[j].kind = "teardown" /\ chunks[j].make = {} /\ Home[o] = chunks[j].vpn
  <2>1. j \in DOMAIN chunks /\ j # at
    BY DEF Behind, TypeOK
  <2>2. chunks[j].kind = "teardown"
    BY <1>2, <2>1 DEF WellBuilt, RebuildsOnce
  <2>3. chunks[j] = PlannedTeardown(chunks[j].vpn)
    BY <2>1, <2>2 DEF WellBuilt, TearsFirst
  <2>4. chunks[j].make = {} /\ chunks[j].drop \subseteq InVpn(chunks[j].vpn)
    BY <2>3 DEF PlannedTeardown
  <2>5. QED
    BY <1>2, <2>2, <2>4 DEF Touched, InVpn
<1>3. \A j \in Behind : \A o \in chunks[j].make : o \notin Touched(chunks[at])
  BY <1>2 DEF Touched
<1>4. ASSUME NEW o \in Touched(chunks[at])
      PROVE  Unmade(o) /\ (Home[o] \notin TornBehind => Untouched(o))
  <2>1. Unmade(o)
    BY <1>3 DEF Unmade
  <2>2. ASSUME Home[o] \notin TornBehind PROVE Untouched(o)
    BY <1>2, <2>2 DEF Untouched, TornBehind
  <2>3. QED
    BY <2>1, <2>2
<1>5. QED
  BY <1>1, <1>3, <1>4

LEMMA TornAgreed ==
  ASSUME TypeOK, WellBuilt(chunks)
  PROVE  TornBehind \subseteq Existing /\ TornBehind \subseteq Vpns
<1>1. TornBehind \subseteq Existing
  BY DEF TornBehind, Behind, WellBuilt, TearsFirst
<1>2. QED
  BY <1>1, ExistingType

\* By the time the rebuild begins, every VPN agreed to is torn down.
LEMMA AllTornBehind ==
  ASSUME TypeOK, WellBuilt(chunks), at \in DOMAIN chunks, chunks[at].kind # "teardown"
  PROVE  Existing \subseteq TornBehind
<1> SUFFICES ASSUME NEW v \in Existing PROVE v \in TornBehind
  OBVIOUS
<1>1. PICK k \in DOMAIN chunks : chunks[k].kind = "teardown" /\ chunks[k].vpn = v
  BY DEF WellBuilt, TearsFirst, Range
<1>2. DOMAIN chunks = 1..Len(chunks) /\ Len(chunks) \in Nat
  BY LenProperties DEF TypeOK
<1>3. ~(at < k) /\ k # at
  BY <1>1 DEF WellBuilt, TearsFirst
<1>4. k \in Behind
  BY <1>2, <1>3 DEF Behind
<1>5. QED
  BY <1>1, <1>4 DEF TornBehind

\* With no CLI users and the VPN of the virtual hostnames there or to come, the broker
\* refuses no line of the next chunk.
LEMMA NextChunkAccepted ==
  ASSUME TypeOK, EverythingHoused, WellBuilt(chunks), Progress, at \in DOMAIN chunks,
         NoUsers, Applicable
  PROVE  Accepts(conf, chunks[at])
<1> DEFINE ch == chunks[at]
<1>1. ch \in Chunk /\ ch.drop \subseteq Objects /\ ch.make \subseteq Objects
  <2>1. chunks \in Seq(Chunk)
    BY DEF TypeOK
  <2>2. chunks[at] \in Chunk
    BY <2>1
  <2>3. QED
    BY <2>2 DEF Chunk
<1>2. /\ Vpns \cap Sections = {} /\ \A o \in Objects : Home[o] \in Vpns \cup Sections
      /\ \A o \in Objects : Kind[o] = "host" => Home[o] \in Sections
  BY ShapeAssumption
<1>3. TornBehind \subseteq Existing /\ TornBehind \subseteq Vpns
  BY TornAgreed
<1>4. \A o \in Objects : Untouched(o) => (conf.has[o] # "none" <=> o \in plan.objs)
  BY DEF Progress
<1>5. plan.vpns \ TornBehind \subseteq conf.vpns
  BY DEF Progress
<1> HIDE DEF ch
<1>6. CASE ch.kind = "teardown"
  <2>1. /\ ch = PlannedTeardown(ch.vpn) /\ ch.vpn \in Existing \ TornBehind
        /\ \A o \in InVpn(ch.vpn) : Untouched(o)
    BY <1>6, TeardownAhead DEF ch
  <2>2. /\ ch.drop = {o \in InVpn(ch.vpn) \cap plan.objs : Kind[o] # "fixed"}
        /\ ch.make = {}
    BY <2>1 DEF PlannedTeardown
  <2>3. ch.vpn \in conf.vpns
    BY <1>5, <2>1 DEF Existing
  <2>4. Refused(conf, ch) = {}
    <3>1. \A o \in ch.drop : conf.has[o] # "none" /\ Home[o] = ch.vpn
      BY <1>1, <1>4, <2>1, <2>2 DEF InVpn
    <3>2. QED
      BY <2>2, <2>3, <3>1 DEF Refused
  <2>5. ~VpnStays(conf, ch)
    <3>1. \A o \in InVpn(ch.vpn) : conf.has[o] # "none" /\ Kind[o] # "fixed" => o \in ch.drop
      BY <1>4, <2>1, <2>2 DEF InVpn
    <3>2. QED
      BY <2>3, <3>1 DEF VpnStays
  <2>6. QED
    BY <2>4, <2>5 DEF Accepts, ch
<1>7. CASE ch.kind # "teardown"
  <2>1. /\ Rebuilds(ch)
        /\ \A o \in Touched(ch) : Unmade(o) /\ (Home[o] \notin TornBehind => Untouched(o))
    BY <1>7, RebuildAhead DEF ch
  <2>2. \A o \in Touched(ch) : Home[o] \in Sections => (conf.has[o] # "none" <=> o \in plan.objs)
    BY <1>1, <1>2, <1>3, <1>4, <2>1 DEF Touched
  <2>3. ch.kind \in {"section", "vpn"} => art.vpns \subseteq conf.vpns
    <3> SUFFICES ASSUME ch.kind \in {"section", "vpn"}, art.vpns # {} PROVE art.vpns \subseteq conf.vpns
      OBVIOUS
    <3>1. PICK j \in DOMAIN chunks : j < at /\ chunks[j].kind = "vpns"
      BY DEF WellBuilt, VpnsBefore, ch
    <3>2. QED
      BY <3>1 DEF Progress, Behind
  <2>4. CASE ch.kind = "clear"
    <3>1. ch.drop = TargetOnly /\ ch.make = {}
      BY <2>1, <2>4 DEF Rebuilds
    <3>2. \A o \in ch.drop : Home[o] \in Sections /\ conf.has[o] # "none"
      BY <1>1, <1>2, <2>2, <3>1 DEF TargetOnly, Touched
    <3>3. QED
      BY <1>2, <1>7, <3>1, <3>2 DEF Accepts, Refused, VpnStays, ch
  <2>5. CASE ch.kind = "vpns"
    BY <1>7, <2>1, <2>5 DEF Rebuilds, Accepts, Refused, VpnStays, ch
  <2>6. CASE ch.kind = "section"
    <3>1. /\ ch.drop = Cleared(ch.make) /\ ch.make \subseteq art.objs /\ \A o \in ch.make : Home[o] \in Sections
      BY <2>1, <2>6 DEF Rebuilds
    <3>2. \A o \in ch.make : conf.has[o] # "none" <=> o \in plan.objs
      BY <2>2, <3>1 DEF Touched
    <3>3. \A o \in ch.drop : o \in ch.make /\ conf.has[o] # "none"
      BY <3>1, <3>2 DEF Cleared
    <3>4. ASSUME NEW o \in ch.make, Kind[o] \in {"create", "guarded", "host", "bridge"}, conf.has[o] # "none"
          PROVE  o \in ch.drop
      <4>1. Kind[o] \in {"guarded", "host"}
        BY <1>1, <1>2, <3>1, <3>4 DEF NoUsers
      <4>2. QED
        BY <3>1, <3>2, <3>4, <4>1 DEF Cleared
    <3>5. ASSUME NEW o \in ch.make, Kind[o] = "host" PROVE HostVpn \in conf.vpns
      <4>1. HostVpn \in art.vpns \cup plan.vpns
        BY <3>1, <3>5 DEF Applicable
      <4>2. CASE HostVpn \in art.vpns
        BY <2>3, <2>6, <4>2
      <4>3. CASE HostVpn \notin art.vpns
        BY <1>3, <1>5, <4>1, <4>3 DEF Existing
      <4>4. QED
        BY <4>2, <4>3
    <3>6. \A o \in ch.make \cup ch.drop : Home[o] \notin Vpns
      BY <1>2, <3>1, <3>3
    <3>7. Refused(conf, ch) = {}
      BY <3>3, <3>4, <3>5, <3>6 DEF Refused
    <3>8. QED
      BY <1>7, <3>7 DEF Accepts, VpnStays, ch
  <2>7. CASE ch.kind = "vpn"
    <3>1. ch.drop = {} /\ ch.make = InVpn(ch.vpn) \cap art.objs /\ ch.vpn \in art.vpns
      BY <2>1, <2>7 DEF Rebuilds
    <3>2. \A o \in ch.make : o \in Objects /\ Home[o] = ch.vpn
      BY <3>1 DEF InVpn
    <3>3. ch.vpn \in conf.vpns /\ ch.vpn \in Vpns
      BY <2>3, <2>7, <3>1 DEF TypeOK, Art
    <3>4. ASSUME NEW o \in ch.make PROVE Kind[o] = "fixed" \/ conf.has[o] = "none"
      <4>1. CASE ch.vpn \in TornBehind
        BY <2>1, <3>2, <4>1 DEF Progress, Touched
      <4>2. CASE ch.vpn \notin TornBehind
        <5>1. ch.vpn \notin plan.vpns
          BY <1>7, <3>1, <4>2, AllTornBehind DEF Existing, ch
        <5>2. o \notin plan.objs
          BY <3>2, <3>3, <5>1 DEF EverythingHoused, Housed
        <5>3. Untouched(o)
          BY <2>1, <3>2, <4>2 DEF Touched
        <5>4. QED
          BY <1>4, <3>2, <5>2, <5>3
      <4>3. QED
        BY <4>1, <4>2
    <3>5. \A o \in ch.make : Kind[o] # "host"
      BY <1>2, <3>2, <3>3
    <3>6. Refused(conf, ch) = {}
      BY <3>1, <3>2, <3>3, <3>4, <3>5 DEF Refused
    <3>7. QED
      BY <1>7, <3>6 DEF Accepts, VpnStays, ch
  <2>8. QED
    BY <2>1, <2>4, <2>5, <2>6, <2>7 DEF Rebuilds
<1>8. QED
  BY <1>6, <1>7

\* When a chunk has gone through, the broker is where the next one expects it.
LEMMA ChunkProgress ==
  ASSUME TypeOK, WellBuilt(chunks), Progress, at \in DOMAIN chunks,
         conf' = Whole(conf, chunks[at]), at' = at + 1, UNCHANGED <<art, plan, chunks>>
  PROVE  Progress'
<1> DEFINE ch == chunks[at]
           tears == ch.kind = "teardown"
           cut == tears /\ ch.vpn # Default
<1>1. at \in Nat /\ DOMAIN chunks \subseteq Nat
  BY LenProperties DEF TypeOK
<1>2. Behind' = Behind \cup {at} /\ at \notin Behind
  BY <1>1 DEF Behind
<1>3. TornBehind' = TornBehind \cup (IF tears THEN {ch.vpn} ELSE {})
  BY <1>2 DEF TornBehind
<1>4. \A o : Untouched(o)' <=> Untouched(o) /\ o \notin Touched(ch) /\ (tears => Home[o] # ch.vpn)
  BY <1>2, <1>3 DEF Untouched, Touched
<1>5. \A o : Unmade(o)' <=> Unmade(o) /\ o \notin ch.make
  BY <1>2 DEF Unmade
<1>6. /\ conf'.vpns = (IF cut THEN conf.vpns \ {ch.vpn} ELSE conf.vpns) \cup ch.vpns
      /\ \A o \in Objects : conf'.has[o] = IF o \in ch.make THEN Written(o)
                                           ELSE IF o \in ch.drop \/ (cut /\ Home[o] = ch.vpn) THEN "none"
                                           ELSE conf.has[o]
  BY DEF Whole, After
<1>7. \A j \in Behind : chunks[j].make \subseteq Objects
  <2>1. \A j \in DOMAIN chunks : chunks[j] \in Chunk
    BY DEF TypeOK
  <2>2. QED
    BY <2>1 DEF Behind, Chunk
<1>8. ch.make \subseteq Objects
  <2>1. \A j \in DOMAIN chunks : chunks[j] \in Chunk
    BY DEF TypeOK
  <2>2. QED
    BY <2>1 DEF Chunk
<1>9. tears => /\ ch.drop = {o \in InVpn(ch.vpn) \cap plan.objs : Kind[o] # "fixed"} /\ ch.make = {}
               /\ ch.vpn \in Existing \ TornBehind
               /\ \A o \in InVpn(ch.vpn) : Untouched(o)
               /\ \A j \in Behind : chunks[j].kind = "teardown" /\ chunks[j].make = {}
  <2> SUFFICES ASSUME tears
               PROVE  /\ ch.drop = {o \in InVpn(ch.vpn) \cap plan.objs : Kind[o] # "fixed"} /\ ch.make = {}
                      /\ ch.vpn \in Existing \ TornBehind
                      /\ \A o \in InVpn(ch.vpn) : Untouched(o)
                      /\ \A j \in Behind : chunks[j].kind = "teardown" /\ chunks[j].make = {}
    OBVIOUS
  <2>1. /\ ch = PlannedTeardown(ch.vpn) /\ ch.vpn \in Existing \ TornBehind
        /\ \A o \in InVpn(ch.vpn) : Untouched(o)
        /\ \A j \in Behind : chunks[j].kind = "teardown" /\ chunks[j].make = {}
    BY TeardownAhead
  <2> HIDE DEF ch
  <2>2. ch.drop = {o \in InVpn(ch.vpn) \cap plan.objs : Kind[o] # "fixed"} /\ ch.make = {}
    BY <2>1 DEF PlannedTeardown
  <2>3. QED
    BY <2>1, <2>2
<1>10. ~tears => Rebuilds(ch) /\ \A j \in Behind : \A o \in chunks[j].make : o \notin Touched(ch)
  BY RebuildAhead
<1> HIDE DEF ch
<1>11. \A o \in Objects : Untouched(o)' => (conf'.has[o] # "none" <=> o \in plan'.objs)
  BY <1>4, <1>6 DEF Progress, Touched
<1>12. \A j \in Behind' : \A o \in chunks'[j].make : conf'.has[o] = Written(o)
  <2>1. ASSUME NEW j \in Behind, NEW o \in chunks[j].make PROVE conf'.has[o] = Written(o)
    <3>1. ~tears /\ o \notin Touched(ch)
      BY <1>9, <1>10, <2>1
    <3>2. conf'.has[o] = conf.has[o]
      BY <1>6, <1>7, <3>1 DEF Touched
    <3>3. QED
      BY <3>2 DEF Progress
  <2>2. \A o \in ch.make : conf'.has[o] = Written(o)
    BY <1>6, <1>8
  <2>3. QED
    BY <1>2, <2>1, <2>2 DEF ch
<1>13. ASSUME NEW o \in Objects, Home[o] \in TornBehind', Unmade(o)'
       PROVE  Kind[o] = "fixed" \/ conf'.has[o] = "none"
  <2>1. Unmade(o) /\ o \notin ch.make
    BY <1>5, <1>13
  <2>2. CASE Home[o] \in TornBehind
    BY <1>6, <2>1, <2>2 DEF Progress
  <2>3. CASE Home[o] \notin TornBehind
    <3>1. tears /\ Home[o] = ch.vpn
      BY <1>3, <1>13, <2>3
    <3>2. Untouched(o)
      BY <1>9, <3>1 DEF InVpn
    <3>3. CASE o \in ch.drop
      BY <1>6, <2>1, <3>3
    <3>4. CASE o \notin ch.drop
      <4>1. Kind[o] = "fixed" \/ o \notin plan.objs
        BY <1>9, <3>1, <3>4 DEF InVpn
      <4>2. o \notin plan.objs => conf.has[o] = "none"
        BY <3>2 DEF Progress
      <4>3. QED
        BY <1>6, <2>1, <3>4, <4>1, <4>2
    <3>5. QED
      BY <3>3, <3>4
  <2>4. QED
    BY <2>2, <2>3
<1>14. plan'.vpns \ TornBehind' \subseteq conf'.vpns
  BY <1>3, <1>6 DEF Progress
<1>15. \A j \in Behind' : chunks'[j].kind = "vpns" => art'.vpns \subseteq conf'.vpns
  <2>1. ASSUME NEW j \in Behind, chunks[j].kind = "vpns" PROVE art.vpns \subseteq conf'.vpns
    <3>1. ~tears
      BY <1>9, <2>1
    <3>2. QED
      BY <1>6, <2>1, <3>1 DEF Progress
  <2>2. ch.kind = "vpns" => art.vpns \subseteq conf'.vpns
    <3>1. ch.kind = "vpns" => ch.vpns = art.vpns
      BY <1>10 DEF Rebuilds
    <3>2. QED
      BY <1>6, <3>1
  <2>3. QED
    BY <1>2, <2>1, <2>2 DEF ch
<1>16. QED
  BY <1>11, <1>12, <1>13, <1>14, <1>15 DEF Progress

\* At the end of the script, what the artifact wants is there, and its VPNs hold
\* nothing else but what cannot be deleted.
LEMMA ScriptDelivers ==
  ASSUME TypeOK, EverythingHoused, WellBuilt(chunks),
         chunks # <<>> => at = Len(chunks) + 1 /\ Progress
  PROVE  /\ (\A o \in art.objs : ~Unclassified(o)) => Matches
         /\ \A v \in art.vpns : \A o \in InVpn(v) :
              IF o \in art.objs THEN conf.has[o] = Written(o) ELSE Kind[o] = "fixed" \/ conf.has[o] = "none"
<1>1. art.objs \subseteq Objects /\ art.vpns \subseteq Vpns /\ chunks \in Seq(Chunk)
  BY DEF TypeOK, Art
<1>2. CASE chunks = <<>>
  <2>1. Range(chunks) = {}
    BY <1>2 DEF Range
  <2>2. art.vpns = {} /\ \A o \in art.objs : ~Applies(o)
    BY <2>1 DEF WellBuilt, Creates
  <2>3. (\A o \in art.objs : ~Unclassified(o)) => Wanted = {}
    BY <2>2 DEF Wanted, Ignored, Applies
  <2>4. QED
    BY <2>2, <2>3 DEF Matches
<1>3. CASE chunks # <<>>
  <2>1. Progress /\ Behind = DOMAIN chunks
    <3>1. DOMAIN chunks = 1..Len(chunks) /\ Len(chunks) \in Nat
      BY <1>1, LenProperties
    <3>2. QED
      BY <1>3, <3>1 DEF Behind
  <2>2. \A ch \in Range(chunks) : \E j \in Behind : chunks[j] = ch
    BY <2>1 DEF Range
  <2>3. \A o \in art.objs : Applies(o) \/ Home[o] \in Vpns => conf.has[o] = Written(o)
    <3> SUFFICES ASSUME NEW o \in art.objs, Applies(o) \/ Home[o] \in Vpns PROVE conf.has[o] = Written(o)
      OBVIOUS
    <3>1. PICK ch \in Range(chunks) : o \in ch.make
      BY DEF WellBuilt, Creates
    <3>2. PICK j \in Behind : chunks[j] = ch
      BY <2>2
    <3>3. QED
      BY <2>1, <3>1, <3>2 DEF Progress
  <2>4. art.vpns \subseteq conf.vpns
    <3> SUFFICES ASSUME art.vpns # {} PROVE art.vpns \subseteq conf.vpns
      OBVIOUS
    <3>1. PICK ch \in Range(chunks) : ch.kind = "vpns"
      BY DEF WellBuilt, Creates
    <3>2. PICK j \in Behind : chunks[j] = ch
      BY <2>2
    <3>3. QED
      BY <2>1, <3>1, <3>2 DEF Progress
  <2>5. (\A o \in art.objs : ~Unclassified(o)) => Wanted \subseteq Landed
    <3> SUFFICES ASSUME \A o \in art.objs : ~Unclassified(o), NEW o \in Wanted PROVE o \in Landed
      OBVIOUS
    <3>1. o \in art.objs /\ Applies(o)
      BY DEF Wanted, Ignored, Applies
    <3>2. QED
      BY <1>1, <2>3, <3>1 DEF Landed, Written
  <2>6. ASSUME NEW j \in Behind
        PROVE  /\ chunks[j].make \subseteq art.objs
               /\ chunks[j].kind # "teardown" => \A o \in Touched(chunks[j]) : o \in art.objs \/ Home[o] \notin Vpns
               /\ chunks[j].kind = "teardown" =>
                    chunks[j].vpn \in TornBehind /\ \A o \in Touched(chunks[j]) : Home[o] = chunks[j].vpn
    <3>1. CASE chunks[j].kind = "teardown"
      <4>1. chunks[j] = PlannedTeardown(chunks[j].vpn)
        BY <3>1 DEF WellBuilt, TearsFirst, Behind
      <4>2. chunks[j].make = {} /\ chunks[j].drop \subseteq InVpn(chunks[j].vpn)
        BY <4>1 DEF PlannedTeardown
      <4>3. QED
        BY <3>1, <4>2 DEF Touched, TornBehind, InVpn
    <3>2. CASE chunks[j].kind # "teardown"
      <4>1. Rebuilds(chunks[j])
        BY <3>2 DEF WellBuilt, RebuildsOnce, Behind
      <4>2. \A o \in TargetOnly : Home[o] \notin Vpns
        BY ShapeAssumption DEF TargetOnly, TypeOK
      <4>3. chunks[j].make \subseteq art.objs
        BY <4>1 DEF Rebuilds
      <4>4. chunks[j].drop \subseteq art.objs \cup TargetOnly
        BY <4>1 DEF Rebuilds, Cleared
      <4>5. QED
        BY <3>2, <4>2, <4>3, <4>4 DEF Touched
    <3>3. QED
      BY <3>1, <3>2
  <2>7. ASSUME NEW v \in art.vpns, NEW o \in InVpn(v), o \notin art.objs
        PROVE  Kind[o] = "fixed" \/ conf.has[o] = "none"
    <3>1. o \in Objects /\ Home[o] = v /\ v \in Vpns
      BY <1>1, <2>7 DEF InVpn
    <3>2. Unmade(o)
      BY <2>6, <2>7 DEF Unmade
    <3>3. CASE v \in TornBehind
      BY <2>1, <3>1, <3>2, <3>3 DEF Progress
    <3>4. CASE v \notin TornBehind
      <4>1. Existing \subseteq TornBehind
        BY <2>2 DEF WellBuilt, TearsFirst, TornBehind
      <4>2. v \notin plan.vpns
        BY <2>7, <3>4, <4>1 DEF Existing
      <4>3. o \notin plan.objs
        BY <3>1, <4>2 DEF EverythingHoused, Housed
      <4>4. Untouched(o)
        BY <2>6, <2>7, <3>1, <3>4 DEF Untouched
      <4>5. QED
        BY <2>1, <3>1, <4>3, <4>4 DEF Progress
    <3>5. QED
      BY <3>3, <3>4
  <2>8. \A v \in art.vpns : \A o \in InVpn(v) : o \in art.objs => conf.has[o] = Written(o)
    BY <1>1, <2>3 DEF InVpn
  <2>9. QED
    BY <2>4, <2>5, <2>7, <2>8 DEF Matches
<1>4. QED
  BY <1>2, <1>3

LEMMA BuiltStays ==
  ASSUME NEW s, WellBuilt(s), UNCHANGED <<art, plan>>, chunks' = s
  PROVE  WellBuilt(chunks)'
<1>1. /\ Existing' = Existing /\ TargetOnly' = TargetOnly
      /\ \A O : Cleared(O)' = Cleared(O)
      /\ \A v : PlannedTeardown(v)' = PlannedTeardown(v)
      /\ \A o : Applies(o)' <=> Applies(o)
  BY DEF Existing, TargetOnly, Cleared, PlannedTeardown, Applies, Skipped, Unclassified
<1>2. \A ch : Rebuilds(ch)' <=> Rebuilds(ch)
  BY <1>1 DEF Rebuilds
<1>3. TearsFirst(chunks)'
  BY <1>1 DEF WellBuilt, TearsFirst
<1>4. RebuildsOnce(chunks)'
  BY <1>2 DEF WellBuilt, RebuildsOnce, Touched
<1>5. VpnsBefore(chunks)'
  BY DEF WellBuilt, VpnsBefore
<1>6. Creates(chunks)'
  BY <1>1 DEF WellBuilt, Creates
<1>7. QED
  BY <1>3, <1>4, <1>5, <1>6 DEF WellBuilt

LEMMA ProgressStays ==
  ASSUME Progress, UNCHANGED <<art, conf, plan, chunks, at>>
  PROVE  Progress'
<1>1. Behind' = Behind /\ TornBehind' = TornBehind
  BY DEF Behind, TornBehind
<1>2. \A o : (Untouched(o)' <=> Untouched(o)) /\ (Unmade(o)' <=> Unmade(o))
  BY <1>1 DEF Untouched, Unmade
<1>3. QED
  BY <1>1, <1>2 DEF Progress

\* When the script begins, the broker is as the plan has read it.
LEMMA ProgressBegins ==
  ASSUME TypeOK, plan = [vpns |-> conf.vpns, objs |-> There(conf)], at' = 1, UNCHANGED <<art, conf, plan, chunks>>
  PROVE  Progress'
<1>1. Behind' = {}
  BY LenProperties DEF Behind, TypeOK
<1>2. TornBehind' = {}
  BY <1>1 DEF TornBehind
<1>3. \A o \in Objects : conf.has[o] # "none" <=> o \in plan.objs
  BY DEF There
<1>4. QED
  BY <1>1, <1>2, <1>3 DEF Progress

-------------------------------------------------------------------------------
(* Re-running the import is the recovery *)

LEMMA InitCalmRun == Init => CalmRun
BY DEF Init, CalmRun

LEMMA ApplicableStays ==
  ASSUME UNCHANGED <<art, plan>>
  PROVE  (Applicable' <=> Applicable) /\ (NoUsers' <=> NoUsers)
BY DEF Applicable, NoUsers

LEMMA DriveStays ==
  ASSUME DriveGoesWell, UNCHANGED <<art, conf, plan, chunks, at, markers, linked>>,
         alive' = alive \/ (~alive' /\ at = Len(chunks) + 1)
  PROVE  DriveGoesWell'
<1>1. (HasFailed' <=> HasFailed) /\ (Applicable' <=> Applicable) /\ (NoUsers' <=> NoUsers)
  BY ApplicableStays DEF HasFailed
<1>2. ~HasFailed => Progress'
  BY ProgressStays DEF DriveGoesWell
<1>3. QED
  BY <1>1, <1>2 DEF DriveGoesWell

\* What the script does to a run that goes well.
LEMMA ScriptCalm ==
  ASSUME TypeOK, EverythingHoused, ChunksComplete, CalmRun, calm', ApplyChunk \/ RefuseChunk
  PROVE  pc = "drive" /\ calm /\ DriveGoesWell'
<1>1. CASE ApplyChunk
  <2>1. pc = "drive" /\ calm
    BY <1>1 DEF ApplyChunk, Mine, Emit, Well, Mishap
  <2>2. script = chunks /\ WellBuilt(chunks) /\ DriveGoesWell
    BY <2>1 DEF ChunksComplete, CalmRun
  <2>3. alive /\ ~HasFailed /\ Progress
    BY <1>1, <2>2 DEF ApplyChunk, DriveGoesWell
  <2>4. /\ chunks \in Seq(Chunk) /\ at \in 1..(Len(chunks) + 1) /\ at <= Len(chunks) /\ markers \in Seq(Marker)
    BY <1>1, <2>2 DEF ApplyChunk, TypeOK
  <2>5. at \in DOMAIN chunks
    BY <2>4, LenProperties
  <2>6. /\ conf' = Whole(conf, chunks[at]) /\ at' = at + 1
        /\ UNCHANGED <<art, plan, chunks, alive, linked>>
        /\ markers' = Append(markers, [i |-> at, ok |-> TRUE])
    BY <1>1, <2>1, <2>2 DEF ApplyChunk, Changed, Emit, Mishap, DriveGoesWell
  <2>7. Progress'
    BY <2>2, <2>3, <2>5, <2>6, ChunkProgress
  <2>8. Len(markers) = at - 1 /\ \A k \in DOMAIN markers : markers[k].i = k
    BY <2>2, <2>3 DEF DriveGoesWell
  <2>9. \A k \in DOMAIN markers : markers[k].ok
    BY <2>3 DEF HasFailed
  <2>10. /\ Len(markers') = at /\ DOMAIN markers' = 1..at
         /\ \A k \in DOMAIN markers' : markers'[k] = IF k = at THEN [i |-> at, ok |-> TRUE] ELSE markers[k]
         /\ \A k \in DOMAIN markers' : k # at => k \in DOMAIN markers
    BY <2>4, <2>6, <2>8
  <2>11. \A k \in DOMAIN markers' : markers'[k].i = k /\ markers'[k].ok
    BY <2>8, <2>9, <2>10
  <2>12. ~HasFailed'
    BY <2>11 DEF HasFailed
  <2>13. Len(markers') = at' - 1
    BY <2>4, <2>6, <2>10
  <2>14. QED
    BY <2>1, <2>2, <2>3, <2>6, <2>7, <2>11, <2>12, <2>13 DEF DriveGoesWell
<1>2. CASE RefuseChunk
  <2>1. pc = "drive" /\ calm
    BY <1>2 DEF RefuseChunk, Mine, Emit, Well, Mishap
  <2>2. script = chunks /\ WellBuilt(chunks) /\ DriveGoesWell
    BY <2>1 DEF ChunksComplete, CalmRun
  <2>3. /\ alive /\ ~HasFailed /\ Progress
    BY <1>2, <2>2 DEF RefuseChunk, DriveGoesWell
  <2>4. /\ chunks \in Seq(Chunk) /\ at \in 1..(Len(chunks) + 1) /\ at <= Len(chunks) /\ markers \in Seq(Marker)
    BY <1>2, <2>2 DEF RefuseChunk, TypeOK
  <2>5. at \in DOMAIN chunks
    BY <2>4, LenProperties
  <2>6. /\ ~Accepts(conf, chunks[at]) /\ ~alive'
        /\ UNCHANGED <<art, plan, chunks, linked>>
        /\ markers' = Append(markers, [i |-> at, ok |-> FALSE])
    BY <1>2, <2>1, <2>2 DEF RefuseChunk, Mine, Emit, Mishap, DriveGoesWell
  <2>7. ~(NoUsers /\ Applicable)
    BY <2>2, <2>3, <2>5, <2>6, NextChunkAccepted
  <2>8. HasFailed'
    <3>1. Len(markers) + 1 \in DOMAIN markers' /\ ~markers'[Len(markers) + 1].ok
      BY <2>4, <2>6
    <3>2. QED
      BY <3>1 DEF HasFailed
  <2>9. ~(NoUsers' /\ Applicable')
    BY <2>6, <2>7, ApplicableStays
  <2>10. QED
    BY <2>1, <2>2, <2>6, <2>8, <2>9 DEF DriveGoesWell
<1>3. QED
  BY <1>1, <1>2

\* How a run that goes well reads the output of its script.
LEMMA CollectCalm ==
  ASSUME TypeOK, ChunksComplete, CalmRun, calm, Collect
  PROVE  /\ pc' = "failed" => ~(NoUsers /\ Applicable)
         /\ pc' # "failed" => pc' = "verify" /\ at = Len(chunks) + 1 /\ Progress
<1>1. pc = "drive" /\ script = chunks /\ DriveGoesWell /\ ~alive
  BY DEF Collect, ChunksComplete, CalmRun, DriveGoesWell
<1>2. pc' = IF Parsed = "applied" THEN "verify" ELSE Parsed
  BY DEF Collect
<1>3. CASE HasFailed
  <2>1. markers # <<>>
    BY <1>3 DEF HasFailed
  <2>2. Parsed = "failed"
    BY <1>3, <2>1 DEF Parsed
  <2>3. QED
    BY <1>1, <1>2, <1>3, <2>2 DEF DriveGoesWell
<1>4. CASE ~HasFailed
  <2>1. /\ at = Len(chunks) + 1 /\ Len(markers) = at - 1 /\ linked /\ chunks # <<>> /\ Progress
        /\ \A k \in DOMAIN markers : markers[k].i = k
    BY <1>1, <1>4 DEF DriveGoesWell
  <2>2. Len(chunks) \in Nat \ {0}
    BY <2>1, EmptySeq DEF TypeOK
  <2>3. markers # <<>> /\ Len(markers) = Len(chunks)
    BY <2>1, <2>2
  <2>4. Done /\ InOrder
    BY <1>1, <2>1, <2>3 DEF Done, InOrder
  <2>5. Parsed = "applied"
    BY <1>4, <2>3, <2>4 DEF Parsed
  <2>6. QED
    BY <1>2, <2>1, <2>5
<1>5. QED
  BY <1>3, <1>4

LEMMA NextCalmRun ==
  ASSUME TypeOK, EverythingHoused, ChunksComplete, CalmRun, [Next]_vars
  PROVE  CalmRun'
<1> USE DEF brokerVars, driverVars, historyVars, boundVars
<1> SUFFICES ASSUME calm' PROVE CalmRun'
  BY DEF CalmRun
<1>1. CASE Plan
  <2>1. /\ pc' \in {"ask", "refused"} /\ UNCHANGED conf
        /\ pc' = "ask" => plan' = [vpns |-> conf.vpns, objs |-> There(conf)]
    BY <1>1 DEF Plan
  <2>2. QED
    BY <2>1 DEF CalmRun, There
<1>2. CASE Answer
  <2>1. /\ pc = "ask" /\ calm /\ pc' \in {"capture", "declined"} /\ chunks' = <<>> /\ UNCHANGED <<conf, plan>>
    BY <1>2 DEF Answer
  <2>2. plan = [vpns |-> conf.vpns, objs |-> There(conf)]
    BY <2>1 DEF CalmRun
  <2>3. \A i \in DOMAIN chunks' : chunks'[i] = PlannedTeardown(ToCapture[i])'
    BY <2>1
  <2>4. There(conf)' = There(conf)
    BY <2>1 DEF There
  <2>5. QED
    BY <2>1, <2>2, <2>3, <2>4 DEF CalmRun
<1>3. CASE Capture
  <2> DEFINE v == ToCapture[Len(chunks) + 1]
  <2>1. /\ calm /\ pc = "capture" /\ Len(chunks) < Len(ToCapture) /\ UNCHANGED <<art, conf, plan>>
        /\ \/ pc' = pc /\ chunks' = Append(chunks, Teardown(v))
           \/ v \notin conf.vpns /\ pc' = "stopped"
    BY <1>3 DEF Capture, Well, Mishap
  <2>2. /\ plan = [vpns |-> conf.vpns, objs |-> There(conf)]
        /\ \A i \in DOMAIN chunks : chunks[i] = PlannedTeardown(ToCapture[i])
    BY <2>1 DEF CalmRun
  <2>3. chunks \in Seq(Chunk) /\ Len(chunks) \in Nat
    BY LenProperties DEF TypeOK
  <2>4. v \in Existing
    <3>1. Len(chunks) + 1 \in DOMAIN ToCapture
      BY <2>1, <2>3, ExistingType
    <3>2. {ToCapture[i] : i \in DOMAIN ToCapture} = Existing
      BY ExistingType
    <3>3. QED
      BY <3>1, <3>2
  <2>5. v \in conf.vpns
    BY <2>2, <2>4 DEF Existing
  <2>6. Teardown(v) = PlannedTeardown(v)
    BY <2>2 DEF Teardown, PlannedTeardown
  <2>7. ToCapture' = ToCapture /\ (\A w : PlannedTeardown(w)' = PlannedTeardown(w)) /\ There(conf)' = There(conf)
    BY <2>1 DEF ToCapture, Existing, PlannedTeardown, There
  <2>8. pc' = "capture" /\ chunks' = Append(chunks, PlannedTeardown(v))
    BY <2>1, <2>5, <2>6
  <2>9. \A i \in DOMAIN chunks' : chunks'[i] = PlannedTeardown(ToCapture[i])
    <3> HIDE DEF v
    <3>1. \A i \in DOMAIN chunks' : IF i = Len(chunks) + 1 THEN chunks'[i] = PlannedTeardown(v)
                                    ELSE i \in DOMAIN chunks /\ chunks'[i] = chunks[i]
      BY <2>3, <2>8
    <3>2. QED
      BY <2>2, <3>1 DEF v
  <2>10. \A i \in DOMAIN chunks' : chunks'[i] = PlannedTeardown(ToCapture[i])'
    <3>1. \A i : PlannedTeardown(ToCapture[i])' = PlannedTeardown(ToCapture[i])
      BY <2>1 DEF ToCapture, Existing, PlannedTeardown
    <3>2. QED
      BY <2>9, <3>1
  <2>11. QED
    BY <2>1, <2>2, <2>7, <2>8, <2>10 DEF CalmRun
<1>4. CASE Build
  <2>1. /\ calm /\ pc = "capture" /\ Len(chunks) = Len(ToCapture) /\ UNCHANGED <<art, conf, plan>>
        /\ chunks' = chunks \o Rebuild
        /\ \/ pc' = "verify" /\ chunks' = <<>>
           \/ pc' = "upload" /\ chunks' # <<>>
    BY <1>4 DEF Build
  <2>2. /\ plan = [vpns |-> conf.vpns, objs |-> There(conf)]
        /\ \A i \in DOMAIN chunks : chunks[i] = PlannedTeardown(ToCapture[i])
    BY <2>1 DEF CalmRun
  <2>3. WellBuilt(chunks \o Rebuild)
    BY <2>1, <2>2, TeardownsThenRebuild DEF TypeOK, EverythingHoused
  <2>4. WellBuilt(chunks)'
    BY <2>1, <2>3, BuiltStays
  <2>5. There(conf)' = There(conf)
    BY <2>1 DEF There
  <2>6. QED
    BY <2>1, <2>2, <2>4, <2>5 DEF CalmRun
<1>5. CASE Upload
  <2>1. /\ calm /\ pc = "upload" /\ pc' = "drive" /\ alive' /\ linked' /\ at' = 1 /\ markers' = <<>>
        /\ UNCHANGED <<art, conf, plan, chunks>>
    BY <1>5 DEF Upload, Well, Mishap
  <2>2. chunks # <<>> /\ WellBuilt(chunks) /\ plan = [vpns |-> conf.vpns, objs |-> There(conf)]
    BY <2>1 DEF CalmRun
  <2>3. Progress'
    BY <2>1, <2>2, ProgressBegins
  <2>4. ~HasFailed'
    BY <2>1 DEF HasFailed
  <2>5. WellBuilt(chunks)'
    BY <2>1, <2>2, BuiltStays
  <2>6. DriveGoesWell'
    <3>1. Len(markers') = at' - 1 /\ \A k \in DOMAIN markers' : markers'[k].i = k
      BY <2>1
    <3>2. QED
      BY <2>1, <2>2, <2>3, <2>4, <3>1 DEF DriveGoesWell
  <2>7. QED
    BY <2>1, <2>5, <2>6 DEF CalmRun
<1>6. CASE ApplyChunk \/ RefuseChunk
  <2>1. pc = "drive" /\ calm /\ DriveGoesWell'
    BY <1>6, ScriptCalm
  <2>2. pc' = pc /\ UNCHANGED <<art, plan, chunks>>
    BY <1>6 DEF ApplyChunk, RefuseChunk
  <2>3. WellBuilt(chunks)'
    BY <2>1, <2>2, BuiltStays DEF CalmRun
  <2>4. QED
    BY <2>1, <2>2, <2>3 DEF CalmRun
<1>7. ASSUME UNCHANGED <<art, conf, pc, plan, chunks, at, markers, linked, calm>>,
             alive' = alive \/ (~alive' /\ (pc = "drive" => at = Len(chunks) + 1))
      PROVE  CalmRun'
  <2>1. There(conf)' = There(conf) /\ (\A i : PlannedTeardown(ToCapture[i])' = PlannedTeardown(ToCapture[i]))
    BY <1>7 DEF There, ToCapture, Existing, PlannedTeardown
  <2>2. WellBuilt(chunks) => WellBuilt(chunks)'
    BY <1>7, BuiltStays
  <2>3. Progress => Progress'
    BY <1>7, ProgressStays
  <2>4. pc = "drive" => DriveGoesWell'
    BY <1>7, DriveStays DEF CalmRun
  <2>5. (Applicable' <=> Applicable) /\ (NoUsers' <=> NoUsers) /\ (Matches' <=> Matches)
    BY <1>7, ApplicableStays DEF Matches, Wanted, Landed, Ignored, Skipped, Unclassified
  <2>6. QED
    BY <1>7, <2>1, <2>2, <2>3, <2>4, <2>5 DEF CalmRun
<1>8. CASE Finish
  <2>1. UNCHANGED <<art, conf, pc, plan, chunks, at, markers, linked, calm>> /\ ~alive' /\ at = Len(script) + 1
    BY <1>8 DEF Finish
  <2>2. pc = "drive" => script = chunks
    BY DEF ChunksComplete
  <2>3. QED
    BY <1>7, <2>1, <2>2
<1>9. CASE Die
  <2>1. UNCHANGED <<art, conf, pc, plan, chunks, at, markers, linked, calm>> /\ ~alive' /\ pc # "drive"
    BY <1>9 DEF Die
  <2>2. QED
    BY <1>7, <2>1
<1>10. CASE UNCHANGED vars
  <2>1. UNCHANGED <<art, conf, pc, plan, chunks, at, markers, linked, calm, alive>>
    BY <1>10 DEF vars
  <2>2. QED
    BY <1>7, <2>1
<1>11. CASE Collect
  <2>1. calm /\ pc = "drive" /\ UNCHANGED <<art, conf, plan, chunks, at>>
    BY <1>11 DEF Collect
  <2>2. /\ pc' = "failed" => ~(NoUsers /\ Applicable)
        /\ pc' # "failed" => pc' = "verify" /\ at = Len(chunks) + 1 /\ Progress
    BY <1>11, <2>1, CollectCalm
  <2>3. WellBuilt(chunks)'
    BY <2>1, BuiltStays DEF CalmRun
  <2>4. CASE pc' = "failed"
    BY <2>1, <2>2, <2>4, ApplicableStays DEF CalmRun
  <2>5. CASE pc' # "failed"
    <3>1. Progress'
      BY <2>1, <2>2, <2>5, ProgressStays
    <3>2. QED
      BY <2>1, <2>2, <2>3, <2>5, <3>1 DEF CalmRun
  <2>6. QED
    BY <2>4, <2>5
<1>12. CASE Verify
  <2>1. /\ calm /\ pc = "verify" /\ UNCHANGED <<art, conf, plan, chunks, at>>
        /\ pc' = IF Matches THEN "verified" ELSE "differs"
    BY <1>12 DEF Verify, Well, Mishap
  <2>2. WellBuilt(chunks) /\ (chunks # <<>> => at = Len(chunks) + 1 /\ Progress)
    BY <2>1 DEF CalmRun
  <2>3. WellBuilt(chunks)'
    BY <2>1, <2>2, BuiltStays
  <2>4. Progress => Progress'
    BY <2>1, ProgressStays
  <2>5. Matches' <=> Matches
    BY <2>1 DEF Matches, Wanted, Landed, Ignored, Skipped, Unclassified
  <2>6. QED
    BY <2>1, <2>2, <2>3, <2>4, <2>5 DEF CalmRun
<1>13. CASE Break \/ Kill \/ Meddle
  BY <1>13 DEF Break, Kill, Meddle, Mishap
<1>14. QED
  BY <1>1, <1>2, <1>3, <1>4, <1>5, <1>6, <1>8, <1>9, <1>10, <1>11, <1>12, <1>13 DEF Next

LEMMA AlwaysCalmRun == Spec => []CalmRun
<1>1. CalmRun /\ TypeOK /\ EverythingHoused /\ ChunksComplete /\ [Next]_vars => CalmRun'
  BY NextCalmRun
<1>2. QED
  BY <1>1, InitCalmRun, TypeCorrect, AlwaysHoused, ChunksAlwaysComplete, PTL DEF Spec

\* Recovers, for any broker and whatever earlier imports have left of it, and for any
\* artifact that has no object of a section whose create is refused when it is there:
\* an import in which nothing fails and nobody interferes ends verified, and leaves in
\* each VPN what the artifact has and nothing else.  (With a CLI user in the artifact a
\* re-run stops at the create of that user.)
THEOREM RerunIsTheRecovery == Spec => [](NoUsers => Recovers)
<1>1. TypeOK /\ EverythingHoused /\ CalmRun => (NoUsers => Recovers)
  <2> SUFFICES ASSUME TypeOK, EverythingHoused, CalmRun, NoUsers, calm PROVE Recovers
    BY DEF Recovers
  <2>1. pc \in {"verified", "differs"} =>
          /\ (\A o \in art.objs : ~Unclassified(o)) => Matches
          /\ \A v \in art.vpns : \A o \in InVpn(v) :
               IF o \in art.objs THEN conf.has[o] = Written(o) ELSE Kind[o] = "fixed" \/ conf.has[o] = "none"
    BY ScriptDelivers DEF CalmRun
  <2>2. QED
    BY <2>1 DEF CalmRun, Recovers
<1>2. QED
  BY <1>1, TypeCorrect, AlwaysHoused, AlwaysCalmRun, PTL
===============================================================================
