----------------------------- MODULE ConfigImport -----------------------------
(***************************************************************************)
(* `broker perform export-config` and `import-config`: an artifact taken   *)
(* from one broker is applied to another.  An import reads the target,     *)
(* asks, captures from the target how to tear down each message-VPN that   *)
(* is there already, and uploads one script that applies everything in     *)
(* chunks: the broker stops a chunk at the first line it refuses, the      *)
(* script looks for a refusal in what the broker printed and says of each  *)
(* chunk that it went well, or that it failed, and stops.  Then the target *)
(* is read again and compared with the artifact.                           *)
(*                                                                         *)
(* The broker takes the script's lines one by one and keeps those it took; *)
(* its refusal may use words the script does not look for; the connection  *)
(* can break while the script goes on; an import can be run again.         *)
(***************************************************************************)
EXTENDS Naturals, Sequences, FiniteSets

CONSTANTS
  Vpns, Default,  \* the message-VPNs; the one no broker can be without
  VpnOrder,       \* [SUBSET Vpns -> Seq(Vpns)]: some of them, as a capture lists them
  Objects,        \* what a configuration carries
  Home,           \* [Objects -> Vpns \cup Sections]
  Kind,           \* [Objects -> Kinds]
  Rank,           \* [Objects -> Nat]: the order in which a capture lists them
  HostVpn,        \* the message-VPN the virtual hostnames lead to
  Scopes,         \* what an export may be asked for: everything, the broker level
                  \* or some message-VPNs
  Sources,        \* what the exported broker may carry
  Targets,        \* what the broker imported into may carry
  MaxRuns,        \* bound: imports
  MaxMishaps      \* bound: calls that fail, refusals for the broker's own reasons,
                  \* refusals or markers nobody sees, breaks, interrupts, and
                  \* changes by others

\* Sections of a capture by what the classification says of them: applied first and
\* alone, applied alone, applied, applied but for some lines, not applied, applied
\* to appliances only, not in the classification.
Sections == {"logging", "usernames", "plain", "filtered", "skip", "appliance", "unknown"}

\* Objects by what their lines do: set a value; create (refused if it is there);
\* create, and the import removes it first; the same for virtual hostnames, all of
\* which are removed; edit what cannot be deleted; a bridge; a line of a filtered
\* section that is dropped.
Kinds == {"setting", "create", "guarded", "host", "fixed", "bridge", "dropped"}

ASSUME ShapeAssumption ==
  /\ Vpns \cap Sections = {} /\ Default \in Vpns /\ HostVpn \in Vpns
  /\ VpnOrder \in [SUBSET Vpns -> Seq(Vpns)]
  /\ \A V \in SUBSET Vpns : {VpnOrder[V][i] : i \in DOMAIN VpnOrder[V]} = V
  /\ Scopes \subseteq {Vpns \cup Sections, Sections} \cup (SUBSET Vpns \ {{}})
  /\ Home \in [Objects -> Vpns \cup Sections] /\ Kind \in [Objects -> Kinds]
  /\ Rank \in [Objects -> Nat]
  /\ \A o \in Objects : Kind[o] = "host" => Home[o] \in Sections
  /\ Sources \cup Targets \subseteq
       [vpns : SUBSET Vpns, has : [Objects -> {"none", "theirs", "ours", "down"}]]
ASSUME ListedOnce ==
  \A V \in SUBSET Vpns : \A i, j \in DOMAIN VpnOrder[V] : VpnOrder[V][i] = VpnOrder[V][j] => i = j
ASSUME ObjectsAreHoused ==
  \A c \in Sources \cup Targets, o \in Objects : Home[o] \in Vpns \ c.vpns => c.has[o] = "none"
ASSUME BoundsAssumption ==
  MaxRuns \in Nat /\ MaxMishaps \in Nat

VARIABLES
  art,       \* the artifact
  conf,      \* the broker imported into
  pc,        \* where the import is, or how the last one has ended
  plan,      \* what the plan has read: VPNs to tear down, objects the target has
  chunks,    \* the chunks this import applies, in their order
  script,    \* the chunks of the script in the broker
  at,        \* the chunk it is at
  alive,     \* it is running
  markers,   \* what it has printed and the import has received
  linked,    \* its output still reaches the import
  rep,       \* what the import reports
  consent,   \* history: the VPNs the operator has agreed to see torn down
  taken,     \* history: the objects imports have removed
  hurt,      \* history: VPNs this import has taken something of
  gone,      \* history: VPNs whose teardown this import has run to its end
  calm,      \* history: during this import nothing failed and nobody interfered
  unseen,    \* history: a refusal of this import was not recognised
  runs, mishaps

brokerVars  == <<conf, taken, hurt, gone>>
driverVars  == <<script, at, alive, markers, linked>>
historyVars == <<consent, calm, unseen>>
boundVars   == <<runs, mishaps>>
vars == <<art, pc, plan, chunks, rep, brokerVars, driverVars, historyVars, boundVars>>

-------------------------------------------------------------------------------
(* Values *)

Versions == {"none", "theirs", "ours", "down"}   \* down: our bridge, not enabled
Conf  == [vpns : SUBSET Vpns, has : [Objects -> Versions]]
Art   == [vpns : SUBSET Vpns, objs : SUBSET Objects, sound : BOOLEAN, appliance : BOOLEAN]
Chunk == [kind : {"teardown", "clear", "vpns", "section", "vpn"}, vpn : Vpns,
          drop : SUBSET Objects, make : SUBSET Objects, vpns : SUBSET Vpns]
Marker == [i : Nat \ {0}, ok : BOOLEAN]

Verdicts == {"none", "refused", "declined", "stopped", "not run", "cut short",
             "unknown", "failed", "killed", "unread", "differs", "verified"}
Phase == Verdicts \cup {"ask", "capture", "upload", "drive", "verify"}
Idle == pc \in Verdicts

NoReport == [torn |-> {}, failed |-> 0, rebuilt |-> FALSE]

There(c) == {o \in Objects : c.has[o] # "none"}
InVpn(v) == {o \in Objects : Home[o] = v}

-------------------------------------------------------------------------------
(* Export *)

\* Sections import would never apply and lines it would drop are left out; those of
\* an appliance and those outside the classification are not.
Omitted(o) == Home[o] = "skip" \/ Kind[o] = "dropped"

Exported(src, scope, appliance) ==
  [vpns |-> scope \cap src.vpns,
   objs |-> {o \in There(src) : Home[o] \in scope /\ ~Omitted(o)},
   sound |-> TRUE, appliance |-> appliance]

\* A file edited by hand or by an older build can carry what export omits; one that
\* is no export, of another version, redacted or of another broker type is refused.
Edited(src, sound) ==
  [vpns |-> src.vpns, objs |-> There(src), sound |-> sound, appliance |-> FALSE]

-------------------------------------------------------------------------------
(* The plan *)

\* Sections are judged by this build's classification, and by the target's type.
Skipped(o) == Home[o] = "skip" \/ (Home[o] = "appliance" /\ ~art.appliance)
Unclassified(o) == Home[o] = "unknown"
Applies(o) == ~Skipped(o) /\ ~Unclassified(o) /\ Kind[o] # "dropped"

\* Broken on purpose: an unclassified section is excused as well.
IgnoredWithGaps(o) == Skipped(o) \/ Kind[o] = "dropped" \/ Unclassified(o)

\* What verification does not look for: what the plan said it would not apply.  An
\* unclassified section stays in.
Ignored(o) == ~Unclassified(o) /\ (Skipped(o) \/ Kind[o] = "dropped")

\* Broken on purpose: the target's VPNs are looked up again after the question.
ExistingNow == art.vpns \cap conf.vpns
Existing == art.vpns \cap plan.vpns

-------------------------------------------------------------------------------
(* The chunks *)

DefaultFirst(V) == VpnOrder[V \cap {Default}] \o VpnOrder[V \ {Default}]

\* Broken on purpose: they are removed whether the target has them or not.
ClearedAlways(O) == {o \in O : Kind[o] \in {"guarded", "host"}}

\* Objects a chunk removes ahead of their create, as the target had them when the
\* plan was made: of a guarded kind if the artifact creates them too.
Cleared(O) == {o \in O \cap plan.objs : Kind[o] \in {"guarded", "host"}}

Section(O) ==
  LET A == {o \in O \cap art.objs : Applies(o)}
  IN IF A = {} THEN <<>>
     ELSE << [kind |-> "section", vpn |-> Default, drop |-> Cleared(A), make |-> A, vpns |-> {}] >>

\* Virtual hostnames of the target that the artifact does not create.
TargetOnly == {o \in plan.objs \ art.objs : Kind[o] = "host"}

ClearTargetOnly ==
  IF TargetOnly = {} THEN <<>>
  ELSE << [kind |-> "clear", vpn |-> Default, drop |-> TargetOnly, make |-> {}, vpns |-> {}] >>

CreateVpns ==
  IF art.vpns = {} THEN <<>>
  ELSE << [kind |-> "vpns", vpn |-> Default, drop |-> {}, make |-> {}, vpns |-> art.vpns] >>

At(S) == {o \in Objects : Home[o] \in S}

VpnChunk(v) == [kind |-> "vpn", vpn |-> v, drop |-> {}, make |-> InVpn(v) \cap art.objs, vpns |-> {}]

VpnChunks ==
  LET full == DefaultFirst({v \in art.vpns : InVpn(v) \cap art.objs # {}})
  IN [i \in DOMAIN full |-> VpnChunk(full[i])]

\* Every teardown first, then this.
Rebuild ==
  ClearTargetOnly \o CreateVpns \o Section(At({"logging"})) \o Section(At({"usernames"}))
    \o Section(At(Sections \ {"logging", "usernames"})) \o VpnChunks

\* What the broker says has to go for VPN v to be emptied: it leaves out what cannot
\* be deleted.
Teardown(v) ==
  [kind |-> "teardown", vpn |-> v, make |-> {}, vpns |-> {},
   drop |-> {o \in InVpn(v) \cap There(conf) : Kind[o] # "fixed"}]

-------------------------------------------------------------------------------
(* The broker *)

\* The lines of a chunk the broker refuses in configuration c: a create of what is
\* there, a removal of what is not, anything in or about a VPN that is not there.
Refused(c, ch) ==
  {o \in ch.drop : c.has[o] = "none"}
    \cup {o \in ch.make : Kind[o] \in {"create", "guarded", "host", "bridge"}
                            /\ c.has[o] # "none" /\ o \notin ch.drop}
    \cup {o \in ch.make : Kind[o] = "host" /\ HostVpn \notin c.vpns}
    \cup {o \in ch.make \cup ch.drop : Home[o] \in Vpns \ c.vpns}

\* A VPN goes when nothing but what goes with it is left in it.
VpnStays(c, ch) ==
  /\ ch.kind = "teardown" /\ ch.vpn # Default
  /\ \/ ch.vpn \notin c.vpns
     \/ \E o \in InVpn(ch.vpn) \ ch.drop : c.has[o] # "none" /\ Kind[o] # "fixed"

Accepts(c, ch) == Refused(c, ch) = {} /\ ~VpnStays(c, ch)

Written(o) == IF Kind[o] = "bridge" THEN "down" ELSE "ours"

\* Configuration c after the lines of ch that remove D, write M and create V; the
\* VPN itself is removed by the last line of its teardown.
After(c, ch, D, M, V, whole) ==
  LET cut == whole /\ ch.kind = "teardown" /\ ch.vpn # Default
  IN [vpns |-> (IF cut THEN c.vpns \ {ch.vpn} ELSE c.vpns) \cup V,
      has |-> [o \in Objects |->
                 IF o \in M THEN Written(o)
                 ELSE IF o \in D \/ (cut /\ Home[o] = ch.vpn) THEN "none" ELSE c.has[o]]]

Whole(c, ch) == After(c, ch, ch.drop, ch.make, ch.vpns, TRUE)

\* What a chunk leaves that the broker has stopped in: at the line of object s, in
\* the order of a capture, after the removal that goes before its create or ahead of
\* both; in the VPNs to create; or at the last line of a teardown.
StopsAt(c, ch, s) ==
  LET D == {o \in ch.drop : Rank[o] < Rank[s]}
      M == {o \in ch.make : Rank[o] < Rank[s]}
  IN {After(c, ch, D \cup X, M, {}, FALSE) :
        X \in {{}, {s} \cap ch.drop \cap ch.make \cap There(c)}}

Parts(c, ch) ==
  (UNION {StopsAt(c, ch, s) : s \in {o \in ch.drop \cup ch.make :
            \A r \in Refused(c, ch) : Rank[o] <= Rank[r]}})
    \cup {After(c, ch, {}, {}, V, FALSE) : V \in SUBSET ch.vpns}
    \cup (IF ch.kind = "teardown" /\ Refused(c, ch) = {}
          THEN {After(c, ch, ch.drop, {}, {}, FALSE)} ELSE {})

-------------------------------------------------------------------------------
(* The import *)

Mishap == mishaps < MaxMishaps /\ mishaps' = mishaps + 1 /\ calm' = FALSE
Well == UNCHANGED <<mishaps, calm>>

Init ==
  /\ art \in {Exported(s, sc, a) : s \in Sources, sc \in Scopes, a \in BOOLEAN}
              \cup {Edited(s, b) : s \in Sources, b \in BOOLEAN}
  /\ conf \in Targets
  /\ pc = "none" /\ plan = [vpns |-> {}, objs |-> {}] /\ rep = NoReport
  /\ chunks = <<>> /\ script = <<>> /\ at = 1 /\ alive = FALSE /\ markers = <<>> /\ linked = FALSE
  /\ consent = {} /\ taken = {} /\ hurt = {} /\ gone = {}
  /\ calm = TRUE /\ unseen = FALSE
  /\ runs = 0 /\ mishaps = 0

\* The artifact is checked and the target is read.
Plan ==
  /\ Idle /\ runs < MaxRuns /\ runs' = runs + 1
  /\ rep' = NoReport /\ hurt' = {} /\ gone' = {} /\ unseen' = FALSE
  /\ \/ /\ art.sound /\ pc' = "ask"
        /\ plan' = [vpns |-> conf.vpns, objs |-> There(conf)]
        /\ calm' = TRUE /\ mishaps' = mishaps
     \/ /\ ~art.sound /\ pc' = "refused"
        /\ calm' = TRUE /\ UNCHANGED <<plan, mishaps>>
     \/ art.sound /\ Mishap /\ pc' = "refused" /\ plan' = plan
  /\ UNCHANGED <<art, conf, taken, chunks, driverVars, consent>>

\* A typed yes for a teardown, y for a new VPN; broker level only: no question.
Answer ==
  /\ pc = "ask"
  /\ \/ pc' = "capture" /\ consent' = consent \cup Existing
     \/ art.vpns # {} /\ pc' = "declined" /\ consent' = consent
  /\ chunks' = <<>>
  /\ UNCHANGED <<art, plan, rep, brokerVars, driverVars, calm, unseen, boundVars>>

\* The teardowns are captured from the target one by one.
ToCapture == VpnOrder[Existing]

Capture ==
  /\ pc = "capture" /\ Len(chunks) < Len(ToCapture)
  /\ LET v == ToCapture[Len(chunks) + 1]
     IN \/ v \in conf.vpns /\ Well /\ pc' = pc /\ chunks' = Append(chunks, Teardown(v))
        \/ v \notin conf.vpns /\ Well /\ pc' = "stopped" /\ chunks' = chunks
        \/ Mishap /\ pc' = "stopped" /\ chunks' = chunks
  /\ UNCHANGED <<art, plan, rep, brokerVars, driverVars, consent, unseen, runs>>

\* With nothing to apply there is nothing to run.
Build ==
  /\ pc = "capture" /\ Len(chunks) = Len(ToCapture)
  /\ chunks' = chunks \o Rebuild
  /\ IF chunks' = <<>>
     THEN pc' = "verify" /\ rep' = [rep EXCEPT !.rebuilt = TRUE]
     ELSE pc' = "upload" /\ rep' = rep
  /\ UNCHANGED <<art, plan, brokerVars, driverVars, historyVars, boundVars>>

\* What an earlier import has left running is over before this one uploads its own.
Upload ==
  /\ pc = "upload" /\ ~alive
  /\ \/ Well /\ pc' = "drive" /\ alive' = TRUE /\ linked' = TRUE /\ script' = chunks /\ at' = 1 /\ markers' = <<>>
     \/ Mishap /\ pc' = "stopped" /\ UNCHANGED driverVars
  /\ UNCHANGED <<art, plan, rep, brokerVars, chunks, consent, unseen, runs>>

-------------------------------------------------------------------------------
(* The script in the broker *)

\* It belongs to this import, or to one that is over.
Mine == pc = "drive"

\* The marker arrives, or (a fault) does not.
Emit(m) ==
  \/ linked /\ markers' = Append(markers, m) /\ Well
  \/ linked /\ markers' = markers /\ Mishap
  \/ ~linked /\ markers' = markers /\ Well

Changed(c) ==
  /\ conf' = c
  /\ taken' = taken \cup (There(conf) \ There(c))
  /\ hurt' = IF Mine THEN hurt \cup {v \in Vpns : InVpn(v) \cap (There(conf) \ There(c)) # {}} ELSE hurt

\* A chunk goes through.
ApplyChunk ==
  /\ alive /\ at <= Len(script) /\ Accepts(conf, script[at])
  /\ Changed(Whole(conf, script[at]))
  /\ gone' = IF Mine /\ script[at].kind = "teardown" THEN gone \cup {script[at].vpn} ELSE gone
  /\ at' = at + 1
  /\ IF Mine THEN Emit([i |-> at, ok |-> TRUE]) ELSE calm' = FALSE /\ UNCHANGED <<markers, mishaps>>
  /\ UNCHANGED <<art, pc, plan, chunks, rep, script, alive, linked, consent, unseen, runs>>

\* The broker stops in a chunk.  Either the script sees it, says so and stops, or
\* the broker's words are not among those it looks for and it goes on.
RefuseChunk ==
  /\ alive /\ at <= Len(script)
  /\ \E c \in Parts(conf, script[at]) : Changed(c)
  /\ \/ /\ IF Mine
           THEN IF Accepts(conf, script[at])
                THEN linked /\ Mishap /\ markers' = Append(markers, [i |-> at, ok |-> FALSE])
                ELSE Emit([i |-> at, ok |-> FALSE])
           ELSE calm' = FALSE /\ UNCHANGED <<markers, mishaps>>
        /\ alive' = FALSE /\ UNCHANGED <<at, unseen>>
     \/ /\ Mine /\ linked /\ Mishap
        /\ markers' = Append(markers, [i |-> at, ok |-> TRUE])
        /\ at' = at + 1 /\ unseen' = TRUE /\ alive' = alive
  /\ UNCHANGED <<art, pc, plan, chunks, rep, gone, script, linked, consent, runs>>

\* After the last chunk it prints that it is done.
Finish ==
  /\ alive /\ at = Len(script) + 1
  /\ alive' = FALSE
  /\ UNCHANGED <<art, pc, plan, chunks, rep, brokerVars, script, at, markers, linked, historyVars, boundVars>>

\* The connection breaks; the script stops with it or goes on.
Break ==
  /\ pc = "drive" /\ linked /\ Mishap
  /\ linked' = FALSE /\ alive' \in {alive, FALSE}
  /\ UNCHANGED <<art, pc, plan, chunks, rep, brokerVars, script, at, markers, consent, unseen, runs>>

-------------------------------------------------------------------------------
(* The verdict *)

Reported == {m.i : m \in {markers[k] : k \in DOMAIN markers}}
FirstFailed == CHOOSE k \in DOMAIN markers : ~markers[k].ok
HasFailed == \E k \in DOMAIN markers : ~markers[k].ok
Done == linked /\ ~alive /\ at = Len(script) + 1
\* Broken on purpose: the markers are not checked against the script.
InOrderAlways == TRUE
InOrder == /\ Len(markers) = Len(script)
           /\ \A k \in DOMAIN markers : markers[k].i = k

\* Broken on purpose: a run that failed has torn nothing down.
TornUnlessFailed == IF HasFailed THEN {} ELSE {script[i].vpn : i \in {j \in DOMAIN script : script[j].kind = "teardown"}}

\* Every teardown the script has said went well before the first chunk that did not.
Torn == {script[i].vpn : i \in {j \in Reported : script[j].kind = "teardown"
                                   /\ ~(HasFailed /\ j = markers[FirstFailed].i)}}

\* What the output says, and how the call ended.  Without the last line it is cut
\* short, unless it ends with a chunk that failed.
Parsed ==
  IF markers = <<>> THEN IF Done THEN "unknown" ELSE "not run"
  ELSE IF HasFailed THEN "failed"
  ELSE IF ~Done THEN "cut short"
  ELSE IF InOrder THEN "applied" ELSE "unknown"

Collect ==
  /\ pc = "drive" /\ (~alive \/ ~linked)
  /\ pc' = IF Parsed = "applied" THEN "verify" ELSE Parsed
  /\ rep' = [torn |-> Torn, failed |-> IF HasFailed THEN markers[FirstFailed].i ELSE 0,
             rebuilt |-> Parsed = "applied"]
  /\ linked' = FALSE
  /\ UNCHANGED <<art, plan, chunks, brokerVars, script, at, alive, markers, historyVars, boundVars>>

\* What the artifact has and the target has not, as the artifact has it.
Wanted == {o \in art.objs : ~Ignored(o)}
Landed == {o \in Objects : conf.has[o] \in {"ours", "down"}}
Matches == Wanted \subseteq Landed /\ art.vpns \subseteq conf.vpns

Verify ==
  /\ pc = "verify"
  /\ \/ Well /\ pc' = IF Matches THEN "verified" ELSE "differs"
     \/ Mishap /\ pc' = "unread"
  /\ UNCHANGED <<art, plan, chunks, rep, brokerVars, driverVars, consent, unseen, runs>>

\* The import is killed, at its question or later.
Kill ==
  /\ ~Idle /\ Mishap /\ pc' = "killed" /\ linked' = FALSE
  /\ UNCHANGED <<art, plan, chunks, rep, brokerVars, script, at, alive, markers, consent, unseen, runs>>

\* What was left running ends with the connection.
Die ==
  /\ alive /\ pc # "drive" /\ alive' = FALSE
  /\ UNCHANGED <<art, pc, plan, chunks, rep, brokerVars, script, at, markers, linked, historyVars, boundVars>>

\* Another administrator adds or removes one object or one VPN.
Meddle ==
  /\ Mishap
  /\ \/ \E o \in Objects :
          /\ Home[o] \in Vpns => Home[o] \in conf.vpns
          /\ o \in There(conf) => Kind[o] # "fixed"
          /\ conf' = [conf EXCEPT !.has[o] = IF @ = "none" THEN "theirs" ELSE "none"]
     \/ \E v \in Vpns \ conf.vpns : conf' = [conf EXCEPT !.vpns = @ \cup {v}]
     \/ \E v \in conf.vpns \ {Default} :
          conf' = [vpns |-> conf.vpns \ {v},
                   has |-> [o \in Objects |-> IF Home[o] = v THEN "none" ELSE conf.has[o]]]
  /\ UNCHANGED <<art, pc, plan, chunks, rep, taken, hurt, gone, driverVars, consent, unseen, runs>>

Next ==
  \/ Plan \/ Answer \/ Capture \/ Build \/ Upload
  \/ ApplyChunk \/ RefuseChunk \/ Finish \/ Break
  \/ Collect \/ Verify \/ Kill \/ Die \/ Meddle

Spec == Init /\ [][Next]_vars

-------------------------------------------------------------------------------
(* Properties *)

\* Every variable holds a value of its kind.
TypeOK ==
  /\ art \in Art /\ conf \in Conf /\ pc \in Phase
  /\ plan \in [vpns : SUBSET Vpns, objs : SUBSET Objects]
  /\ chunks \in Seq(Chunk) /\ script \in Seq(Chunk) /\ at \in 1..(Len(script) + 1)
  /\ alive \in BOOLEAN /\ linked \in BOOLEAN
  /\ markers \in Seq(Marker) /\ Reported \subseteq DOMAIN script
  /\ rep \in [torn : SUBSET Vpns, failed : Nat, rebuilt : BOOLEAN]
  /\ consent \subseteq Vpns /\ taken \subseteq Objects /\ hurt \subseteq Vpns /\ gone \subseteq Vpns
  /\ calm \in BOOLEAN /\ unseen \in BOOLEAN
  /\ runs \in 0..MaxRuns /\ mishaps \in 0..MaxMishaps

\* A marker of the script has been lost on its way, in the middle of the output.
MarkerLost == \E k \in DOMAIN markers : markers[k].i # k

\* The report of an import names what it has destroyed, neither more nor less: a
\* VPN it calls torn down is one whose teardown has run to its end, and when it says
\* in which chunk the broker stopped it names every VPN the import has taken
\* something of, as torn down or as that chunk.  (Not when a refusal was not
\* recognised or a marker was lost on its way.)
DestroyedIsNamed ==
  ~unseen =>
    /\ Idle => rep.torn \subseteq gone
    /\ pc = "failed" /\ ~MarkerLost => hurt \subseteq rep.torn \cup {script[rep.failed].vpn}

\* An import whose output was incomplete does not pass for one that applied
\* everything: what it calls rebuilt has been applied to the last chunk.
RebuiltIsWhole ==
  pc \in {"verify", "verified", "differs", "unread"} =>
    /\ rep.rebuilt
    /\ chunks # <<>> => at = Len(script) + 1 /\ rep.torn = Existing

\* The artifact can be applied to the broker as it is: the VPN the virtual
\* hostnames lead to is there or comes with it.
Applicable ==
  (\E o \in art.objs \cup plan.objs : Kind[o] = "host") => HostVpn \in art.vpns \cup plan.vpns

\* "Re-running the same import is the recovery": whatever an earlier import has left
\* of the broker, one in which nothing fails and nobody interferes ends verified, and
\* leaves of each VPN of the artifact what the artifact has and, but for what cannot
\* be deleted, nothing else.  (For an artifact without CLI users: the create of a
\* user that is there is refused, transform.go:216-232.)
Recovers ==
  calm =>
    /\ Applicable /\ (\A o \in art.objs : ~Unclassified(o)) =>
          pc \notin {"stopped", "not run", "cut short", "unknown", "failed", "unread", "differs"}
    /\ pc = "verified" =>
          \A v \in art.vpns : \A o \in InVpn(v) :
             IF o \in art.objs THEN conf.has[o] = Written(o) ELSE Kind[o] = "fixed" \/ conf.has[o] = "none"

\* An import never ends well over a section it does not know: that section is not
\* applied, and the difference is not excused; only a target that has it already
\* passes.  (As long as nobody else writes to the target.)
GapIsLoud ==
  pc = "verified" /\ calm => \A o \in art.objs : Unclassified(o) => o \in Landed

Promise ==
  INSTANCE ImportPromise
    WITH wanted  <- Wanted,
         landed  <- Landed,
         taken   <- taken,
         word    <- IF pc = "none" THEN "nothing"
                    ELSE IF pc = "verified" THEN "success"
                    ELSE IF Idle THEN "no success" ELSE "at work"

\* An import keeps the promise of ImportPromise.
KeepsPromise == Promise!Spec
===============================================================================
