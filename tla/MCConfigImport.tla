---------------------------- MODULE MCConfigImport ----------------------------
(* Instances of ConfigImport for TLC.                                       *)
EXTENDS ConfigImport

CONSTANTS default, second, dq, df, vq, vb, lg, us, ca, h1, h2, dr, sk, ap, un

TwoVpns == {default, second}
Listed  == [V \in SUBSET TwoVpns |-> SelectSeq(<<second, default>>, LAMBDA v : v \in V)]

Homes ==
  [o \in Objects |->
     CASE o \in {dq, df} -> default [] o \in {vq, vb} -> second
       [] o = lg -> "logging" [] o = us -> "usernames" [] o = dr -> "filtered"
       [] o = sk -> "skip" [] o = ap -> "appliance" [] o = un -> "unknown"
       [] OTHER -> "plain"]
ObjectKinds ==
  [o \in Objects |->
     CASE o \in {dq, vq, us} -> "create" [] o = df -> "fixed" [] o = vb -> "bridge"
       [] o = ca -> "guarded" [] o \in {h1, h2} -> "host" [] o = dr -> "dropped"
       [] OTHER -> "setting"]

Ranks ==
  [o \in Objects |-> CHOOSE n \in 1..13 : <<lg, us, ca, h1, h2, dr, sk, ap, un, df, dq, vq, vb>>[n] = o]

Carries(V, O, w) == [vpns |-> V, has |-> [o \in Objects |-> IF o \in O THEN w ELSE "none"]]

ThreeScopes == {TwoVpns \cup Sections, Sections, {second}}

\* A broker with everything, one with fewer objects in its VPNs, one with an unknown
\* section; one target is new, one has objects of its own everywhere.
Brokers == {Carries(TwoVpns, Objects \ {h2, un}, "ours"),
            Carries(TwoVpns, Objects \cap {df, vb, ap}, "ours"),
            Carries({default}, Objects \cap {df, dr, sk, un}, "ours")}
NewBroker  == {Carries({default}, {df}, "theirs")}
NewAndOld  == NewBroker \cup {Carries(TwoVpns, Objects \ {h1}, "theirs")}
===============================================================================
