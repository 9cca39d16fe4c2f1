----------------------------- MODULE ImportPromise -----------------------------
(***************************************************************************)
(* What `broker perform import-config` promises, without how: it takes     *)
(* nothing out of a message-VPN that the operator has not agreed to see    *)
(* torn down, and when it ends well the artifact is on the broker.         *)
(***************************************************************************)
CONSTANTS
  Vpns,      \* the message-VPNs
  Objects,   \* what a configuration carries
  Home       \* [Objects -> the message-VPN an object is in, or its section]

VARIABLES
  wanted,    \* the objects of the artifact that are to be there
  landed,    \* the objects that are there as the artifact has them
  taken,     \* the objects imports have taken away
  consent,   \* the message-VPNs the operator has agreed to see torn down
  word       \* what the last import has said

vars == <<wanted, landed, taken, consent, word>>

Words == {"nothing", "at work", "success", "no success"}

Init ==
  /\ wanted \subseteq Objects /\ landed \subseteq Objects /\ taken = {} /\ consent = {}
  /\ word = "nothing"

Begin ==
  /\ word # "at work" /\ word' = "at work"
  /\ UNCHANGED <<wanted, landed, taken, consent>>

Agree ==
  /\ word = "at work"
  /\ \E V \in SUBSET Vpns : consent' = consent \cup V
  /\ UNCHANGED <<wanted, landed, taken, word>>

\* Objects come and go: by the import, by what an interrupted one has left running,
\* and by others.  What an import takes out of a message-VPN was agreed to; outside
\* every message-VPN it replaces without a question.
Change ==
  /\ landed' \subseteq Objects
  /\ \E T \in SUBSET Objects :
       /\ \A o \in T : Home[o] \in Vpns => Home[o] \in consent
       /\ taken' = taken \cup T
  /\ UNCHANGED <<wanted, consent, word>>

Succeed ==
  /\ word = "at work" /\ wanted \subseteq landed
  /\ word' = "success"
  /\ UNCHANGED <<wanted, landed, taken, consent>>

GiveUp ==
  /\ word' = "no success"
  /\ UNCHANGED <<wanted, landed, taken, consent>>

Next == Begin \/ Agree \/ Change \/ Succeed \/ GiveUp

Spec == Init /\ [][Next]_vars
===============================================================================
