-------------------------- MODULE MCSharedOperator --------------------------
(* Three env files: fa and fc resolve the operator namespace op, fb the   *)
(* namespace oq; fc asks for every namespace.  Another operator may run in *)
(* a namespace nobody resolves.                                            *)
EXTENDS SharedOperator, TLC

CONSTANTS fa, fb, fc, na, nb, op, oq, or

ThreeDesired == (fa :> {na}) @@ (fb :> {nb}) @@ (fc :> {})
ThreeHome == (fa :> op) @@ (fb :> oq) @@ (fc :> op)
ThreeVersion == (fa :> 1) @@ (fb :> 2) @@ (fc :> 2)
Elsewhere == [p \in Places |-> IF p = or THEN [watch |-> {nb}, version |-> 2, runs |-> TRUE]
                                         ELSE NoOperator]
NowhereYet == {[p \in Places |-> NoOperator]}
MaybeElsewhere == {[p \in Places |-> NoOperator], Elsewhere}
=============================================================================
