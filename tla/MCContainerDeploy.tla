--------------------------- MODULE MCContainerDeploy ---------------------------
(* Instances of ContainerDeploy for TLC.                                     *)
EXTENDS ContainerDeploy

CONSTANTS s1, s2, p1, p2, c1, c2

TwoSpecs == {s1, s2}
OneSpec  == {s1}
OneCred  == {p1}
TwoCreds == {p1, p2}
TwoCerts == {c1, c2}
===============================================================================
