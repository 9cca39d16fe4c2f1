---------------------------- MODULE MCRedundancyTest ----------------------------
(* Instances of RedundancyTest for TLC.                                      *)
EXTENDS RedundancyTest

TwoRuns == {1, 2}
OneRun  == {1}
===============================================================================
