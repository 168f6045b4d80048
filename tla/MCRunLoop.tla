------------------------------ MODULE MCRunLoop ------------------------------
(* Instances of RunLoop for TLC.                                            *)
EXTENDS RunLoop

CONSTANTS r1, r2, r3
ThreeRanks == {r1, r2, r3}
TwoRanks   == {r1, r2}
OneOrTwo   == {1, 2}
OneStep    == {1}
=============================================================================
