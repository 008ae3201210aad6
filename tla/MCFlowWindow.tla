---------------------------- MODULE MCFlowWindow ----------------------------
(* An instance of FlowWindow for TLC.  Flows are alike, so they may be     *)
(* permuted.                                                               *)
EXTENDS FlowWindow, TLC

CONSTANTS x, y, z

FlowSymmetry == Permutations({x, y, z})
=============================================================================
