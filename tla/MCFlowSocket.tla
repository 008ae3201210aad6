---------------------------- MODULE MCFlowSocket ----------------------------
(* An instance of FlowSocket for TLC: names for its connections.           *)
EXTENDS FlowSocket

CONSTANTS k1, k2, k3
=============================================================================
