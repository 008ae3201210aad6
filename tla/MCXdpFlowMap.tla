---------------------------- MODULE MCXdpFlowMap ----------------------------
(* Instances of XdpFlowMap for TLC: CPUs are interchangeable.              *)
EXTENDS XdpFlowMap, TLC

CONSTANTS c1, c2

CpuSymmetry == Permutations(Cpu)
=============================================================================
