----------------------------- MODULE MCKarpenter -----------------------------
(* Two nodes Karpenter may spawn, three operations in a row, and the       *)
(* retry limits of the code.                                               *)
EXTENDS Karpenter, TLC

CONSTANTS n1, n2

MCNodes == {n1, n2}
MCSymmetry == Permutations(MCNodes)
=============================================================================
