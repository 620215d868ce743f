---------------------------- MODULE MCProcessor -----------------------------
(* The symmetry of the TLC runs on Processor that have several nodes.      *)
EXTENDS Processor, TLC

NodeSymmetry == Permutations(Nodes)
=============================================================================
