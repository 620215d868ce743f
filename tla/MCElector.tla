----------------------------- MODULE MCElector ------------------------------
(* The symmetry of the TLC runs on Elector that check no liveness.         *)
EXTENDS Elector, TLC

NodeSymmetry == Permutations(Nodes)
=============================================================================
