------------------------------- MODULE MCCow -------------------------------
(* Cow for TLC.                                                            *)
EXTENDS Cow, TLC

Symmetry == Permutations(Proc) \cup Permutations(Frame) \cup Permutations(Val)
=============================================================================
