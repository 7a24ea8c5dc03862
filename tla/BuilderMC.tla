----------------------------- MODULE BuilderMC -----------------------------
(* Builder for TLC: nothing tells the names of the caller apart.           *)
EXTENDS Builder, TLC

NameSymmetry == Permutations(Names)
=============================================================================
