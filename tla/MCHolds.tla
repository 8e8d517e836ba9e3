------------------------------ MODULE MCHolds ------------------------------
(* Holds on a small instance; the arrays are interchangeable.              *)
EXTENDS Holds, TLC

ArraySymmetry == Permutations(Arrays)
============================================================================
