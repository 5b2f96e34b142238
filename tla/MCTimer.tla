------------------------------ MODULE MCTimer ------------------------------
(* An instance of Timer for TLC.                                           *)
EXTENDS Timer, TLC

TaskSymmetry == Permutations(Tasks)
=============================================================================
