------------------------------- MODULE MCNVS -------------------------------
(***************************************************************************)
(* Small instances of NVS for TLC: each task has an object of its own.     *)
(***************************************************************************)
EXTENDS NVS, TLC

EachItsOwn == [t \in Tasks |-> t]
TaskSymmetry == Permutations(Tasks)
=============================================================================
