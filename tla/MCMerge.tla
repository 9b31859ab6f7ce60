------------------------------ MODULE MCMerge ------------------------------
(***************************************************************************)
(* Small instances of MergePipeline for TLC.                               *)
(***************************************************************************)
EXTENDS MergePipeline, TLC

EngineerSymmetry == Permutations(Engineers)
=============================================================================
