------------------------------- MODULE MCShim -------------------------------
(***************************************************************************)
(* Small instances of ShimRuntime for TLC.                                 *)
(***************************************************************************)
EXTENDS ShimRuntime, TLC

\* Messages without a message_id are not interchangeable with the others.
TrackedSymmetry == Permutations(Tracked) \cup Permutations(Msgs \ Tracked)
=============================================================================
