------------------------------- MODULE MCSdk -------------------------------
(***************************************************************************)
(* Small instances of SdkRuntime for TLC.                                  *)
(***************************************************************************)
EXTENDS SdkRuntime

CONSTANTS m1, m2, m3

One == <<m1>>
Three == <<m1, m2, m3>>
=============================================================================
