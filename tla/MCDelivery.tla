----------------------------- MODULE MCDelivery -----------------------------
(***************************************************************************)
(* Small instances of Delivery for TLC.                                    *)
(***************************************************************************)
EXTENDS Delivery

CONSTANTS i1, i2, d1, d2, d3

\* The daemon's messages are about one task, those of the inbox have no topic.
OneTopic == [m \in Msgs |-> IF m \in Internal THEN "task" ELSE None]
=============================================================================
