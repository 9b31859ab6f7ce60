--------------------------- MODULE MessageLedger ---------------------------
(***************************************************************************)
(* What the delivery of messages to one member promises, whatever path a   *)
(* message takes: where a message may be, which way it may move, and which *)
(* trouble it takes to lose it there.                                      *)
(*                                                                         *)
(*   inbox    a file in new/ of the member's inbox                         *)
(*   memory   in a queue of the daemon                                     *)
(*   channel  between the daemon and the agent: in the socket or the shim  *)
(*   given    the shim has written it to its agent                         *)
(*   closed   kept from the agent on purpose, or escalated                 *)
(*                                                                         *)
(* Delivery implements this specification.                                 *)
(***************************************************************************)
EXTENDS Naturals

CONSTANTS Msgs, Topic, None

VARIABLES
    place,      \* message -> where it is
    link,       \* the shim: "starting", "up" or "down"
    refused,    \* message -> how often the shim could not write it
    troubles    \* daemon crashes, I/O errors and failures of the shim so far

vars == <<place, link, refused, troubles>>

Places == {"unsent", "inbox", "memory", "channel", "given", "closed", "lost"}

\* The moves that no trouble is needed for.  A message on the channel comes
\* back to memory when the shim reports that it could not write it, or when the
\* shim of a supervisor is replaced: a retry that a dead shim did not take is then
\* queued beside the entry for its next retry, and given from the one while the
\* other still waits.  A copy of a closed message that was already on its way may
\* still be given or fall back to the inbox.
Moves ==
    {<<"unsent", p>> : p \in {"inbox", "memory", "channel", "closed"}}
      \cup {<<"inbox", p>> : p \in {"given", "closed"}}
      \cup {<<"memory", p>> : p \in {"inbox", "channel", "given", "closed"}}
      \cup {<<"channel", p>> : p \in {"given", "memory", "inbox"}}
      \cup {<<"closed", p>> : p \in {"given", "inbox"}}

Init ==
    /\ place = [m \in Msgs |-> "unsent"]
    /\ link = "starting"
    /\ refused = [m \in Msgs |-> 0]
    /\ troubles = 0

\* Memory is lost in the very step of a crash or an I/O error; what is on the
\* channel is lost with the shim, and while the shim is up only after a second
\* failed write: nobody waits for the answer to a retry.
MayLose(m) ==
    \/ place[m] = "memory" /\ troubles' > troubles
    \/ place[m] = "channel" /\ (link' # "up" \/ refused'[m] > 1)
    \/ place[m] = "unsent" /\ troubles' > troubles

Next ==
    /\ place' \in [Msgs -> Places]
    /\ link' \in {"starting", "up", "down"}
    /\ DOMAIN refused' = Msgs
    /\ \A m \in Msgs : refused'[m] \in {refused[m], refused[m] + 1}
    /\ troubles' \in {troubles, troubles + 1}
    /\ \A m \in Msgs :
          \/ place'[m] = place[m]
          \/ <<place[m], place'[m]>> \in Moves
          \/ place'[m] = "lost" /\ MayLose(m)

Spec == Init /\ [][Next]_vars
=============================================================================
