------------------------------ MODULE Delivery ------------------------------
(***************************************************************************)
(* Messages from the daemon to one member: the routing of a message and    *)
(* the pending queue (src/src/team/delivery/routing.rs), the retry of      *)
(* failed deliveries (src/src/team/delivery/verification.rs), the handling *)
(* of the shim's events and the restart of a shim                          *)
(* (src/src/team/daemon/health/poll_shim.rs), and the inbox on disk        *)
(* (src/src/team/inbox.rs, inbox_tiered.rs), in the order in which the     *)
(* daemon's tick (src/src/team/daemon/poll.rs) runs them.                  *)
(*                                                                         *)
(* A message is a model value.  The daemon's own messages (Internal) are   *)
(* routed by deliver_message; the others are put into the member's inbox   *)
(* by `batty send`.  Timers (working-state timeout, retry delay, age in    *)
(* the pending queue) may have run out or not.  The shim is reduced to     *)
(* what the daemon sees of it; ShimRuntime models it.                      *)
(***************************************************************************)
EXTENDS Naturals, Sequences, FiniteSets, SequencesExt

CONSTANTS
    Kinds,            \* which members to look at
    Msgs,
    Internal,         \* the messages the daemon itself sends
    Filtered,         \* those that may be kept from the agent (see `stale`)
    Digestible,       \* those a manager gets in a digest
    Topic,            \* message -> its pending_digest_key, or None
    None,
    Tiered,           \* workflow_policy.tiered_inboxes
    SameTaskCap,      \* SAME_TASK_PENDING_CAP
    DigestThreshold,  \* DIGEST_THRESHOLD of the expiry
    MaxAttempts,      \* FailedDelivery::max_attempts
    Faults,           \* what may go wrong
    MaxFaults,        \* bound on how often
    MaxRefusals,      \* bound on failed writes of one message to the agent
    MaxRestarts,      \* bound on the restarts of a stalled shim
    MaxBatches        \* bound on the frames that carry several messages

ASSUME DeliveryAssumption ==
    /\ IsFiniteSet(Msgs) /\ None \notin Msgs
    /\ Internal \subseteq Msgs /\ Filtered \subseteq Msgs /\ Digestible \subseteq Msgs
    /\ Tiered \in BOOLEAN
    /\ Kinds \subseteq {"engineer", "claude", "manager", "architect"}
    /\ Faults \subseteq {"crash", "io", "death", "kill", "context", "park"}
    /\ {SameTaskCap, DigestThreshold} \subseteq Nat /\ MaxAttempts \in Nat \ {0, 1}
    /\ {MaxFaults, MaxRefusals, MaxRestarts, MaxBatches} \subseteq Nat

VARIABLES
    kind,      \* the member: role, and for engineers the back end
    phase,     \* where the daemon's tick is
    handle,    \* AgentHandle.state
    member,    \* the member's MemberState
    inflight,  \* AgentHandle.in_flight_message: the last frame sent
    pending,   \* pending_delivery_queue of the member
    failed,    \* failed_deliveries: [frame, attempts]
    acks,      \* pending_shim_acks: message id -> inbox messages it covers
    box,       \* message -> where its inbox file is
    stale,     \* messages whose text the daemon keeps from the agent now
    shim,      \* what the shim is doing
    wire,      \* frames in the socket to the shim
    shimq,     \* frames queued in the shim
    events,    \* events in the socket to the daemon
    given,     \* message -> how often it was written to the agent, up to 2
    fate,      \* message -> why it will not be delivered
    faults,    \* faults so far
    refusals,  \* message -> failed writes of it so far
    restarts,  \* restarts of a stalled shim so far
    batches    \* frames with several messages so far

memory  == <<handle, member, inflight, pending, failed, acks>>
channel == <<shim, wire, shimq, events>>
count   == <<faults, refusals, restarts, batches>>
vars    == <<kind, phase, memory, box, stale, channel, given, fate, count>>

-----------------------------------------------------------------------------
Phases   == {"poll", "timeouts", "inbox", "retry", "expire"}
Boxes    == {"none", "new", "cur", "tierNew", "tierCur"}
Terminal == {"Dead", "ContextExhausted"}

\* A frame is a SendMessage command: its message id and the messages its body
\* carries.  A live message keeps the id it was given when it was first routed;
\* an inbox message is sent under the id of its file; a batch gets a new id.
Live(m)      == [id |-> [of |-> "live", key |-> m], body |-> {m}]
Filed(m)     == [id |-> [of |-> "inbox", key |-> m], body |-> {m}]
Batch(S)     == [id |-> [of |-> "batch", key |-> batches], body |-> S]
NoFrame      == [id |-> [of |-> "none", key |-> None], body |-> {}]

Event(op, x) == [op |-> op, arg |-> x]

Supervisor   == kind \in {"manager", "architect"}
IsReady(h)   == h = "Idle"

Fault(f)  == f \in Faults /\ faults < MaxFaults /\ faults' = faults + 1

\* The part of the state that routing a message changes, as a record: `ok` is
\* whether the call returned Ok.
Now == [handle |-> handle, inflight |-> inflight, pending |-> pending, failed |-> failed,
        acks |-> acks, box |-> box, wire |-> wire, fate |-> fate, ok |-> TRUE]

Becomes(r) ==
    /\ handle' = r.handle
    /\ inflight' = r.inflight
    /\ pending' = r.pending
    /\ failed' = r.failed
    /\ acks' = r.acks
    /\ box' = r.box
    /\ wire' = r.wire
    /\ fate' = r.fate

\* Why the messages S will not be delivered; being logged is final.
Closed(r, S, why) ==
    [r EXCEPT !.fate = [m \in Msgs |-> IF m \in S /\ @[m] # "logged" THEN why ELSE @[m]]]

-----------------------------------------------------------------------------
(* Loops. *)

\* The result of n rounds of a loop: Step(s, i) is what round i makes of s.
Rounds(Step(_, _), start, n) ==
    LET after[i \in 0..n] == IF i = 0 THEN start ELSE Step(after[i - 1], i)
    IN after[n]

\* The queue q without the positions S.
Without(q, S) ==
    Rounds(LAMBDA kept, i : IF i \in S THEN kept ELSE Append(kept, q[i]), <<>>, Len(q))

-----------------------------------------------------------------------------
(* Routing. *)

\* AgentHandle::send_message_with_id: the message in flight is recorded before
\* the write, which fails once the shim has closed its end.
SendCommand(r, f) ==
    [r EXCEPT !.inflight = f,
              !.wire = IF shim = "gone" THEN @ ELSE Append(@, f),
              !.ok = shim # "gone"]

\* send_live_shim_message: a sent message waits for the shim's answer, under
\* its id.
SendLive(r, f, files) ==
    LET s == SendCommand(r, f)
    IN IF s.ok
         THEN [s EXCEPT !.acks = {a \in @ : a.id # f.id}
                                   \cup {[id |-> f.id, files |-> files]}]
         ELSE s
\* Faulty variant: nobody looks at the answers that are still awaited.
PendingAckIgnored(r, m) == FALSE

PendingAck(r, m) == \E a \in r.acks : m \in a.files

\* deliver_flag_aware: the flat inbox, or with tiered inboxes the directory of
\* the message's tier.  A copy of a message that is still in new/ is not told
\* apart from it.
InboxFallback(r, S, io) ==
    [r EXCEPT !.box = [m \in Msgs |->
                         IF m \in S /\ ~io /\ @[m] # "new"
                           THEN IF Tiered THEN "tierNew" ELSE "new"
                         ELSE @[m]],
              !.ok = ~io]

\* pending_digest_key of a queued message.
KeyOf(f) == IF f.id.of = "batch" THEN None ELSE Topic[CHOOSE m \in f.body : TRUE]

\* queue_pending_message_capped: the third message about one task replaces the
\* two that wait.
QueueCapped(r, f) ==
    LET old == {i \in DOMAIN r.pending : KeyOf(f) # None /\ KeyOf(r.pending[i]) = KeyOf(f)}
    IN IF Cardinality(old) >= SameTaskCap
         THEN Closed([r EXCEPT !.pending = Append(Without(@, old), f)],
                     (UNION {r.pending[i].body : i \in old}) \ f.body, "superseded")
         ELSE [r EXCEPT !.pending = Append(@, f)]

\* deliver_message_with_id.
Route(r, f, io) ==
    IF f.id.of # "batch" /\ f.body \subseteq stale
      THEN Closed(r, f.body, "logged")
    ELSE IF IsReady(r.handle)
      THEN LET s == SendLive(r, f, {}) IN IF s.ok THEN s ELSE InboxFallback(s, f.body, io)
    ELSE IF r.handle \notin Terminal THEN QueueCapped(r, f)
    ELSE InboxFallback(r, f.body, io)

\* drain_pending_queue: the queue is taken out as a whole and its messages are
\* routed until one of them fails.
Drain(r, io) ==
    Rounds(LAMBDA s, i : IF s.ok THEN Route(s, r.pending[i], io) ELSE s,
           [r EXCEPT !.pending = <<>>], Len(r.pending))

\* An I/O error counts where it makes a difference.
Errs(io, r) == IF io THEN Fault("io") /\ ~r.ok ELSE UNCHANGED faults

-----------------------------------------------------------------------------
Init ==
    /\ kind \in Kinds
    /\ phase = "poll"
    /\ handle = "Starting"
    /\ member = "Idle"
    /\ inflight = NoFrame
    /\ pending = <<>>
    /\ failed = <<>>
    /\ acks = {}
    /\ box = [m \in Msgs |-> "none"]
    /\ stale \in SUBSET Filtered
    /\ shim = "starting"
    /\ wire = <<>>
    /\ shimq = <<>>
    /\ events = <<>>
    /\ given = [m \in Msgs |-> 0]
    /\ fate = [m \in Msgs |-> "unsent"]
    /\ faults = 0
    /\ refusals = [m \in Msgs |-> 0]
    /\ restarts = 0
    /\ batches = 0

-----------------------------------------------------------------------------
(* The tick.  A phase that would return at once is passed over; the rest of   *)
(* the tick is the time before the next event is read.                        *)

\* member_ready_for_delivery.
MemberReady(h) == h \notin Terminal /\ (IsReady(h) \/ member = "Idle")

Mail == {m \in Msgs : box[m] = "new"}

PastRetry(r) == IF r.pending # <<>> THEN "expire" ELSE "poll"
PastInbox(r) == IF r.failed # <<>> THEN "retry" ELSE PastRetry(r)
PastPoll     == IF handle = "Working" THEN "timeouts"
                ELSE IF Mail # {} /\ MemberReady(handle) THEN "inbox" ELSE PastInbox(Now)

\* poll_shim_handles takes the events one by one.

Poll(op) ==
    /\ phase = "poll"
    /\ events # <<>>
    /\ Head(events).op = op
    /\ events' = Tail(events)
    /\ UNCHANGED <<kind, phase, stale, shim, shimq, given, refusals, restarts, batches>>

Arg == Head(events).arg

\* Ready: unless work is under way the handle becomes Idle; then the queue is
\* drained.
OnReady ==
    /\ Poll("Ready")
    /\ \E io \in BOOLEAN :
         LET r == IF handle = "Working" THEN Now
                  ELSE [Now EXCEPT !.handle = "Idle", !.inflight = NoFrame]
             d == Drain(r, io)
         IN Errs(io, d) /\ Becomes(d)
    /\ member' = IF handle = "Working" THEN member ELSE "Idle"

OnStateChanged ==
    /\ Poll("StateChanged")
    /\ \E io \in BOOLEAN :
         LET r == [Now EXCEPT !.handle = Arg]
             d == IF Arg = "Idle" THEN Drain(r, io) ELSE r
         IN Errs(io, d) /\ Becomes(d)
    /\ member' = IF Arg = "Idle" THEN "Idle" ELSE "Working"

\* MessageDelivered: the inbox files the id stands for move to cur/.
OnMessageDelivered ==
    /\ Poll("MessageDelivered")
    /\ LET done == UNION {a.files : a \in {b \in acks : b.id = Arg}}
       IN box' = [m \in Msgs |-> IF m \in done /\ box[m] = "new" THEN "cur" ELSE box[m]]
    /\ acks' = {a \in acks : a.id # Arg}
    /\ UNCHANGED <<handle, member, inflight, pending, failed, wire, fate, faults>>

OnCompletion ==
    /\ Poll("Completion")
    /\ handle' = "Idle"
    /\ inflight' = NoFrame
    /\ member' = "Idle"
    /\ UNCHANGED <<pending, failed, acks, box, wire, fate, faults>>

\* Faulty variants: the refused message is not recorded; the entry of its id is
\* not removed.
OnDeliveryFailedForgets ==
    /\ Poll("DeliveryFailed")
    /\ handle' = "Idle"
    /\ inflight' = NoFrame
    /\ acks' = {a \in acks : a.id # Arg.id}
    /\ UNCHANGED <<member, pending, failed, box, wire, fate, faults>>

OnDeliveryFailedKeepsAck ==
    /\ Poll("DeliveryFailed")
    /\ handle' = "Idle"
    /\ inflight' = NoFrame
    /\ failed' = IF \E a \in acks : a.id = Arg.id /\ a.files = {}
                   THEN Append(failed, [frame |-> Arg, attempts |-> 1]) ELSE failed
    /\ UNCHANGED <<member, pending, acks, box, wire, fate, faults>>

\* DeliveryFailed: the handle is released if this was the message in flight; a
\* message that is not in the inbox is recorded for a retry.
OnDeliveryFailed ==
    /\ Poll("DeliveryFailed")
    /\ LET mine == inflight # NoFrame /\ inflight.id = Arg.id
           known == {a \in acks : a.id = Arg.id}
       IN /\ handle' = IF mine THEN "Idle" ELSE handle
          /\ inflight' = IF mine THEN NoFrame ELSE inflight
          /\ acks' = acks \ known
          /\ failed' = IF \E a \in known : a.files = {}
                         /\ \A i \in DOMAIN failed : failed[i].frame.body # Arg.body
                         THEN Append(failed, [frame |-> Arg, attempts |-> 1])
                         ELSE failed
    /\ UNCHANGED <<member, pending, box, wire, fate, faults>>

\* ContextExhausted: the handle is terminal and the shim is told to shut down.
\* The restart with the task's context goes through deliver_shim_assignment,
\* which refuses a terminal handle: the shim is replaced when it reports its death.
OnContextExhausted ==
    /\ Poll("ContextExhausted")
    /\ handle' = "ContextExhausted"
    /\ wire' = Append(wire, NoFrame)
    /\ member' \in {member, "Idle"}
    /\ UNCHANGED <<inflight, pending, failed, acks, box, fate, faults>>

\* restart_shim_with_disconnect_handoff: a new shim with a new socket.  The
\* entries that wait for the old shim's answers stay in pending_shim_acks.  A
\* supervisor's message in flight goes back to the head of the queue.
Respawn(requeue) ==
    /\ handle' = "Starting"
    /\ inflight' = NoFrame
    /\ pending' = IF requeue /\ Supervisor /\ inflight # NoFrame
                    THEN <<inflight>> \o pending ELSE pending
    /\ shim' = "starting"
    /\ wire' = <<>>
    /\ shimq' = <<>>
    /\ events' = <<>>

\* Died: the shim is replaced, unless the back end is parked, respawning is
\* switched off or the new shim cannot be started.
OnDied ==
    /\ phase = "poll"
    /\ events # <<>>
    /\ Head(events).op = "Died"
    /\ \/ /\ Respawn(FALSE)
          /\ UNCHANGED faults
       \/ /\ Fault("park")
          /\ handle' = "Dead"
          /\ events' = Tail(events)
          /\ UNCHANGED <<inflight, pending, shim, wire, shimq>>
    /\ UNCHANGED <<kind, phase, member, failed, acks, box, stale, given, fate, refusals, restarts, batches>>

\* The shim has sent nothing more; what it says next may still be on its way.
PollDone ==
    /\ phase = "poll"
    /\ phase' = PastPoll
    /\ UNCHANGED <<kind, memory, box, stale, channel, given, fate, count>>

-----------------------------------------------------------------------------
(* check_working_state_timeouts. *)

Stuck == phase = "timeouts" /\ handle = "Working"

\* A supervisor or a Claude engineer is restarted (handle_shim_cold_respawn);
\* until the new shim reports, its MemberState is Idle.
ColdRespawn ==
    /\ Stuck
    /\ kind # "engineer"
    /\ restarts < MaxRestarts
    /\ restarts' = restarts + 1
    /\ Respawn(TRUE)
    /\ member' = "Idle"
    /\ phase' = "inbox"
    /\ UNCHANGED <<kind, failed, acks, box, stale, given, fate, faults, refusals, batches>>

\* Any other engineer is taken for idle.
ForceIdle ==
    /\ Stuck
    /\ kind = "engineer"
    /\ \E io \in BOOLEAN :
         LET d == Drain([Now EXCEPT !.handle = "Idle"], io) IN Errs(io, d) /\ Becomes(d)
    /\ member' = "Idle"
    /\ phase' = "inbox"
    /\ UNCHANGED <<kind, stale, shim, shimq, events, given, refusals, restarts, batches>>

\* No timeout, or a restart that is on cooldown.
NotStuck ==
    /\ phase = "timeouts"
    /\ phase' = "inbox"
    /\ UNCHANGED <<kind, memory, box, stale, channel, given, fate, count>>

-----------------------------------------------------------------------------
(* deliver_inbox_messages. *)

\* Messages that are kept from the agent are marked delivered.
Suppress(r) ==
    Closed([r EXCEPT !.box = [m \in Msgs |-> IF m \in Mail \cap stale THEN "cur" ELSE @[m]]],
           Mail \cap stale, "logged")

\* Faulty variant: a message counts as delivered when it has been sent.
SendFiledAtOnce(r, m) ==
    LET s == SendLive(r, Filed(m), {m})
    IN IF s.ok THEN [s EXCEPT !.handle = "Working", !.box[m] = "cur"] ELSE s

\* One message of the inbox: the shim's answer will mark it delivered.
SendFiled(r, m) ==
    LET s == SendLive(r, Filed(m), {m})
    IN IF s.ok THEN [s EXCEPT !.handle = "Working"] ELSE s

\* The loop does not stop at the first message: the others follow it to the shim.
SendEach(r, order) == Rounds(LAMBDA s, i : SendFiled(s, order[i]), r, Len(order))

\* The digest of a manager's notices.
DigestOf == {m \in (Mail \cap Digestible) \ stale : ~PendingAck(Now, m)}

InboxPass(r, digest) ==
    \E order \in SetToSeqs({m \in Mail \ (stale \cup digest) : ~PendingAck(r, m)}) :
      LET s == SendEach(r, order)
          flush == /\ digest # {}
                   /\ order = <<>> \/ shim = "gone"
                   /\ IsReady(s.handle)
                   /\ batches < MaxBatches
          t == IF flush THEN SendLive(s, Batch(digest), digest) ELSE s
      IN /\ Becomes(t)
         /\ phase' = PastInbox(t)
         /\ batches' = IF flush THEN batches + 1 ELSE batches

\* An architect's messages go out as one frame, whether or not an earlier frame
\* with them is still waiting for its answer.
Batches == kind = "architect" /\ Cardinality(Mail) > 1 /\ shim # "gone"

DeliverInbox ==
    /\ phase = "inbox"
    /\ MemberReady(handle)
    /\ \/ /\ Batches
          /\ batches < MaxBatches
          /\ Becomes(SendLive(Suppress(Now), Batch(Mail), Mail))
          /\ phase' = PastInbox(Now)
          /\ batches' = batches + 1
       \/ /\ ~Batches
          /\ InboxPass(Suppress(Now),
                       IF kind = "manager" /\ Cardinality(DigestOf) > 1 THEN DigestOf ELSE {})
    /\ UNCHANGED <<kind, member, stale, shim, shimq, events, given, faults, refusals, restarts>>

\* The member is not ready (or the bound on batches is reached).
SkipInbox ==
    /\ phase = "inbox"
    /\ ~MemberReady(handle) \/ batches = MaxBatches
    /\ phase' = PastInbox(Now)
    /\ UNCHANGED <<kind, memory, box, stale, channel, given, fate, count>>

-----------------------------------------------------------------------------
(* retry_failed_deliveries and expire_stale_pending_messages. *)

\* Faulty variants: a retry is dropped when the member is busy; one attempt too
\* many.
RetryOneDrops(r, e, io) ==
    IF ~MemberReady(r.handle) THEN r
    ELSE [SendCommand(r, e.frame) EXCEPT !.handle = "Working"]

RetryOneMore(r, e, io) ==
    IF ~MemberReady(r.handle) THEN [r EXCEPT !.failed = Append(@, e)]
    ELSE LET s == SendCommand(r, e.frame)
             n == e.attempts + 1
         IN IF s.ok THEN [s EXCEPT !.handle = "Working"]
            ELSE IF n <= MaxAttempts
              THEN [s EXCEPT !.failed = Append(@, [e EXCEPT !.attempts = n]), !.ok = TRUE]
            ELSE Closed([s EXCEPT !.ok = TRUE], e.frame.body, "escalated")

\* One failed delivery whose delay is over.  A retry that reaches the socket is
\* forgotten: it has no entry in pending_shim_acks.
RetryOne(r, e, io) ==
    IF ~MemberReady(r.handle) THEN [r EXCEPT !.failed = Append(@, e)]
    ELSE LET s == SendCommand(r, e.frame)
             n == e.attempts + 1
         IN IF s.ok THEN [s EXCEPT !.handle = "Working"]
            ELSE IF n < MaxAttempts
              THEN [s EXCEPT !.failed = Append(@, [e EXCEPT !.attempts = n]), !.ok = TRUE]
            ELSE IF io THEN s
            ELSE Closed([s EXCEPT !.ok = TRUE], e.frame.body, "escalated")

\* The deliveries at the positions `due` have waited long enough.  The list is
\* taken out as a whole; an error ends the loop.
RetryEach(r, due, io) ==
    Rounds(LAMBDA s, i : IF ~s.ok THEN s
                         ELSE IF i \in due THEN RetryOne(s, r.failed[i], io)
                         ELSE [s EXCEPT !.failed = Append(@, r.failed[i])],
           [r EXCEPT !.failed = <<>>], Len(r.failed))

Retry(due) ==
    /\ phase = "retry"
    /\ \E io \in BOOLEAN :
         LET r == RetryEach(Now, due, io)
         IN Errs(io, r) /\ Becomes(r) /\ phase' = PastRetry(r)
    /\ UNCHANGED <<kind, member, stale, shim, shimq, events, given, refusals, restarts, batches>>

RetryFailed == \E due \in SUBSET DOMAIN failed : Retry(due)

\* The messages at the positions `old` of the queue have waited too long.  Up to
\* DigestThreshold of them go to the inbox one by one; of more, only the newest.
Expire(old) ==
    /\ phase = "expire"
    /\ \E io \in BOOLEAN :
         LET newest == CHOOSE i \in old : \A j \in old : j <= i
             put == IF Cardinality(old) <= DigestThreshold THEN old ELSE {newest}
             filed == UNION {pending[i].body : i \in put}
             dropped == (UNION {pending[i].body : i \in old \ put}) \ filed
             kept == [Now EXCEPT !.pending = Without(@, old)]
             r == InboxFallback(Closed(kept, dropped, "superseded"), filed, io)
         IN (io => old # {}) /\ Errs(io, r) /\ Becomes(r)
    /\ phase' = "poll"
    /\ UNCHANGED <<kind, member, stale, shim, shimq, events, given, refusals, restarts, batches>>

ExpirePending == \E old \in SUBSET DOMAIN pending : Expire(old)

\* maybe_sweep_tiered_inboxes: what is older than its tier's limit moves to cur/.
SweepTiers ==
    /\ phase = "poll"
    /\ \E m \in Msgs :
         /\ box[m] = "tierNew"
         /\ box' = [box EXCEPT ![m] = "tierCur"]
         /\ fate' = [fate EXCEPT ![m] = "expired"]
    /\ UNCHANGED <<kind, phase, memory, stale, channel, given, count>>

-----------------------------------------------------------------------------
(* Where messages come from. *)

\* A nudge, report or notice of the daemon itself (deliver_message).
DaemonMessage(m) ==
    /\ phase = "poll"
    /\ m \in Internal
    /\ fate[m] = "unsent"
    /\ \E io \in BOOLEAN :
         LET r == Route([Now EXCEPT !.fate[m] = "none"], Live(m), io)
         IN Errs(io, r) /\ Becomes(r)
    /\ UNCHANGED <<kind, phase, member, stale, shim, shimq, events, given, refusals, restarts, batches>>

\* `batty send` writes to the flat inbox; the legacy command queue honours the
\* tiers.
InboxMessage(m) ==
    /\ m \notin Internal
    /\ fate[m] = "unsent"
    /\ \E b \in {"new", IF Tiered THEN "tierNew" ELSE "new"} : box' = [box EXCEPT ![m] = b]
    /\ fate' = [fate EXCEPT ![m] = "none"]
    /\ UNCHANGED <<kind, phase, memory, stale, channel, given, count>>

\* The task a notice is about is merged meanwhile.
BecomesStale(m) ==
    /\ m \in Filtered \ stale
    /\ stale' = stale \cup {m}
    /\ UNCHANGED <<kind, phase, memory, box, channel, given, fate, count>>

\* The daemon is restarted: only the inboxes and the MemberStates last saved
\* remain, and every shim is started anew.
DaemonRestart ==
    /\ Fault("crash")
    /\ phase' = "poll"
    /\ handle' = "Starting"
    /\ member' \in {"Idle", "Working"}
    /\ inflight' = NoFrame
    /\ pending' = <<>>
    /\ failed' = <<>>
    /\ acks' = {}
    /\ shim' = "starting"
    /\ wire' = <<>>
    /\ shimq' = <<>>
    /\ events' = <<>>
    /\ UNCHANGED <<kind, box, stale, given, fate, refusals, restarts, batches>>

-----------------------------------------------------------------------------
(* The shim, as far as the daemon sees it. *)

Emit(s) == events' = events \o s

Give(f) == given' = [m \in Msgs |-> IF m \in f.body /\ given[m] < 2
                                      THEN given[m] + 1 ELSE given[m]]

ShimStep == UNCHANGED <<kind, phase, memory, box, stale, fate, refusals, restarts, batches>>

ShimReady ==
    /\ shim = "starting"
    /\ shim' = "idle"
    /\ Emit(<<Event("Ready", None)>>)
    /\ UNCHANGED <<wire, shimq, given, faults>>
    /\ ShimStep

\* A message for an idle agent is written to it and acknowledged.
ShimWrites ==
    /\ shim = "idle"
    /\ wire # <<>>
    /\ Head(wire) # NoFrame
    /\ wire' = Tail(wire)
    /\ shim' = "working"
    /\ Give(Head(wire))
    /\ Emit(<<Event("MessageDelivered", Head(wire).id), Event("StateChanged", "Working")>>)
    /\ UNCHANGED <<shimq, faults>>
    /\ ShimStep

ShimWriteFails ==
    /\ shim = "idle"
    /\ wire # <<>>
    /\ Head(wire) # NoFrame
    /\ \A m \in Head(wire).body : refusals[m] < MaxRefusals
    /\ refusals' = [m \in Msgs |-> IF m \in Head(wire).body THEN refusals[m] + 1
                                   ELSE refusals[m]]
    /\ wire' = Tail(wire)
    /\ Emit(<<Event("DeliveryFailed", Head(wire))>>)
    /\ UNCHANGED <<kind, phase, memory, box, stale, shim, shimq, given, fate, faults, restarts, batches>>

\* A message for a busy agent is queued; it is never acknowledged.
ShimQueues ==
    /\ shim = "working"
    /\ wire # <<>>
    /\ Head(wire) # NoFrame
    /\ wire' = Tail(wire)
    /\ shimq' = Append(shimq, Head(wire))
    /\ UNCHANGED <<shim, events, given, faults>>
    /\ ShimStep

\* A message for a dead or exhausted agent is answered with an Error that names
\* no message.
ShimDiscards ==
    /\ shim \in {"dead", "exhausted"}
    /\ wire # <<>>
    /\ Head(wire) # NoFrame
    /\ wire' = Tail(wire)
    /\ UNCHANGED <<shim, shimq, events, given, faults>>
    /\ ShimStep

\* The turn ends; the next queued message is written.
ShimTurnEnds ==
    /\ shim = "working"
    /\ IF shimq = <<>>
         THEN /\ shim' = "idle"
              /\ Emit(<<Event("StateChanged", "Idle"), Event("Completion", None)>>)
              /\ UNCHANGED <<shimq, given>>
         ELSE /\ shimq' = Tail(shimq)
              /\ Give(Head(shimq))
              /\ Emit(<<Event("StateChanged", "Idle"), Event("Completion", None),
                        Event("StateChanged", "Working")>>)
              /\ UNCHANGED shim
    /\ UNCHANGED <<wire, faults>>
    /\ ShimStep

AgentDies ==
    /\ shim \in {"starting", "idle", "working"}
    /\ Fault("death")
    /\ shim' = "dead"
    /\ shimq' = <<>>
    /\ Emit(<<Event("StateChanged", "Dead"), Event("Died", None)>>)
    /\ UNCHANGED <<wire, given>>
    /\ ShimStep

ContextFull ==
    /\ shim \in {"idle", "working"}
    /\ Fault("context")
    /\ shim' = "exhausted"
    /\ shimq' = <<>>
    /\ Emit(<<Event("StateChanged", "ContextExhausted"), Event("ContextExhausted", None)>>)
    /\ UNCHANGED <<wire, given>>
    /\ ShimStep

\* Shutdown, which the daemon sends only to an exhausted shim it keeps: the agent
\* is terminated, its end is reported, the shim exits.
ShimShutdown ==
    /\ wire # <<>>
    /\ Head(wire) = NoFrame
    /\ shim \in {"exhausted", "dead"}
    /\ shim' = "gone"
    /\ wire' = <<>>
    /\ Emit(IF shim = "dead" THEN <<>> ELSE <<Event("StateChanged", "Dead"), Event("Died", None)>>)
    /\ UNCHANGED <<shimq, given, faults>>
    /\ ShimStep

\* The shim process is killed: nothing is reported, the socket is closed.
ShimKilled ==
    /\ shim # "gone"
    /\ Fault("kill")
    /\ shim' = "gone"
    /\ wire' = <<>>
    /\ shimq' = <<>>
    /\ UNCHANGED <<events, given>>
    /\ ShimStep

-----------------------------------------------------------------------------
Handler ==
    \/ OnReady \/ OnStateChanged \/ OnMessageDelivered \/ OnCompletion
    \/ OnDeliveryFailed \/ OnContextExhausted \/ OnDied

Tick ==
    \/ Handler \/ PollDone
    \/ ColdRespawn \/ ForceIdle \/ NotStuck
    \/ DeliverInbox \/ SkipInbox
    \/ RetryFailed \/ ExpirePending
    \/ SweepTiers
    \/ \E m \in Msgs : DaemonMessage(m)

Shim ==
    \/ ShimReady \/ ShimWrites \/ ShimWriteFails \/ ShimQueues \/ ShimDiscards
    \/ ShimTurnEnds \/ AgentDies \/ ContextFull \/ ShimShutdown \/ ShimKilled

Next ==
    \/ Tick
    \/ Shim
    \/ \E m \in Msgs : InboxMessage(m) \/ BecomesStale(m)
    \/ DaemonRestart

Spec == Init /\ [][Next]_vars

\* The tick goes on; events arrive and are read; timers run out; the shim serves
\* its socket and agents finish their turns.
Fairness ==
    /\ WF_vars(Tick)
    /\ SF_vars(Handler)
    /\ SF_vars(ForceIdle)
    /\ SF_vars(ColdRespawn)
    /\ SF_vars(MemberReady(handle) /\ Retry(DOMAIN failed))
    /\ SF_vars(Expire(DOMAIN pending))
    /\ WF_vars(ShimReady)
    /\ WF_vars(ShimWrites)
    /\ WF_vars(ShimQueues \/ ShimDiscards \/ ShimShutdown)
    /\ WF_vars(ShimTurnEnds)

FairSpec == Spec /\ Fairness

-----------------------------------------------------------------------------
(* Properties. *)

FrameIds == [of : {"live", "inbox"}, key : Msgs] \cup [of : {"batch"}, key : 0..MaxBatches]
Frame    == [id : FrameIds, body : SUBSET Msgs]

Handles  == {"Starting", "Idle", "Working"} \cup Terminal
Failures == [frame : Frame, attempts : 1..(MaxAttempts - 1)]
Acks     == [id : FrameIds, files : SUBSET Msgs]
Fates    == {"unsent", "none", "logged", "superseded", "escalated", "expired"}

\* An event with the argument that belongs to it.
IsEvent(e) ==
    \/ e.op \in {"Ready", "Completion", "ContextExhausted", "Died"} /\ e.arg = None
    \/ e.op = "StateChanged" /\ e.arg \in Handles
    \/ e.op = "MessageDelivered" /\ e.arg \in FrameIds
    \/ e.op = "DeliveryFailed" /\ e.arg \in Frame

\* The type of every variable.  A failed delivery has attempts left: the last one
\* is escalated, not kept.
TypeOK ==
    /\ kind \in Kinds /\ phase \in Phases
    /\ handle \in Handles
    /\ member \in {"Idle", "Working"}
    /\ inflight \in Frame \cup {NoFrame}
    /\ pending \in Seq(Frame)
    /\ failed \in Seq(Failures)
    /\ acks \subseteq Acks
    /\ box \in [Msgs -> Boxes]
    /\ stale \subseteq Filtered
    /\ shim \in {"starting", "idle", "working", "dead", "exhausted", "gone"}
    /\ wire \in Seq(Frame \cup {NoFrame}) /\ shimq \in Seq(Frame)
    /\ \A i \in DOMAIN events : IsEvent(events[i])
    /\ given \in [Msgs -> 0..2]
    /\ fate \in [Msgs -> Fates]
    /\ faults \in 0..MaxFaults /\ refusals \in [Msgs -> 0..MaxRefusals]
    /\ restarts \in 0..MaxRestarts /\ batches \in 0..MaxBatches

Frames(q) == UNION {q[i].body : i \in DOMAIN q}

\* A write failure the shim has reported and the daemon has not read yet.
Refused(m) ==
    \E i \in DOMAIN events :
       /\ events[i].op = "DeliveryFailed"
       /\ m \in events[i].arg.body
       /\ \E a \in acks : a.id = events[i].arg.id

InMemory(m)  == m \in Frames(pending) \/ \E i \in DOMAIN failed : m \in failed[i].frame.body

\* A supervisor's message in flight is kept for the replay after a restart.
OnChannel(m) ==
    \/ m \in Frames(wire) \cup Frames(shimq)
    \/ Refused(m)
    \/ Supervisor /\ m \in inflight.body

Place(m) ==
    IF given[m] > 0 THEN "given"
    ELSE IF box[m] \in {"new", "tierNew"} THEN "inbox"
    ELSE IF fate[m] \notin {"unsent", "none"} THEN "closed"
    ELSE IF InMemory(m) THEN "memory"
    ELSE IF OnChannel(m) THEN "channel"
    ELSE IF fate[m] = "unsent" THEN "unsent"
    ELSE "lost"

Link == CASE shim = "starting" -> "starting"
          [] shim \in {"idle", "working"} -> "up"
          [] OTHER -> "down"

Ledger == INSTANCE MessageLedger
            WITH place <- [m \in Msgs |-> Place(m)], link <- Link, refused <- refusals,
                 troubles <- faults

\* No agent of an engineer is given a message twice, unless something fails: one
\* that waits in the inbox for the shim's answer is not sent again, and neither
\* the timeouts, the retries nor the fallback of an old message to the inbox make
\* a second copy.
GivenOnce ==
    ~Supervisor /\ faults = 0 => \A m \in Msgs : given[m] <= 1

\* Every message the inbox takes in is at last given to the agent, unless the
\* daemon decides to keep it from the agent: deliver_inbox_messages serves what
\* deliver_flag_aware and `batty send` put there.
InboxServed ==
    \A m \in Msgs : box[m] \in {"new", "tierNew"} ~> given[m] > 0 \/ fate[m] = "logged"

\* Every message the daemon routes comes to an end: it is given, kept, replaced
\* by a newer one or escalated, whether it was sent, queued, refused by the shim
\* and retried, or fell back to the inbox.
RoutedSettles ==
    \A m \in Internal : fate[m] # "unsent" ~> given[m] > 0 \/ fate[m] \notin {"unsent", "none"}

\* The delivery code implements MessageLedger: it loses a message only where the
\* ledger allows it.
Accounted == Ledger!Spec
=============================================================================
