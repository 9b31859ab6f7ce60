---------------------------- MODULE ShimRuntime ----------------------------
(***************************************************************************)
(* The PTY shim runtime (src/src/shim/runtime.rs, function run): one       *)
(* process per agent that owns the agent's pseudo terminal, classifies the *)
(* screen, injects messages and reports events to the daemon.              *)
(*                                                                         *)
(* Four threads share ShimInner under one mutex: the PTY reader, the Kiro  *)
(* idle thread, the 5-second screen poll and the main (command) thread.    *)
(* Each locked section is one action.  Everything a thread does after it   *)
(* drops the lock (sending events, writing to the PTY, taking the lock     *)
(* again) is put in todo[thread] and performed one step at a time, so that *)
(* the other threads interleave with it exactly where the code lets them.  *)
(*                                                                         *)
(* Time is abstracted: the dwell, settle, quiet and poll delays may be     *)
(* over or not when a thread looks at them.  The screen is reduced to the  *)
(* classifier's verdict on it.                                             *)
(***************************************************************************)
EXTENDS Naturals, Sequences, FiniteSets

CONSTANTS
    Msgs,            \* the messages the daemon may send, each at most once
    Tracked,         \* those of them that carry a message_id
    None,            \* no message (Option::None)
    Followup,        \* the shim's own "tests failed" message
    AgentType,       \* "Claude", "Codex", "Kiro" or "Generic"
    MaxQueueDepth,   \* MAX_QUEUE_DEPTH
    MaxIterations,   \* TEST_FAILURE_MAX_ITERATIONS
    MaxDialogs,      \* the limit of dialogs_dismissed
    DaemonMayLeave   \* the daemon's end of the socket may close

ASSUME ConstantsAssumption ==
    /\ Tracked \subseteq Msgs
    /\ None \notin Msgs
    /\ Followup \notin Msgs
    /\ AgentType \in {"Claude", "Codex", "Kiro", "Generic"}
    /\ MaxQueueDepth \in Nat \ {0}
    /\ MaxIterations \in Nat \ {0}
    /\ MaxDialogs \in Nat
    /\ DaemonMayLeave \in BOOLEAN

States == {"Starting", "Idle", "Working", "ContextExhausted", "Dead"}
Verdicts == {"AgentIdle", "AgentWorking", "ContextExhausted", "Unknown"}
Threads == {"reader", "kiro", "poll", "main"}

VARIABLES
    state,       \* ShimInner.state
    pending,     \* ShimInner.pending_message_id
    queue,       \* ShimInner.message_queue
    iterations,  \* ShimInner.test_failure_iterations
    engaged,     \* ShimInner.pre_injection_content is not empty
    warned,      \* ShimInner.context_approaching_emitted
    dialogs,     \* ShimInner.dialogs_dismissed
    prompting,   \* the classifier's verdict on the parser's screen is AgentIdle
    agent,       \* the agent process: "alive" or "exited"
    gone,        \* the threads that have ended
    main,        \* where the main thread is in run()
    todo,        \* what each thread still does outside the lock
    connected,   \* the daemon's end of the socket is open
    unsent,      \* messages the daemon has not sent yet
    prompt,      \* messages pasted into the agent's prompt, not submitted
    submitted,   \* messages the agent has been given
    sent         \* history: the events about messages on the socket

inner  == <<state, pending, queue, iterations, engaged, warned, dialogs, prompting>>
world  == <<agent, gone, main, connected>>
ledger == <<unsent, prompt, submitted, sent>>
vars   == <<inner, world, ledger, todo>>

-----------------------------------------------------------------------------
(* Steps outside the lock. *)

Events == {"Ready", "StateChanged", "MessageDelivered", "Completion", "Died",
           "ContextExhausted", "ContextApproaching", "Warning",
           "DeliveryFailed", "Error", "Reply"}

\* "paste" and "enter" write to the PTY, "work" takes the lock again after
\* the write, the rest send one event.  must: the code gives up when the send
\* fails (`?` or return); otherwise it ignores the failure (`let _ =`).
Step == [op : Events \cup {"paste", "enter", "work"},
         msg : Msgs \cup {None, Followup},
         to : States,
         must : BOOLEAN]

Do(op, m)          == [op |-> op, msg |-> m, to |-> "Idle", must |-> FALSE]
Must(op, m)        == [op |-> op, msg |-> m, to |-> "Idle", must |-> TRUE]
Changed(to, must)  == [op |-> "StateChanged", msg |-> None, to |-> to, must |-> must]

IdOf(m) == IF m \in Tracked THEN m ELSE None
Elements(s) == {s[i] : i \in DOMAIN s}

\* A bracketed paste and, 200 ms later, Enter; Generic agents get one write.
PtyWritePaced(m) ==
    IF AgentType = "Generic" THEN <<Do("enter", m)>>
                             ELSE <<Do("paste", m), Do("enter", m)>>

\* One Error event for each message of the queue.
DrainQueueErrors(q, must) ==
    [i \in DOMAIN q |-> [op |-> "Error", msg |-> q[i], to |-> "Idle", must |-> must]]

\* StateChanged and, when a turn that had an injected message ends, Completion.
TurnEndEvents(id) ==
    <<Changed("Idle", TRUE)>> \o
    (IF engaged THEN <<Must("Completion", id)>> ELSE <<>>)

-----------------------------------------------------------------------------
Init ==
    /\ state = "Starting"
    /\ pending = None
    /\ queue = <<>>
    /\ iterations = 0
    /\ engaged = FALSE
    /\ warned = FALSE
    /\ dialogs = 0
    /\ prompting = FALSE
    /\ agent = "alive"
    /\ gone = {}
    /\ main = "startup"
    /\ todo = [t \in Threads |-> <<>>]
    /\ connected = TRUE
    /\ unsent = Msgs
    /\ prompt = {}
    /\ submitted = {}
    /\ sent = {}

\* Thread t is at the top of its loop; nothing runs once run() has returned.
AtTop(t) == main # "exited" /\ t \notin gone /\ todo[t] = <<>>

Then(t, steps) == todo' = [todo EXCEPT ![t] = steps]

-----------------------------------------------------------------------------
(* The PTY reader: one action per outcome of a screen change with verdict v. *)

Observe(v) ==
    /\ AtTop("reader")
    /\ agent = "alive"
    /\ prompting' = (v = "AgentIdle")

\* The context-pressure signal is reported once, and that screen is not
\* classified any further.
ReaderContextApproaching(v) ==
    /\ Observe(v)
    /\ ~warned
    /\ warned' = TRUE
    /\ Then("reader", <<Do("ContextApproaching", None)>>)
    /\ UNCHANGED <<state, pending, queue, iterations, engaged, dialogs, world, ledger>>

\* The pairs of state and verdict that leave the state alone.  Working with an
\* idle screen is one of them while the dwell time is not over, and always for
\* Kiro.
NoTransition(v) ==
    \/ v = "Unknown"
    \/ v = "AgentIdle" /\ state \in {"Idle", "Working", "ContextExhausted", "Dead"}
    \/ v = "AgentWorking" /\ state \in {"Working", "ContextExhausted", "Dead"}

ReaderNoTransition(v) ==
    /\ Observe(v)
    /\ NoTransition(v)
    /\ UNCHANGED <<state, pending, queue, iterations, engaged, warned, dialogs,
                   world, ledger, todo>>

\* The transitions other than the end of a turn; each takes the pending id.
ReaderTransition(v) ==
    /\ Observe(v)
    /\ \E new \in {"Idle", "Working"} :
        /\ \/ state = "Starting" /\ v = "AgentIdle" /\ new = "Idle"
           \/ state \in {"Starting", "Idle"} /\ v = "AgentWorking" /\ new = "Working"
        /\ state' = new
        /\ Then("reader", <<Changed(new, TRUE)>>)
    /\ pending' = None
    /\ UNCHANGED <<queue, iterations, engaged, warned, dialogs, world, ledger>>

\* Any state becomes ContextExhausted, again and again while the screen says so.
ReaderContextExhausted(v) ==
    /\ Observe(v)
    /\ v = "ContextExhausted"
    /\ state' = "ContextExhausted"
    /\ pending' = None
    /\ queue' = <<>>
    /\ Then("reader", <<Changed("ContextExhausted", TRUE), Must("ContextExhausted", None)>>
                      \o DrainQueueErrors(queue, TRUE))
    /\ UNCHANGED <<iterations, engaged, warned, dialogs, world, ledger>>

\* Faulty variant: the iteration count is not capped.
TurnFollowupUncapped(t) ==
    /\ iterations' = iterations + 1
    /\ iterations <= MaxIterations
    /\ engaged' = TRUE
    /\ pending' = None
    /\ state' = "Working"
    /\ Then(t, PtyWritePaced(Followup) \o <<Do("Warning", None)>>)
    /\ UNCHANGED queue

\* The response shows failing tests: the turn goes on with a follow-up message.
TurnFollowup(t) ==
    /\ iterations' = IF iterations < MaxIterations THEN iterations + 1 ELSE MaxIterations
    /\ engaged' = TRUE
    /\ pending' = None
    /\ state' = "Working"
    /\ Then(t, PtyWritePaced(Followup) \o <<Do("Warning", None)>>)
    /\ UNCHANGED queue

\* The turn ends with nothing queued.
TurnEndIdle(t) ==
    /\ queue = <<>>
    /\ state' = "Idle"
    /\ pending' = None
    /\ iterations' = 0
    /\ Then(t, TurnEndEvents(pending))
    /\ UNCHANGED <<queue, engaged>>

\* Faulty variants: the message is read but not popped; the pending id stays
\* that of the turn that ended.
TurnEndNextPeek(t) ==
    /\ queue # <<>>
    /\ state' = "Working"
    /\ pending' = IdOf(Head(queue))
    /\ iterations' = 0
    /\ engaged' = TRUE
    /\ Then(t, TurnEndEvents(pending) \o PtyWritePaced(Head(queue))
               \o <<Changed("Working", FALSE)>>)
    /\ UNCHANGED queue

TurnEndNextStaleId(t) ==
    /\ queue # <<>>
    /\ state' = "Working"
    /\ queue' = Tail(queue)
    /\ iterations' = 0
    /\ engaged' = TRUE
    /\ Then(t, TurnEndEvents(pending) \o PtyWritePaced(Head(queue))
               \o <<Changed("Working", FALSE)>>)
    /\ UNCHANGED pending

\* The turn ends and the oldest queued message starts the next one.
TurnEndNext(t) ==
    /\ queue # <<>>
    /\ state' = "Working"
    /\ pending' = IdOf(Head(queue))
    /\ queue' = Tail(queue)
    /\ iterations' = 0
    /\ engaged' = TRUE
    /\ Then(t, TurnEndEvents(pending) \o PtyWritePaced(Head(queue))
               \o <<Changed("Working", FALSE)>>)

TurnEnd(t) == TurnFollowup(t) \/ TurnEndIdle(t) \/ TurnEndNext(t)

ReaderTurnEnd(v) ==
    /\ Observe(v)
    /\ v = "AgentIdle"
    /\ state = "Working"
    /\ AgentType # "Kiro"
    /\ TurnEnd("reader")
    /\ UNCHANGED <<warned, dialogs, world, ledger>>

\* Faulty variants: the queue is not drained; Died is not sent.
ReaderEofNoDrain ==
    /\ AtTop("reader")
    /\ agent = "exited"
    /\ gone' = gone \cup {"reader"}
    /\ state' = "Dead"
    /\ Then("reader", <<Changed("Dead", FALSE), Do("Died", None)>>)
    /\ UNCHANGED <<pending, queue, iterations, engaged, warned, dialogs, prompting,
                   agent, main, connected, ledger>>

ReaderEofNoDied ==
    /\ AtTop("reader")
    /\ agent = "exited"
    /\ gone' = gone \cup {"reader"}
    /\ state' = "Dead"
    /\ queue' = <<>>
    /\ Then("reader", <<Changed("Dead", FALSE)>> \o DrainQueueErrors(queue, FALSE))
    /\ UNCHANGED <<pending, iterations, engaged, warned, dialogs, prompting, agent,
                   main, connected, ledger>>

\* End of file on the PTY: the reader marks the shim dead and ends.
ReaderEof ==
    /\ AtTop("reader")
    /\ agent = "exited"
    /\ gone' = gone \cup {"reader"}
    /\ state' = "Dead"
    /\ queue' = <<>>
    /\ Then("reader", <<Changed("Dead", FALSE), Do("Died", None)>>
                      \o DrainQueueErrors(queue, FALSE))
    /\ UNCHANGED <<pending, iterations, engaged, warned, dialogs, prompting, agent,
                   main, connected, ledger>>

-----------------------------------------------------------------------------
(* The Kiro idle thread and the screen poll thread. *)

KiroIdle ==
    /\ AtTop("kiro")
    /\ AgentType = "Kiro"
    /\ state = "Working"
    /\ prompting
    /\ TurnEnd("kiro")
    /\ UNCHANGED <<warned, dialogs, prompting, world, ledger>>

\* Only the state and its event: queue and pending id are left as they are.
PollIdle ==
    /\ AtTop("poll")
    /\ state = "Working"
    /\ prompting
    /\ state' = "Idle"
    /\ Then("poll", <<Changed("Idle", FALSE)>>)
    /\ UNCHANGED <<pending, queue, iterations, engaged, warned, dialogs, prompting,
                   world, ledger>>

-----------------------------------------------------------------------------
(* The main thread: startup. *)

\* Enter, for a startup dialog on the screen.
MainDismissDialog ==
    /\ AtTop("main")
    /\ main = "startup"
    /\ state = "Starting"
    /\ dialogs < MaxDialogs
    /\ dialogs' = dialogs + 1
    /\ UNCHANGED <<state, pending, queue, iterations, engaged, warned, prompting,
                   world, ledger, todo>>

MainReady ==
    /\ AtTop("main")
    /\ main = "startup"
    /\ state = "Idle"
    /\ main' = "commands"
    /\ Then("main", <<Must("Ready", None)>>)
    /\ UNCHANGED <<inner, agent, gone, connected, ledger>>

\* Faulty variant: the timeout covers the Starting arm only.
MainReadyTimeoutStarting ==
    /\ AtTop("main")
    /\ main = "startup"
    /\ state = "Starting"
    /\ main' = "exited"
    /\ agent' = IF connected THEN "exited" ELSE agent
    /\ UNCHANGED <<inner, gone, connected, ledger, todo>>

\* READY_TIMEOUT_SECS: the error is sent, the agent killed, run() returns; a
\* send that fails returns before the kill.
MainReadyTimeout ==
    /\ AtTop("main")
    /\ main = "startup"
    /\ state \notin {"Idle", "Dead"}
    /\ main' = "exited"
    /\ agent' = IF connected THEN "exited" ELSE agent
    /\ UNCHANGED <<inner, gone, connected, ledger, todo>>

MainStartupDead ==
    /\ AtTop("main")
    /\ main = "startup"
    /\ state = "Dead"
    /\ main' = "exited"
    /\ UNCHANGED <<inner, agent, gone, connected, ledger, todo>>

-----------------------------------------------------------------------------
(* The main thread: commands. *)

\* Commands the daemon wrote before it went away are still read.
Receive == AtTop("main") /\ main = "commands"

\* Faulty variant: the acknowledgement is sent before the write.
SendWhenIdleEarlyAck(m) ==
    /\ state = "Idle"
    /\ pending' = IdOf(m)
    /\ engaged' = TRUE
    /\ iterations' = 0
    /\ Then("main", (IF m \in Tracked THEN <<Must("MessageDelivered", m)>> ELSE <<>>)
                    \o PtyWritePaced(m) \o <<Do("work", m), Changed("Working", TRUE)>>)
    /\ UNCHANGED queue

\* SendMessage in Idle: the message is written without the lock and the state
\* becomes Working only after the write.
SendWhenIdle(m) ==
    /\ state = "Idle"
    /\ pending' = IdOf(m)
    /\ engaged' = TRUE
    /\ iterations' = 0
    /\ Then("main", PtyWritePaced(m) \o <<Do("work", m)>>
                    \o (IF m \in Tracked THEN <<Must("MessageDelivered", m)>> ELSE <<>>)
                    \o <<Changed("Working", TRUE)>>)
    /\ UNCHANGED queue

\* Faulty variant: the oldest message is dropped without an Error.
SendWhenWorkingSilentDrop(m) ==
    /\ state = "Working"
    /\ queue' = Append(IF Len(queue) >= MaxQueueDepth THEN Tail(queue) ELSE queue, m)
    /\ Then("main", <<Must("Warning", None)>>)
    /\ UNCHANGED <<pending, engaged, iterations>>

\* SendMessage in Working: queued, dropping the oldest one when the queue is full.
SendWhenWorking(m) ==
    /\ state = "Working"
    /\ IF Len(queue) >= MaxQueueDepth
         THEN /\ queue' = Append(Tail(queue), m)
              /\ Then("main", <<Must("Error", Head(queue)), Must("Warning", None)>>)
         ELSE /\ queue' = Append(queue, m)
              /\ Then("main", <<Must("Warning", None)>>)
    /\ UNCHANGED <<pending, engaged, iterations>>

SendRejected(m) ==
    /\ state \notin {"Idle", "Working"}
    /\ Then("main", <<Must("Error", m)>>)
    /\ UNCHANGED <<pending, queue, engaged, iterations>>

MainSendMessage(m) ==
    /\ Receive
    /\ m \in unsent
    /\ unsent' = unsent \ {m}
    /\ SendWhenIdle(m) \/ SendWhenWorking(m) \/ SendRejected(m)
    /\ UNCHANGED <<state, warned, dialogs, prompting, world, prompt, submitted, sent>>

\* CaptureScreen, GetState, Resize and Ping: at most a reply.
MainQuery ==
    /\ Receive
    /\ connected
    /\ Then("main", <<Must("Reply", None)>>)
    /\ UNCHANGED <<inner, world, ledger>>

\* Shutdown: Ctrl-C, then wait for the agent to exit or for the deadline.
MainShutdown ==
    /\ Receive
    /\ main' = "stopping"
    /\ UNCHANGED <<inner, agent, gone, connected, ledger, todo>>

\* Faulty variant: the agent is not terminated at the deadline.
MainStoppedNoKill ==
    /\ main = "stopping"
    /\ main' = "joining"
    /\ UNCHANGED <<inner, agent, gone, connected, ledger, todo>>

MainStopped ==
    /\ main = "stopping"
    /\ main' = "joining"
    /\ agent' = "exited"
    /\ UNCHANGED <<inner, gone, connected, ledger, todo>>

\* Kill, and the end of the daemon's socket: the agent group is terminated.
MainKill ==
    /\ AtTop("main")
    /\ main = "commands"
    /\ main' = "joining"
    /\ agent' = "exited"
    /\ UNCHANGED <<inner, gone, connected, ledger, todo>>

\* pty_handle.join(): run() returns when the reader has ended.
MainJoin ==
    /\ AtTop("main")
    /\ main = "joining"
    /\ "reader" \in gone
    /\ todo["reader"] = <<>>
    /\ main' = "exited"
    /\ UNCHANGED <<inner, agent, gone, connected, ledger, todo>>

-----------------------------------------------------------------------------
(* Outside the lock. *)

Running(t) == main # "exited" /\ todo[t] # <<>>
Now(t)     == Head(todo[t])
Rest(t)    == Tail(todo[t])

\* The agent's prompt takes the paste; Enter submits all that is in it.
WriteOk(t) ==
    /\ Running(t)
    /\ \/ /\ Now(t).op = "paste"
          /\ prompt' = prompt \cup ({Now(t).msg} \cap Msgs)
          /\ UNCHANGED submitted
       \/ /\ Now(t).op = "enter"
          /\ submitted' = submitted \cup prompt \cup ({Now(t).msg} \cap Msgs)
          /\ prompt' = {}
    /\ Then(t, Rest(t))
    /\ UNCHANGED <<inner, world, unsent, sent>>

\* Faulty variant: the main thread reports nothing.
AfterWriteFailureSilent(t, m) ==
    IF t = "main" THEN <<>> ELSE <<Do("Error", m)>>

\* What each thread does when pty_write_paced fails.
AfterWriteFailure(t, m) ==
    CASE t = "main" ->
            (IF m \in Tracked THEN <<Must("DeliveryFailed", m)>> ELSE <<>>)
            \o <<Must("Error", m)>>
      [] t = "reader" /\ m # Followup -> <<Do("Error", m), Changed("Working", FALSE)>>
      [] OTHER -> <<Do("Error", m)>>

WriteFails(t) ==
    /\ Running(t)
    /\ Now(t).op \in {"paste", "enter"}
    /\ Then(t, AfterWriteFailure(t, Now(t).msg))
    /\ UNCHANGED <<inner, world, ledger>>

\* The main thread takes the lock again after its write: Working, whatever the
\* state has become meanwhile.
SetWorking(t) ==
    /\ Running(t)
    /\ Now(t).op = "work"
    /\ state' = "Working"
    /\ Then(t, Rest(t))
    /\ UNCHANGED <<pending, queue, iterations, engaged, warned, dialogs, prompting,
                   world, ledger>>

SendEvent(t) ==
    /\ Running(t)
    /\ Now(t).op \in Events
    /\ connected
    /\ sent' = IF Now(t).msg \in Msgs \/ Now(t).op = "Died"
                 THEN sent \cup {[op |-> Now(t).op, msg |-> Now(t).msg]}
                 ELSE sent
    /\ Then(t, Rest(t))
    /\ UNCHANGED <<inner, world, unsent, prompt, submitted>>

\* The socket is closed: `?` ends run(), return ends the reader, the Kiro
\* thread ends too; the sends whose result is ignored just go on.
SendEventFails(t) ==
    /\ Running(t)
    /\ Now(t).op \in Events
    /\ ~connected
    /\ IF Now(t).must
         THEN /\ main' = IF t = "main" THEN "exited" ELSE main
              /\ gone' = gone \cup {t}
              /\ Then(t, <<>>)
         ELSE /\ Then(t, Rest(t))
              /\ UNCHANGED <<main, gone>>
    /\ UNCHANGED <<inner, agent, connected, ledger>>

\* The environment: the agent exits, the daemon goes away.
AgentExits ==
    /\ main # "exited"
    /\ agent = "alive"
    /\ agent' = "exited"
    /\ UNCHANGED <<inner, gone, main, connected, ledger, todo>>

DaemonDisconnects ==
    /\ DaemonMayLeave
    /\ main # "exited"
    /\ connected
    /\ connected' = FALSE
    /\ UNCHANGED <<inner, agent, gone, main, ledger, todo>>

-----------------------------------------------------------------------------
Reader ==
    \/ \E v \in Verdicts :
        \/ ReaderContextApproaching(v)
        \/ ReaderNoTransition(v)
        \/ ReaderTransition(v)
        \/ ReaderContextExhausted(v)
        \/ ReaderTurnEnd(v)
    \/ ReaderEof

Main ==
    \/ MainDismissDialog
    \/ MainReady
    \/ MainReadyTimeout
    \/ MainStartupDead
    \/ \E m \in Msgs : MainSendMessage(m)
    \/ MainQuery
    \/ MainShutdown
    \/ MainStopped
    \/ MainKill
    \/ MainJoin

Outside(t) == WriteOk(t) \/ WriteFails(t) \/ SetWorking(t) \/ SendEvent(t) \/ SendEventFails(t)

Next ==
    \/ Reader
    \/ KiroIdle
    \/ PollIdle
    \/ Main
    \/ \E t \in Threads : Outside(t)
    \/ AgentExits
    \/ DaemonDisconnects

Spec == Init /\ [][Next]_vars

-----------------------------------------------------------------------------
(* Safety *)

\* The type of the shim's state, and of what its threads have left to do.
TypeOK ==
    /\ state \in States
    /\ pending \in Tracked \cup {None}
    /\ queue \in Seq(Msgs)
    /\ iterations \in 0 .. MaxIterations
    /\ engaged \in BOOLEAN
    /\ warned \in BOOLEAN
    /\ dialogs \in 0 .. MaxDialogs
    /\ prompting \in BOOLEAN
    /\ agent \in {"alive", "exited"}
    /\ gone \subseteq Threads
    /\ main \in {"startup", "commands", "stopping", "joining", "exited"}
    /\ todo \in [Threads -> Seq(Step)]
    /\ connected \in BOOLEAN
    /\ unsent \subseteq Msgs
    /\ prompt \subseteq Msgs
    /\ submitted \subseteq Msgs
    /\ sent \subseteq [op : Events, msg : Msgs \cup {None, Followup}]

\* The queue never grows past MAX_QUEUE_DEPTH, whichever thread pops it, and a
\* shim that is starting, exhausted or dead holds no queued message: whatever
\* makes it so drains the queue in the same locked section (drain_queue_errors).
QueueDiscipline ==
    /\ Len(queue) <= MaxQueueDepth
    /\ queue # <<>> => state \in {"Idle", "Working"}

Reported(m, ops) == \E op \in ops : [op |-> op, msg |-> m] \in sent
InHand(t, m) == \E i \in DOMAIN todo[t] : todo[t][i].msg = m

\* As long as the daemon listens, a message it sent is never silently lost: it
\* is queued, some thread still has a step to do with it, it reached the
\* agent's prompt, or an event said that it failed.
NoSilentLoss ==
    connected => \A m \in Msgs \ unsent :
        \/ m \in Elements(queue)
        \/ \E t \in Threads : InHand(t, m)
        \/ m \in prompt \cup submitted
        \/ Reported(m, {"Error", "DeliveryFailed"})

\* A message that a thread is about to write has never been written before, and
\* a queued one neither: no interleaving of the threads injects a message twice.
NotWrittenTwice ==
    /\ Elements(queue) \cap (prompt \cup submitted) = {}
    /\ \A t \in Threads : \A i \in DOMAIN todo[t] :
        (todo[t][i].op = (IF AgentType = "Generic" THEN "enter" ELSE "paste")
            /\ todo[t][i].msg \in Msgs)
        => todo[t][i].msg \notin prompt \cup submitted

\* MessageDelivered is honest: the daemon removes the message from its inbox
\* on that event, so it may only name messages the agent was given.
AckMeansSubmitted ==
    \A m \in Msgs : Reported(m, {"MessageDelivered"}) => m \in submitted

\* A turn is reported complete at most once for each message.
CompletedOnce ==
    [][\A t \in Threads :
        (SendEvent(t) /\ Now(t).op = "Completion" /\ Now(t).msg \in Msgs)
        => ~Reported(Now(t).msg, {"Completion"})]_vars

-----------------------------------------------------------------------------
(* Liveness.  Every thread keeps running: what it has left to do is done, *)
(* the reader sees the end of the PTY, the startup loop either sees Idle   *)
(* or runs into its timeout, a shutdown ends at its deadline.              *)

Startup == MainReady \/ MainReadyTimeout \/ MainStartupDead

Fairness ==
    /\ \A t \in Threads : WF_vars(Outside(t))
    /\ WF_vars(ReaderEof)
    /\ WF_vars(Startup)
    /\ WF_vars(MainStopped)
    /\ WF_vars(MainJoin)
    /\ WF_vars(MainKill /\ ~connected)

FairSpec == Spec /\ Fairness

\* The agent's exit is reported: Died reaches a daemon that listens.
DeathIsReported ==
    (agent = "exited") ~>
        (~connected \/ main = "exited" \/ [op |-> "Died", msg |-> None] \in sent)

\* run() returns once it starts to stop, or when the daemon goes away.
ShimStops ==
    (main \in {"stopping", "joining"} \/ ~connected) ~> (main = "exited")

\* Startup always ends: Ready, or run() returns.
StartupEnds == main = "startup" ~> main # "startup"

\* A message the main thread writes itself is acknowledged or refused; it
\* cannot be left without an answer while the daemon listens.
DirectSendAnswered ==
    \A m \in Tracked :
        InHand("main", m) ~>
            (Reported(m, {"MessageDelivered", "DeliveryFailed", "Error"})
             \/ ~connected \/ main = "exited")
=============================================================================
