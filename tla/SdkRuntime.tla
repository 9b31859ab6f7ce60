----------------------------- MODULE SdkRuntime -----------------------------
(***************************************************************************)
(* The shim that talks to Claude Code over NDJSON                          *)
(* (src/src/shim/runtime_sdk.rs): the command loop (`main`), the thread    *)
(* that reads the agent's stdout (`reader`), the state they share under a  *)
(* mutex, and the agent's stdin, which both of them write.                 *)
(*                                                                         *)
(* What a thread does after it has dropped the mutex (events to the        *)
(* daemon, input to the agent) is a list of things it still has to do, and *)
(* every one of them is a step of its own.  Of the events, those that name *)
(* a message are kept.  Every message has an id.                           *)
(***************************************************************************)
EXTENDS Naturals, Sequences, FiniteSets, SequencesExt

CONSTANTS
    Order,         \* the messages, in the order in which the daemon sends them
    None,
    QueueDepth,    \* MAX_QUEUE_DEPTH
    MaxRetests,    \* TEST_FAILURE_MAX_ITERATIONS
    MaxKeepalives  \* bound on the keepalives

Msgs == Range(Order)

ASSUME SdkAssumption ==
    /\ Order \in Seq(Msgs) /\ IsInjective(Order)
    /\ Msgs \cap {None, "keepalive", "followup"} = {} /\ None \notin {"keepalive", "followup"}
    /\ QueueDepth \in Nat \ {0}
    /\ {MaxRetests, MaxKeepalives} \subseteq Nat

VARIABLES
    state,     \* SdkState.state
    current,   \* SdkState.pending_message_id
    queue,     \* SdkState.message_queue
    session,   \* whether SdkState.session_id is known
    retests,   \* SdkState.test_failure_iterations
    main,      \* where the command loop is
    mainDo,    \* what it still has to do
    reader,    \* where the reader is: "timed" and "untimed" wait for a line
    readerDo,
    stdin,     \* what the agent has not read yet
    stdout,    \* the lines the reader has not read yet
    agent,     \* [mode, on]: what the agent does, and its present input
    open,      \* whether the agent's stdin takes input: the agent has not exited
    sent,      \* how many messages the shim has taken from the daemon
    written,   \* messages written to the agent's stdin
    answered,  \* messages the agent has finished
    told,      \* what the daemon has been told about the messages
    stalled,   \* whether a turn was ever given up
    keepalives \* keepalives so far

shared  == <<state, current, queue, session, retests>>
threads == <<main, mainDo, reader, readerDo>>
pipes   == <<stdin, stdout, agent, open>>
history == <<sent, written, answered, told, stalled, keepalives>>
vars    == <<shared, threads, pipes, history>>

-----------------------------------------------------------------------------
Terminal == {"ContextExhausted", "Dead"}
Inputs   == Msgs \cup {"keepalive", "followup"}

Results  == {"result", "failing", "full"}

Say(ev, x) == [do |-> ev, arg |-> x]
Put(x)     == [do |-> "Put", arg |-> x]

\* turn_in_flight.
TurnInFlight == state = "Working" \/ current # None

\* drain_queue_errors: one Error for every message of the queue.
\* Faulty variant: the queue is cleared and nobody is told.
DrainErrorsSilent(q) == <<>>

DrainErrors(q) == [i \in DOMAIN q |-> Say("Dropped", q[i])]

\* What the daemon knows once it has read the event e.
Hear(e) ==
    CASE e.do = "MessageDelivered" -> [told EXCEPT !.acked = @ \cup {e.arg}]
      [] e.do = "DeliveryFailed"   -> [told EXCEPT !.refused = @ \cup {e.arg}]
      [] e.do = "Dropped"          -> [told EXCEPT !.dropped = @ \cup {e.arg}]
      [] e.do = "Completion"       -> [told EXCEPT !.completed = @ \cup ({e.arg} \cap Msgs)]

Init ==
    /\ state = "Idle"
    /\ current = None
    /\ queue = <<>>
    /\ session = FALSE
    /\ retests = 0
    /\ main = "recv"
    /\ mainDo = <<>>
    /\ reader = "top"
    /\ readerDo = <<>>
    /\ stdin = <<>>
    /\ stdout = <<>>
    /\ agent = [mode |-> "waiting", on |-> None]
    /\ open = TRUE
    /\ sent = 0
    /\ written = {}
    /\ answered = {}
    /\ told = [acked |-> {}, refused |-> {}, dropped |-> {}, completed |-> {}]
    /\ stalled = FALSE
    /\ keepalives = 0

-----------------------------------------------------------------------------
(* Doing what is left to do. *)

\* A write fails once the agent has exited.
Write(x) ==
    /\ stdin' = IF open THEN Append(stdin, x) ELSE stdin
    /\ written' = IF open /\ x \in Msgs THEN written \cup {x} ELSE written
    /\ UNCHANGED told

Tell(e) ==
    /\ told' = Hear(e)
    /\ UNCHANGED <<stdin, written>>

\* The reader ignores the result of a write.
ReaderActs ==
    /\ readerDo # <<>>
    /\ readerDo' = Tail(readerDo)
    /\ IF Head(readerDo).do = "Put" THEN Write(Head(readerDo).arg) ELSE Tell(Head(readerDo))
    /\ UNCHANGED <<shared, main, mainDo, reader, stdout, agent, open, sent, answered, stalled, keepalives>>

\* The command loop reports it: a failed write leaves the state Working.
MainActs ==
    /\ mainDo # <<>>
    /\ LET d == Head(mainDo)
       IN IF d.do = "Put"
            THEN /\ Write(d.arg)
                 /\ mainDo' = IF d.arg \in Msgs
                              THEN <<Say(IF open THEN "MessageDelivered" ELSE "DeliveryFailed", d.arg)>>
                              ELSE <<>>
                 /\ main' = IF d.arg \notin Msgs /\ ~open THEN "restore" ELSE main
            ELSE /\ Tell(d)
                 /\ mainDo' = Tail(mainDo)
                 /\ UNCHANGED main
    /\ UNCHANGED <<shared, reader, readerDo, stdout, agent, open, sent, answered, stalled, keepalives>>

-----------------------------------------------------------------------------
(* The command loop. *)

Exit ==
    /\ agent' = [mode |-> "exited", on |-> None]
    /\ open' = FALSE
    /\ stdin' = <<>>

Receives(m) ==
    /\ main = "recv"
    /\ mainDo = <<>>
    /\ sent < Len(Order) /\ m = Order[sent + 1]
    /\ sent' = sent + 1
    /\ UNCHANGED <<session, main, reader, readerDo, pipes, written, answered, told, stalled, keepalives>>

\* Faulty variant: only a busy agent is spared.
AcceptsAnyway == state # "Working"

Accepts == state = "Idle"

\* Faulty variant: the message is acknowledged before it is written.
SendNowAcks(m) ==
    /\ Receives(m)
    /\ Accepts
    /\ state' = "Working"
    /\ current' = m
    /\ retests' = 0
    /\ mainDo' = <<Say("MessageDelivered", m), Put(m)>>
    /\ UNCHANGED queue

\* An idle agent gets the message.
SendNow(m) ==
    /\ Receives(m)
    /\ Accepts
    /\ state' = "Working"
    /\ current' = m
    /\ retests' = 0
    /\ mainDo' = <<Put(m)>>
    /\ UNCHANGED queue

\* Faulty variant: the queue is looked at after the message was added.
SendLaterOverfills(m) ==
    /\ Receives(m)
    /\ state = "Working"
    /\ LET full == Len(queue) > QueueDepth
       IN /\ queue' = Append(IF full THEN Tail(queue) ELSE queue, m)
          /\ mainDo' = IF full THEN <<Say("Dropped", Head(queue))>> ELSE <<>>
    /\ UNCHANGED <<state, current, retests>>

\* A busy one gets it later; a full queue drops its oldest message.
SendLater(m) ==
    /\ Receives(m)
    /\ state = "Working"
    /\ LET full == Len(queue) >= QueueDepth
       IN /\ queue' = Append(IF full THEN Tail(queue) ELSE queue, m)
          /\ mainDo' = IF full THEN <<Say("Dropped", Head(queue))>> ELSE <<>>
    /\ UNCHANGED <<state, current, retests>>

SendRefused(m) ==
    /\ Receives(m)
    /\ state \in Terminal
    /\ mainDo' = <<Say("Dropped", m)>>
    /\ UNCHANGED <<state, current, queue, retests>>

\* Keepalives are counted, and left out once a turn was given up.
KeepaliveBound == keepalives < MaxKeepalives /\ ~stalled

\* maybe_send_keepalive: the daemon is not told.
Keepalive ==
    /\ main = "recv"
    /\ mainDo = <<>>
    /\ state = "Idle" /\ session /\ current = None
    /\ KeepaliveBound
    /\ keepalives' = keepalives + 1
    /\ state' = "Working"
    /\ retests' = 0
    /\ mainDo' = <<Put("keepalive")>>
    /\ UNCHANGED <<current, queue, session, main, reader, readerDo, pipes,
                   sent, written, answered, told, stalled>>

\* Its write failed: the state is Idle again, whatever it has become meanwhile.
KeepaliveFailed ==
    /\ main = "restore"
    /\ main' = "recv"
    /\ state' = "Idle"
    /\ UNCHANGED <<current, queue, session, retests, mainDo, reader, readerDo, pipes, history>>

\* Shutdown, Kill, or the daemon has gone: the agent exits in time or is
\* terminated; the loop ends.
Stop ==
    /\ main = "recv"
    /\ mainDo = <<>>
    /\ main' = "done"
    /\ Exit
    /\ UNCHANGED <<shared, mainDo, reader, readerDo, stdout, history>>

-----------------------------------------------------------------------------
(* The reader. *)

\* stdout_read_timeout: decided before the wait begins.
ReadTimeout == IF state = "Working" THEN "timed" ELSE "untimed"

ReaderWaits ==
    /\ reader = "top"
    /\ readerDo = <<>>
    /\ reader' = ReadTimeout
    /\ UNCHANGED <<shared, main, mainDo, readerDo, pipes, history>>

Reads(kind) ==
    /\ reader \in {"timed", "untimed"}
    /\ stdout # <<>>
    /\ Head(stdout).is = kind
    /\ stdout' = Tail(stdout)
    /\ reader' = "top"
    /\ UNCHANGED <<main, mainDo, stdin, open, sent, written, answered, told, stalled, keepalives>>

\* Text of the agent: its first text tells the session.
ReadText ==
    /\ Reads("text")
    /\ session' = (session \/ TurnInFlight)
    /\ UNCHANGED <<state, current, queue, retests, readerDo, agent>>

\* control_request: the tool is approved, in a turn or not.
ReadToolRequest ==
    /\ Reads("ask")
    /\ agent' = IF open /\ agent.mode = "asking" THEN [agent EXCEPT !.mode = "busy"] ELSE agent
    /\ UNCHANGED <<shared, readerDo>>

\* A result when no turn is in flight.
ReadStray ==
    /\ \E kind \in Results : Reads(kind)
    /\ ~TurnInFlight
    /\ UNCHANGED <<shared, readerDo, agent>>

\* The agent is out of context.  The pending id stays.
ReadContextExhausted ==
    /\ Reads("full")
    /\ TurnInFlight
    /\ session' = TRUE
    /\ state' = "ContextExhausted"
    /\ queue' = <<>>
    /\ readerDo' = DrainErrors(queue)
    /\ UNCHANGED <<current, retests, agent>>

\* The answer shows failing tests: the agent is told to fix them.  The turn loses
\* its id.  The count stops at its limit, the requests do not.
ReadTestFailure ==
    /\ Reads("failing")
    /\ TurnInFlight
    /\ session' = TRUE
    /\ current' = None
    /\ retests' = IF retests < MaxRetests THEN retests + 1 ELSE MaxRetests
    /\ state' = "Working"
    /\ readerDo' = <<Put("followup")>>
    /\ UNCHANGED <<queue, agent>>

\* Faulty variant: the id is read after the next message has taken its place.
EndTurnSwapped ==
    LET next == IF queue = <<>> THEN None ELSE Head(queue)
    IN /\ state' = IF next = None THEN "Idle" ELSE "Working"
       /\ current' = next
       /\ queue' = IF next = None THEN queue ELSE Tail(queue)
       /\ readerDo' = <<Say("Completion", next)>> \o (IF next = None THEN <<>> ELSE <<Put(next)>>)

\* The turn is over; the next message of the queue starts another one.
EndTurn ==
    LET next == IF queue = <<>> THEN None ELSE Head(queue)
    IN /\ state' = IF next = None THEN "Idle" ELSE "Working"
       /\ current' = next
       /\ queue' = IF next = None THEN queue ELSE Tail(queue)
       /\ readerDo' = <<Say("Completion", current)>> \o (IF next = None THEN <<>> ELSE <<Put(next)>>)

ReadResult ==
    /\ Reads("result")
    /\ TurnInFlight
    /\ session' = TRUE
    /\ retests' = 0
    /\ EndTurn
    /\ UNCHANGED agent

\* Faulty variant: a turn whose message has no id is not given up.
StallNeedsId ==
    /\ reader = "timed"
    /\ stdout = <<>>
    /\ reader' = "top"
    /\ IF state = "Working" /\ current # None
         THEN EndTurn /\ stalled' = TRUE
         ELSE UNCHANGED <<state, current, queue, readerDo, stalled>>
    /\ UNCHANGED <<session, retests, main, mainDo, pipes, sent, written, answered, told,
                   keepalives>>

\* force_stalled_completion: nothing was heard for WORKING_READ_TIMEOUT.
Stall ==
    /\ reader = "timed"
    /\ stdout = <<>>
    /\ reader' = "top"
    /\ IF state = "Working"
         THEN EndTurn /\ stalled' = TRUE
         ELSE UNCHANGED <<state, current, queue, readerDo, stalled>>
    /\ UNCHANGED <<session, retests, main, mainDo, pipes, sent, written, answered, told,
                   keepalives>>

ReadEof ==
    /\ reader \in {"timed", "untimed"}
    /\ stdout = <<>>
    /\ agent.mode = "exited"
    /\ reader' = "done"
    /\ state' = "Dead"
    /\ queue' = <<>>
    /\ readerDo' = DrainErrors(queue)
    /\ UNCHANGED <<current, session, retests, main, mainDo, pipes, history>>

-----------------------------------------------------------------------------
(* The agent, from how the shim uses it: one result for every input.  It may  *)
(* say something first, ask for a tool, say nothing for ever, or exit.        *)

AgentStep == UNCHANGED <<shared, threads, sent, written, told, stalled, keepalives>>

AgentReads ==
    /\ agent.mode = "waiting"
    /\ stdin # <<>>
    /\ agent' = [mode |-> "fresh", on |-> Head(stdin)]
    /\ stdin' = Tail(stdin)
    /\ UNCHANGED <<stdout, open, answered>>
    /\ AgentStep

AgentSpeaks ==
    /\ agent.mode = "fresh"
    /\ \E kind \in {"text", "ask"} :
         /\ stdout' = Append(stdout, [is |-> kind])
         /\ agent' = [agent EXCEPT !.mode = IF kind = "ask" THEN "asking" ELSE "busy"]
    /\ UNCHANGED <<stdin, open, answered>>
    /\ AgentStep

AgentAnswers(kind) ==
    /\ agent.mode \in {"fresh", "busy"}
    /\ stdout' = Append(stdout, [is |-> kind])
    /\ agent' = [mode |-> "waiting", on |-> None]
    /\ answered' = answered \cup ({agent.on} \cap Msgs)
    /\ UNCHANGED <<stdin, open>>
    /\ AgentStep

AgentExits ==
    /\ agent.mode # "exited"
    /\ Exit
    /\ UNCHANGED <<stdout, answered>>
    /\ AgentStep

-----------------------------------------------------------------------------
Reader ==
    \/ ReaderActs \/ ReaderWaits
    \/ ReadText \/ ReadToolRequest \/ ReadStray \/ ReadContextExhausted
    \/ ReadTestFailure \/ ReadResult \/ ReadEof

Main ==
    \/ MainActs \/ KeepaliveFailed
    \/ Keepalive \/ Stop
    \/ \E m \in Msgs : SendNow(m) \/ SendLater(m) \/ SendRefused(m)

Agent ==
    \/ AgentReads \/ AgentSpeaks \/ AgentExits
    \/ \E kind \in Results : AgentAnswers(kind)

Next == Reader \/ Stall \/ Main \/ Agent

Spec == Init /\ [][Next]_vars

\* The threads run and the timer of a timed wait runs out.  Nothing is assumed of
\* the agent.
Fairness ==
    /\ WF_vars(Reader)
    /\ WF_vars(Stall)
    /\ WF_vars(MainActs \/ KeepaliveFailed)

FairSpec == Spec /\ Fairness

-----------------------------------------------------------------------------
(* Properties. *)

Items == [do : {"MessageDelivered", "DeliveryFailed", "Dropped", "Completion", "Put"},
          arg : Inputs \cup {None}]

\* The type of every variable; no queue is longer than MAX_QUEUE_DEPTH.
TypeOK ==
    /\ state \in {"Idle", "Working"} \cup Terminal
    /\ current \in Msgs \cup {None}
    /\ queue \in Seq(Msgs) /\ Len(queue) <= QueueDepth
    /\ session \in BOOLEAN
    /\ retests \in 0..MaxRetests
    /\ main \in {"recv", "restore", "done"}
    /\ reader \in {"top", "timed", "untimed", "done"}
    /\ mainDo \in Seq(Items) /\ readerDo \in Seq(Items)
    /\ stdin \in Seq(Inputs)
    /\ stdout \in Seq([is : {"text", "ask", "result", "failing", "full"}])
    /\ agent \in [mode : {"waiting", "fresh", "busy", "asking", "exited"}, on : Inputs \cup {None}]
    /\ {open, stalled} \subseteq BOOLEAN
    /\ keepalives \in 0..MaxKeepalives
    /\ sent \in 0..Len(Order) /\ written \subseteq Msgs /\ answered \subseteq Msgs
    /\ told \in [acked : SUBSET Msgs, refused : SUBSET Msgs, dropped : SUBSET Msgs,
                 completed : SUBSET Msgs]

Left(todo) == {todo[i].arg : i \in DOMAIN todo}

\* No message disappears: one the shim has taken was written to the agent, waits
\* in the queue or in a thread, or the daemon was told that it is not delivered.
\* The exception is the message from the queue whose write fails, which nobody
\* checks; it needs an agent that has exited, and the message is then the one in
\* flight, unless a turn was given up.
Accounted ==
    \A m \in {Order[i] : i \in 1..sent} :
       \/ m \in written \cup told.refused \cup told.dropped
       \/ m \in Range(queue) \cup Left(mainDo) \cup Left(readerDo)
       \/ ~open /\ (m = current \/ stalled)

\* The daemon is told that a message is complete only when the agent has answered
\* that very message, as long as no turn was given up: a result belongs to the
\* message in flight.
CompletionIsOwn ==
    ~stalled => told.completed \subseteq answered

\* The daemon is never told that a message was delivered which was not, nor of one
\* message both that it was refused or dropped and that it was delivered.
ReportsAgree ==
    /\ told.acked \subseteq written
    /\ (told.refused \cup told.dropped) \cap written = {}

\* An agent without context gets no further turn, as long as no turn was given up:
\* neither the command loop nor a result brings the shim out of ContextExhausted.
ExhaustedIsFinal ==
    [][state = "ContextExhausted" /\ ~stalled => state' \in Terminal]_vars

\* A turn the reader watches with a timeout ends even if the agent says nothing
\* any more, and so do the turns of the messages queued behind it; or the agent
\* has been asked to fix its tests as often as it may be.
WatchedTurnEnds ==
    state = "Working" /\ reader = "timed" ~> state # "Working" \/ retests = MaxRetests

\* Every turn ends, watched or not.
TurnEnds ==
    state = "Working" ~> state # "Working"
=============================================================================
