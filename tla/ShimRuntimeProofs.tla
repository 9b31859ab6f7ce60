------------------------- MODULE ShimRuntimeProofs -------------------------
(***************************************************************************)
(* Type correctness and the queue discipline of ShimRuntime, for every set *)
(* of messages, every queue depth and every kind of agent.                 *)
(***************************************************************************)
EXTENDS ShimRuntime, TLAPS

-----------------------------------------------------------------------------
(* What the helpers build is a sequence of steps. *)

\* Do builds a step.
LEMMA DoType ==
    ASSUME NEW op \in Events \cup {"paste", "enter", "work"},
           NEW m \in Msgs \cup {None, Followup}
    PROVE  Do(op, m) \in Step
BY DEF Do, Step, States

\* Must builds a step.
LEMMA MustType ==
    ASSUME NEW op \in Events, NEW m \in Msgs \cup {None, Followup}
    PROVE  Must(op, m) \in Step
BY DEF Must, Step, States

\* Changed builds a step.
LEMMA ChangedType ==
    ASSUME NEW to \in States, NEW must \in BOOLEAN
    PROVE  Changed(to, must) \in Step
BY DEF Changed, Step, Events

\* The concatenation of two sequences of steps is one.
LEMMA ConcatType ==
    ASSUME NEW s1 \in Seq(Step), NEW s2 \in Seq(Step)
    PROVE  s1 \o s2 \in Seq(Step)
OBVIOUS

\* One step and two steps make a sequence, and so does none.
LEMMA TupleType ==
    ASSUME NEW a \in Step, NEW b \in Step
    PROVE  <<>> \in Seq(Step) /\ <<a>> \in Seq(Step) /\ <<a, b>> \in Seq(Step)
OBVIOUS

\* pty_write_paced is a sequence of writes.
LEMMA PtyWriteType ==
    ASSUME NEW m \in Msgs \cup {Followup}
    PROVE  PtyWritePaced(m) \in Seq(Step)
<1>1. Do("enter", m) \in Step /\ Do("paste", m) \in Step
  BY DoType
<1>. QED
  BY <1>1 DEF PtyWritePaced

\* drain_queue_errors is a sequence of Error events, one for each message.
LEMMA DrainType ==
    ASSUME NEW q \in Seq(Msgs), NEW must \in BOOLEAN
    PROVE  DrainQueueErrors(q, must) \in Seq(Step)
<1>. DEFINE e(i) == [op |-> "Error", msg |-> q[i], to |-> "Idle", must |-> must]
<1>1. ASSUME NEW i \in 1 .. Len(q) PROVE e(i) \in Step
  BY DEF Step, Events, States
<1>2. DOMAIN q = 1 .. Len(q) /\ Len(q) \in Nat
  OBVIOUS
<1>3. [i \in 1 .. Len(q) |-> e(i)] \in Seq(Step)
  BY <1>1, <1>2
<1>. QED
  BY <1>2, <1>3 DEF DrainQueueErrors

\* The events at the end of a turn.
LEMMA TurnEndType ==
    ASSUME NEW id \in Msgs \cup {None}
    PROVE  TurnEndEvents(id) \in Seq(Step)
<1>1. Changed("Idle", TRUE) \in Step
  BY ChangedType DEF States
<1>2. Must("Completion", id) \in Step
  BY MustType DEF Events
<1>3. (IF engaged THEN <<Must("Completion", id)>> ELSE <<>>) \in Seq(Step)
  BY <1>2, TupleType
<1>4. <<Changed("Idle", TRUE)>> \in Seq(Step)
  BY <1>1, TupleType
<1>. QED
  BY <1>3, <1>4, ConcatType DEF TurnEndEvents

\* The steps after a failed write.
LEMMA AfterFailureType ==
    ASSUME NEW t \in Threads, NEW m \in Msgs \cup {None, Followup}
    PROVE  AfterWriteFailure(t, m) \in Seq(Step)
<1>1. Must("DeliveryFailed", m) \in Step /\ Must("Error", m) \in Step
  BY MustType DEF Events
<1>2. Do("Error", m) \in Step
  BY DoType DEF Events
<1>3. Changed("Working", FALSE) \in Step
  BY ChangedType DEF States
<1>4. (IF m \in Tracked THEN <<Must("DeliveryFailed", m)>> ELSE <<>>) \in Seq(Step)
  BY <1>1, TupleType
<1>5. <<Must("Error", m)>> \in Seq(Step)
  BY <1>1, TupleType
<1>6. <<Do("Error", m), Changed("Working", FALSE)>> \in Seq(Step)
  BY <1>2, <1>3, TupleType
<1>7. <<Do("Error", m)>> \in Seq(Step)
  BY <1>2, TupleType
<1>8. (IF m \in Tracked THEN <<Must("DeliveryFailed", m)>> ELSE <<>>)
        \o <<Must("Error", m)>> \in Seq(Step)
  BY <1>4, <1>5, ConcatType
<1>. QED
  BY <1>6, <1>7, <1>8 DEF AfterWriteFailure

\* A thread's new list of steps keeps todo well typed.
LEMMA ThenType ==
    ASSUME todo \in [Threads -> Seq(Step)], NEW t \in Threads,
           NEW steps \in Seq(Step), Then(t, steps)
    PROVE  todo' \in [Threads -> Seq(Step)]
BY DEF Then

-----------------------------------------------------------------------------
(* The invariant is inductive as it stands: the two facts about the queue    *)
(* only need each other's types, because every locked section that leaves    *)
(* Idle or Working drains the queue in the same step.                        *)

IInv == TypeOK /\ QueueDiscipline

USE DEF IInv

\* The initial state.
LEMMA InitIInv == Init => IInv
<1>. SUFFICES ASSUME Init PROVE IInv
  OBVIOUS
<1>1. todo \in [Threads -> Seq(Step)]
  BY DEF Init
<1>2. QueueDiscipline
  BY ConstantsAssumption DEF Init, QueueDiscipline
<1>3. queue \in Seq(Msgs) /\ sent \subseteq [op : Events, msg : Msgs \cup {None, Followup}]
  BY DEF Init
<1>4. iterations \in 0 .. MaxIterations /\ dialogs \in 0 .. MaxDialogs
  BY ConstantsAssumption DEF Init
<1>5. /\ state \in States
      /\ pending \in Tracked \cup {None}
      /\ engaged \in BOOLEAN /\ warned \in BOOLEAN /\ prompting \in BOOLEAN
      /\ connected \in BOOLEAN
  BY DEF Init, States
<1>6. /\ agent \in {"alive", "exited"}
      /\ gone \subseteq Threads
      /\ main \in {"startup", "commands", "stopping", "joining", "exited"}
      /\ unsent \subseteq Msgs
      /\ prompt \subseteq Msgs
      /\ submitted \subseteq Msgs
  BY DEF Init
<1>. QED
  BY <1>1, <1>2, <1>3, <1>4, <1>5, <1>6 DEF TypeOK

\* Facts about a queue of messages that every step on it uses.
LEMMA QueueFacts ==
    ASSUME NEW q \in Seq(Msgs), NEW m \in Msgs
    PROVE  /\ Len(q) \in Nat
           /\ Len(q) = 0 <=> q = <<>>
           /\ q # <<>> => /\ Head(q) \in Msgs
                          /\ Tail(q) \in Seq(Msgs)
                          /\ Len(Tail(q)) = Len(q) - 1
           /\ Append(q, m) \in Seq(Msgs)
           /\ Len(Append(q, m)) = Len(q) + 1
OBVIOUS

\* The reader's screen changes that do not end a turn.
LEMMA ReaderScreenIInv ==
    ASSUME IInv, NEW v \in Verdicts,
           \/ ReaderContextApproaching(v)
           \/ ReaderNoTransition(v)
           \/ ReaderTransition(v)
           \/ ReaderContextExhausted(v)
    PROVE  IInv'
<1>1. CASE ReaderContextApproaching(v)
  <2>1. <<Do("ContextApproaching", None)>> \in Seq(Step)
    BY DoType, TupleType DEF Events
  <2>2. todo' \in [Threads -> Seq(Step)]
    BY <1>1, <2>1, ThenType DEF ReaderContextApproaching, TypeOK, Threads
  <2>. QED
    BY <1>1, <2>2 DEF ReaderContextApproaching, Observe, TypeOK, QueueDiscipline,
                      world, ledger
<1>2. CASE ReaderNoTransition(v)
  BY <1>2 DEF ReaderNoTransition, Observe, TypeOK, QueueDiscipline, world, ledger
<1>3. CASE ReaderTransition(v)
  <2>1. PICK new \in {"Idle", "Working"} :
            state' = new /\ Then("reader", <<Changed(new, TRUE)>>)
    BY <1>3 DEF ReaderTransition
  <2>2. <<Changed(new, TRUE)>> \in Seq(Step)
    BY ChangedType, TupleType DEF States
  <2>3. todo' \in [Threads -> Seq(Step)]
    BY <2>1, <2>2, ThenType DEF TypeOK, Threads
  <2>. QED
    BY <1>3, <2>1, <2>3 DEF ReaderTransition, Observe, TypeOK, QueueDiscipline,
                            world, ledger, States
<1>4. CASE ReaderContextExhausted(v)
  <2>1. DrainQueueErrors(queue, TRUE) \in Seq(Step)
    BY DrainType DEF TypeOK
  <2>2. <<Changed("ContextExhausted", TRUE), Must("ContextExhausted", None)>> \in Seq(Step)
    BY ChangedType, MustType, TupleType DEF States, Events
  <2>3. todo' \in [Threads -> Seq(Step)]
    BY <1>4, <2>1, <2>2, ConcatType, ThenType
       DEF ReaderContextExhausted, TypeOK, Threads
  <2>. QED
    BY <1>4, <2>3, ConstantsAssumption
       DEF ReaderContextExhausted, Observe, TypeOK, QueueDiscipline, world, ledger, States
<1>. QED
  BY <1>1, <1>2, <1>3, <1>4

\* What the end of a turn does to the fields it changes, in either thread.
LEMMA TurnEndPreserves ==
    ASSUME IInv, NEW t \in Threads, TurnEnd(t), state = "Working"
    PROVE  /\ state' \in States
           /\ pending' \in Tracked \cup {None}
           /\ queue' \in Seq(Msgs)
           /\ iterations' \in 0 .. MaxIterations
           /\ engaged' \in BOOLEAN
           /\ todo' \in [Threads -> Seq(Step)]
           /\ QueueDiscipline'
<1>0. pending \in Msgs \cup {None} /\ todo \in [Threads -> Seq(Step)]
  BY ConstantsAssumption DEF TypeOK
<1>1. CASE TurnFollowup(t)
  <2>1. PtyWritePaced(Followup) \in Seq(Step)
    BY PtyWriteType
  <2>2. <<Do("Warning", None)>> \in Seq(Step)
    BY DoType, TupleType DEF Events
  <2>3. todo' \in [Threads -> Seq(Step)]
    BY <1>0, <1>1, <2>1, <2>2, ConcatType, ThenType DEF TurnFollowup
  <2>4. iterations' \in 0 .. MaxIterations
    BY <1>1, ConstantsAssumption DEF TurnFollowup, TypeOK
  <2>. QED
    BY <1>1, <2>3, <2>4 DEF TurnFollowup, TypeOK, QueueDiscipline, States
<1>2. CASE TurnEndIdle(t)
  <2>1. TurnEndEvents(pending) \in Seq(Step)
    BY <1>0, TurnEndType
  <2>2. todo' \in [Threads -> Seq(Step)]
    BY <1>0, <1>2, <2>1, ThenType DEF TurnEndIdle
  <2>. QED
    BY <1>2, <2>2, ConstantsAssumption DEF TurnEndIdle, TypeOK, QueueDiscipline, States
<1>3. CASE TurnEndNext(t)
  <2>1. queue # <<>> /\ Head(queue) \in Msgs
    BY <1>3, QueueFacts DEF TurnEndNext, TypeOK
  <2>2. TurnEndEvents(pending) \in Seq(Step) /\ PtyWritePaced(Head(queue)) \in Seq(Step)
    BY <1>0, <2>1, TurnEndType, PtyWriteType
  <2>3. <<Changed("Working", FALSE)>> \in Seq(Step)
    BY ChangedType, TupleType DEF States
  <2>4. todo' \in [Threads -> Seq(Step)]
    <3>1. TurnEndEvents(pending) \o PtyWritePaced(Head(queue)) \in Seq(Step)
      BY <2>2, ConcatType
    <3>2. TurnEndEvents(pending) \o PtyWritePaced(Head(queue))
            \o <<Changed("Working", FALSE)>> \in Seq(Step)
      BY <2>3, <3>1, ConcatType
    <3>. QED
      BY <1>0, <1>3, <3>2, ThenType DEF TurnEndNext
  <2>5. queue' \in Seq(Msgs) /\ Len(queue') <= MaxQueueDepth
    BY <1>3, <2>1, QueueFacts, ConstantsAssumption DEF TurnEndNext, TypeOK, QueueDiscipline
  <2>6. pending' \in Tracked \cup {None}
    BY <1>3 DEF TurnEndNext, IdOf
  <2>. QED
    BY <1>3, <2>4, <2>5, <2>6, ConstantsAssumption
       DEF TurnEndNext, TypeOK, QueueDiscipline, States
<1>. QED
  BY <1>1, <1>2, <1>3 DEF TurnEnd

\* The reader ends a turn, or sees the end of the PTY.
LEMMA ReaderEndIInv ==
    ASSUME IInv, NEW v \in Verdicts, ReaderTurnEnd(v) \/ ReaderEof
    PROVE  IInv'
<1>1. CASE ReaderTurnEnd(v)
  BY <1>1, TurnEndPreserves
     DEF ReaderTurnEnd, Observe, TypeOK, world, ledger, Threads
<1>2. CASE ReaderEof
  <2>1. DrainQueueErrors(queue, FALSE) \in Seq(Step)
    BY DrainType DEF TypeOK
  <2>2. <<Changed("Dead", FALSE), Do("Died", None)>> \in Seq(Step)
    BY ChangedType, DoType, TupleType DEF States, Events
  <2>3. todo' \in [Threads -> Seq(Step)]
    BY <1>2, <2>1, <2>2, ConcatType, ThenType DEF ReaderEof, TypeOK, Threads
  <2>. QED
    BY <1>2, <2>3, ConstantsAssumption
       DEF ReaderEof, TypeOK, QueueDiscipline, ledger, States, Threads
<1>. QED
  BY <1>1, <1>2

\* The Kiro idle thread and the screen poll thread.
LEMMA IdleThreadsIInv ==
    ASSUME IInv, KiroIdle \/ PollIdle
    PROVE  IInv'
<1>1. CASE KiroIdle
  BY <1>1, TurnEndPreserves DEF KiroIdle, TypeOK, world, ledger, Threads
<1>2. CASE PollIdle
  <2>1. <<Changed("Idle", FALSE)>> \in Seq(Step)
    BY ChangedType, TupleType DEF States
  <2>2. todo' \in [Threads -> Seq(Step)]
    BY <1>2, <2>1, ThenType DEF PollIdle, TypeOK, Threads
  <2>. QED
    BY <1>2, <2>2 DEF PollIdle, TypeOK, QueueDiscipline, world, ledger, States
<1>. QED
  BY <1>1, <1>2

\* The main thread's startup loop, its queries and its way out.
LEMMA MainControlIInv ==
    ASSUME IInv,
           \/ MainDismissDialog \/ MainReady \/ MainReadyTimeout \/ MainStartupDead
           \/ MainQuery \/ MainShutdown \/ MainStopped \/ MainKill \/ MainJoin
    PROVE  IInv'
<1>1. CASE MainDismissDialog
  BY <1>1, ConstantsAssumption
     DEF MainDismissDialog, TypeOK, QueueDiscipline, world, ledger
<1>2. CASE MainReady
  <2>1. <<Must("Ready", None)>> \in Seq(Step)
    BY MustType, TupleType DEF Events
  <2>2. todo' \in [Threads -> Seq(Step)]
    BY <1>2, <2>1, ThenType DEF MainReady, TypeOK, Threads
  <2>. QED
    BY <1>2, <2>2 DEF MainReady, TypeOK, QueueDiscipline, inner, ledger
<1>3. CASE MainQuery
  <2>1. <<Must("Reply", None)>> \in Seq(Step)
    BY MustType, TupleType DEF Events
  <2>2. todo' \in [Threads -> Seq(Step)]
    BY <1>3, <2>1, ThenType DEF MainQuery, TypeOK, Threads
  <2>. QED
    BY <1>3, <2>2 DEF MainQuery, TypeOK, QueueDiscipline, inner, world, ledger
<1>4. CASE \/ MainReadyTimeout \/ MainStartupDead \/ MainShutdown
           \/ MainStopped \/ MainKill \/ MainJoin
  BY <1>4 DEF MainReadyTimeout, MainStartupDead, MainShutdown, MainStopped, MainKill,
              MainJoin, TypeOK, QueueDiscipline, inner, ledger
<1>. QED
  BY <1>1, <1>2, <1>3, <1>4

\* SendMessage, in each of the three groups of states.
LEMMA MainSendIInv ==
    ASSUME IInv, NEW m \in Msgs, MainSendMessage(m)
    PROVE  IInv'
<1>0. todo \in [Threads -> Seq(Step)] /\ "main" \in Threads
  BY DEF TypeOK, Threads
<1>1. CASE SendWhenIdle(m)
  <2>1. PtyWritePaced(m) \in Seq(Step)
    BY PtyWriteType
  <2>2. <<Do("work", m)>> \in Seq(Step)
    BY DoType, TupleType
  <2>3. (IF m \in Tracked THEN <<Must("MessageDelivered", m)>> ELSE <<>>) \in Seq(Step)
    BY MustType, TupleType DEF Events
  <2>4. <<Changed("Working", TRUE)>> \in Seq(Step)
    BY ChangedType, TupleType DEF States
  <2>5. PtyWritePaced(m) \o <<Do("work", m)>> \in Seq(Step)
    BY <2>1, <2>2, ConcatType
  <2>6. PtyWritePaced(m) \o <<Do("work", m)>>
          \o (IF m \in Tracked THEN <<Must("MessageDelivered", m)>> ELSE <<>>) \in Seq(Step)
    BY <2>3, <2>5, ConcatType
  <2>7. PtyWritePaced(m) \o <<Do("work", m)>>
          \o (IF m \in Tracked THEN <<Must("MessageDelivered", m)>> ELSE <<>>)
          \o <<Changed("Working", TRUE)>> \in Seq(Step)
    BY <2>4, <2>6, ConcatType
  <2>8. todo' \in [Threads -> Seq(Step)]
    BY <1>0, <1>1, <2>7, ThenType DEF SendWhenIdle
  <2>. QED
    BY <1>1, <2>8, ConstantsAssumption
       DEF MainSendMessage, SendWhenIdle, IdOf, TypeOK, QueueDiscipline, world
<1>2. CASE SendWhenWorking(m)
  <2>1. <<Must("Warning", None)>> \in Seq(Step)
    BY MustType, TupleType DEF Events
  <2>2. queue # <<>> => <<Must("Error", Head(queue)), Must("Warning", None)>> \in Seq(Step)
    BY MustType, TupleType, QueueFacts DEF Events, TypeOK
  <2>3. Len(queue) >= MaxQueueDepth => queue # <<>>
    BY ConstantsAssumption, QueueFacts DEF TypeOK
  <2>4. todo' \in [Threads -> Seq(Step)]
    BY <1>0, <1>2, <2>1, <2>2, <2>3, ThenType DEF SendWhenWorking
  <2>5. queue' \in Seq(Msgs) /\ Len(queue') <= MaxQueueDepth
    <3>1. CASE Len(queue) >= MaxQueueDepth
      <4>1. /\ Tail(queue) \in Seq(Msgs)
            /\ Len(Tail(queue)) = Len(queue) - 1
            /\ Len(queue) \in Nat
            /\ Len(queue) <= MaxQueueDepth
        BY <2>3, <3>1, QueueFacts DEF TypeOK, QueueDiscipline
      <4>2. Append(Tail(queue), m) \in Seq(Msgs)
            /\ Len(Append(Tail(queue), m)) = Len(Tail(queue)) + 1
        BY <4>1, QueueFacts
      <4>. QED
        BY <1>2, <3>1, <4>1, <4>2, ConstantsAssumption DEF SendWhenWorking
    <3>2. CASE ~(Len(queue) >= MaxQueueDepth)
      <4>1. /\ Len(queue) \in Nat
            /\ Append(queue, m) \in Seq(Msgs)
            /\ Len(Append(queue, m)) = Len(queue) + 1
        BY QueueFacts DEF TypeOK
      <4>2. queue' = Append(queue, m)
        BY <1>2, <3>2 DEF SendWhenWorking
      <4>. QED
        BY <3>2, <4>1, <4>2, ConstantsAssumption
    <3>. QED
      BY <3>1, <3>2
  <2>. QED
    BY <1>2, <2>4, <2>5
       DEF MainSendMessage, SendWhenWorking, TypeOK, QueueDiscipline, world
<1>3. CASE SendRejected(m)
  <2>1. <<Must("Error", m)>> \in Seq(Step)
    BY MustType, TupleType DEF Events
  <2>2. todo' \in [Threads -> Seq(Step)]
    BY <1>0, <1>3, <2>1, ThenType DEF SendRejected
  <2>. QED
    BY <1>3, <2>2 DEF MainSendMessage, SendRejected, TypeOK, QueueDiscipline, world
<1>. QED
  BY <1>1, <1>2, <1>3 DEF MainSendMessage

\* What is left of a thread's steps after the first is a sequence of steps.
LEMMA RestType ==
    ASSUME TypeOK, NEW t \in Threads, Running(t)
    PROVE  Now(t) \in Step /\ Rest(t) \in Seq(Step)
BY DEF TypeOK, Running, Now, Rest

\* The steps outside the lock.
LEMMA OutsideIInv ==
    ASSUME IInv, NEW t \in Threads, Outside(t)
    PROVE  IInv'
<1>0. /\ Now(t) \in Step
      /\ Rest(t) \in Seq(Step)
      /\ todo \in [Threads -> Seq(Step)]
      /\ <<>> \in Seq(Step)
  BY RestType DEF Outside, WriteOk, WriteFails, SetWorking, SendEvent, SendEventFails, TypeOK
<1>1. CASE WriteOk(t)
  <2>1. todo' \in [Threads -> Seq(Step)]
    BY <1>0, <1>1, ThenType DEF WriteOk
  <2>2. prompt' \subseteq Msgs /\ submitted' \subseteq Msgs
    BY <1>1 DEF WriteOk, TypeOK
  <2>. QED
    BY <1>1, <2>1, <2>2 DEF WriteOk, TypeOK, QueueDiscipline, inner, world
<1>2. CASE WriteFails(t)
  <2>1. AfterWriteFailure(t, Now(t).msg) \in Seq(Step)
    BY <1>0, AfterFailureType DEF Step
  <2>2. todo' \in [Threads -> Seq(Step)]
    BY <1>0, <1>2, <2>1, ThenType DEF WriteFails
  <2>. QED
    BY <1>2, <2>2 DEF WriteFails, TypeOK, QueueDiscipline, inner, world, ledger
<1>3. CASE SetWorking(t)
  <2>1. todo' \in [Threads -> Seq(Step)]
    BY <1>0, <1>3, ThenType DEF SetWorking
  <2>. QED
    BY <1>3, <2>1 DEF SetWorking, TypeOK, QueueDiscipline, world, ledger, States
<1>4. CASE SendEvent(t)
  <2>1. todo' \in [Threads -> Seq(Step)]
    BY <1>0, <1>4, ThenType DEF SendEvent
  <2>2. [op |-> Now(t).op, msg |-> Now(t).msg]
          \in [op : Events, msg : Msgs \cup {None, Followup}]
    BY <1>0, <1>4 DEF SendEvent, Step
  <2>3. sent' \subseteq [op : Events, msg : Msgs \cup {None, Followup}]
    BY <1>4, <2>2 DEF SendEvent, TypeOK
  <2>. QED
    BY <1>4, <2>1, <2>3 DEF SendEvent, TypeOK, QueueDiscipline, inner, world
<1>5. CASE SendEventFails(t)
  <2>1. todo' \in [Threads -> Seq(Step)]
    BY <1>0, <1>5, ThenType DEF SendEventFails
  <2>. QED
    BY <1>5, <2>1 DEF SendEventFails, TypeOK, QueueDiscipline, inner, ledger
<1>. QED
  BY <1>1, <1>2, <1>3, <1>4, <1>5 DEF Outside

\* The environment and stuttering.
LEMMA EnvironmentIInv ==
    ASSUME IInv, AgentExits \/ DaemonDisconnects \/ UNCHANGED vars
    PROVE  IInv'
<1>1. CASE AgentExits
  BY <1>1 DEF AgentExits, TypeOK, QueueDiscipline, inner, ledger
<1>2. CASE DaemonDisconnects
  BY <1>2 DEF DaemonDisconnects, TypeOK, QueueDiscipline, inner, ledger
<1>3. CASE UNCHANGED vars
  BY <1>3 DEF vars, TypeOK, QueueDiscipline, inner, world, ledger
<1>. QED
  BY <1>1, <1>2, <1>3

\* Every step of the shim keeps the types and the queue discipline.
LEMMA NextIInv == IInv /\ [Next]_vars => IInv'
<1>. SUFFICES ASSUME IInv, [Next]_vars PROVE IInv'
  OBVIOUS
<1>1. CASE Reader
  <2>1. "Unknown" \in Verdicts
    BY DEF Verdicts
  <2>. QED
    BY <1>1, <2>1, ReaderScreenIInv, ReaderEndIInv DEF Reader
<1>2. CASE KiroIdle \/ PollIdle
  BY <1>2, IdleThreadsIInv
<1>3. CASE Main
  BY <1>3, MainControlIInv, MainSendIInv DEF Main
<1>4. CASE \E t \in Threads : Outside(t)
  BY <1>4, OutsideIInv
<1>5. CASE AgentExits \/ DaemonDisconnects \/ UNCHANGED vars
  BY <1>5, EnvironmentIInv
<1>. QED
  BY <1>1, <1>2, <1>3, <1>4, <1>5 DEF Next

-----------------------------------------------------------------------------
\* Type correctness: in every reachable state of the shim each field of
\* ShimInner, and what each thread still has to do, has its type.
THEOREM TypeCorrect == Spec => []TypeOK
<1>1. IInv => TypeOK
  OBVIOUS
<1>. QED
  BY <1>1, InitIInv, NextIInv, PTL DEF Spec

\* The queue discipline: for every queue depth and every number of messages,
\* no interleaving of the four threads makes the queue longer than its limit,
\* or leaves a message in the queue of a dead, exhausted or starting shim.
THEOREM QueueDisciplined == Spec => []QueueDiscipline
<1>1. IInv => QueueDiscipline
  OBVIOUS
<1>. QED
  BY <1>1, InitIInv, NextIInv, PTL DEF Spec
=============================================================================
