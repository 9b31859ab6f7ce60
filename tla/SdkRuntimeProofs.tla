-------------------------- MODULE SdkRuntimeProofs --------------------------
(***************************************************************************)
(* Proofs about SdkRuntime, for every list of messages and every queue     *)
(* depth: its types, and what it does with the messages.  None is written  *)
(* that was reported as dropped, none disappears, a completion is that of  *)
(* its own message, and an exhausted agent gets no further turn.           *)
(***************************************************************************)
EXTENDS SdkRuntime, TLAPS

-----------------------------------------------------------------------------
(* The invariant: beside the types, what a thread may have to do where it is, *)
(* and what an agent that has exited leaves behind.                           *)

MainItems ==
    [do : {"MessageDelivered", "DeliveryFailed", "Dropped"}, arg : Msgs]
    \cup [do : {"Put"}, arg : Msgs \cup {"keepalive"}]

ReaderItems ==
    [do : {"Dropped"}, arg : Msgs] \cup [do : {"Completion"}, arg : Msgs \cup {None}]
    \cup [do : {"Put"}, arg : Msgs \cup {"followup"}]

\* The reader reports before it writes.
PutsLast(todo) == \A i \in 1 .. Len(todo) : todo[i].do = "Put" => i = Len(todo)

Threads ==
    /\ mainDo \in Seq(MainItems) /\ Len(mainDo) <= 1
    /\ main # "recv" => mainDo = <<>>
    /\ main = "restore" => ~open
    /\ readerDo \in Seq(ReaderItems) /\ PutsLast(readerDo)
    /\ reader \in {"timed", "untimed"} => readerDo = <<>>
    /\ reader = "done" => ~open /\ stdout = <<>>
    /\ state = "Dead" => reader = "done"

Process ==
    /\ open <=> agent.mode # "exited"
    /\ ~open => stdin = <<>>
    /\ agent.on = None <=> agent.mode \in {"waiting", "exited"}

IInv == TypeOK /\ Threads /\ Process

-----------------------------------------------------------------------------
(* What the threads have to do. *)

\* The steps of a thread are steps.
LEMMA ItemsType ==
    /\ \A todo \in Seq(MainItems) : todo \in Seq(Items)
    /\ \A todo \in Seq(ReaderItems) : todo \in Seq(Items)
<1>1. MainItems \subseteq Items /\ ReaderItems \subseteq Items
  BY DEF MainItems, ReaderItems, Items, Inputs
<1>. QED
  BY <1>1

\* The first step of a list, and the rest.
LEMMA TailType ==
    ASSUME NEW S, NEW todo \in Seq(S), todo # <<>>
    PROVE  /\ Head(todo) \in S /\ Head(todo) = todo[1] /\ Tail(todo) \in Seq(S)
           /\ Len(todo) \in Nat \ {0} /\ Len(Tail(todo)) = Len(todo) - 1
           /\ \A i \in 1 .. Len(Tail(todo)) : Tail(todo)[i] = todo[i + 1]
OBVIOUS

\* One step makes a list.
LEMMA OneItem ==
    ASSUME NEW S, NEW x \in S
    PROVE  <<x>> \in Seq(S) /\ Len(<<x>>) = 1 /\ <<x>>[1] = x
OBVIOUS

\* drain_queue_errors reports messages.
LEMMA DrainType ==
    ASSUME NEW q \in Seq(Msgs)
    PROVE  /\ DrainErrors(q) \in Seq(ReaderItems) /\ Len(DrainErrors(q)) = Len(q)
           /\ \A i \in 1 .. Len(q) : DrainErrors(q)[i] = Say("Dropped", q[i])
           /\ PutsLast(DrainErrors(q))
<1>1. ASSUME NEW i \in 1 .. Len(q) PROVE Say("Dropped", q[i]) \in ReaderItems
  BY DEF Say, ReaderItems
<1>2. DOMAIN q = 1 .. Len(q) /\ Len(q) \in Nat
  OBVIOUS
<1>3. /\ DrainErrors(q) \in Seq(ReaderItems) /\ Len(DrainErrors(q)) = Len(q)
      /\ \A i \in 1 .. Len(q) : DrainErrors(q)[i] = Say("Dropped", q[i])
  BY <1>1, <1>2 DEF DrainErrors
<1>4. ASSUME NEW i \in 1 .. Len(q) PROVE DrainErrors(q)[i].do # "Put"
  <2>1. DrainErrors(q)[i] = Say("Dropped", q[i])
    BY <1>3
  <2>. QED
    BY <2>1 DEF Say
<1>. QED
  BY <1>3, <1>4 DEF PutsLast

\* What an event adds to what the daemon knows is a message.
LEMMA HearType ==
    ASSUME TypeOK, NEW e \in MainItems \cup ReaderItems, e.do # "Put"
    PROVE  Hear(e) \in [acked : SUBSET Msgs, refused : SUBSET Msgs, dropped : SUBSET Msgs,
                        completed : SUBSET Msgs]
<1>1. e.do \in {"MessageDelivered", "DeliveryFailed", "Dropped", "Completion"}
  BY DEF MainItems, ReaderItems
<1>2. e.do # "Completion" => e.arg \in Msgs
  BY DEF MainItems, ReaderItems
<1>. QED
  BY <1>1, <1>2 DEF TypeOK, Hear

\* The steps after a turn: its completion, and the next message if there is one.
LEMMA EndTurnEffect ==
    ASSUME TypeOK, EndTurn
    PROVE  /\ readerDo' \in Seq(ReaderItems) /\ readerDo'[1] = Say("Completion", current)
           /\ PutsLast(readerDo')
           /\ \/ /\ queue = <<>> /\ queue' = queue /\ state' = "Idle" /\ current' = None
                 /\ Len(readerDo') = 1
              \/ /\ queue # <<>> /\ queue' = Tail(queue) /\ state' = "Working"
                 /\ current' = Head(queue) /\ current' \in Msgs
                 /\ Len(readerDo') = 2 /\ readerDo'[2] = Put(Head(queue))
<1>. DEFINE c == Say("Completion", current)
            p == Put(Head(queue))
<1>1. c \in ReaderItems /\ c.do = "Completion"
  BY DEF TypeOK, Say, ReaderItems
<1>2. <<c>> \in Seq(ReaderItems) /\ Len(<<c>>) = 1 /\ <<c>>[1] = c
  BY <1>1
<1>3. CASE queue = <<>>
  <2>1. /\ queue' = queue /\ state' = "Idle" /\ current' = None /\ readerDo' = <<c>> \o <<>>
    BY <1>3 DEF EndTurn
  <2>. HIDE DEF c
  <2>2. readerDo' \in Seq(ReaderItems) /\ Len(readerDo') = 1 /\ readerDo'[1] = c
    BY <1>2, <2>1
  <2>. QED
    BY <1>1, <1>3, <2>1, <2>2 DEF PutsLast, c
<1>4. CASE queue # <<>>
  <2>1. Head(queue) \in Msgs
    BY <1>4, TailType DEF TypeOK
  <2>2. Head(queue) # None
    BY <2>1, SdkAssumption
  <2>3. /\ queue' = Tail(queue) /\ state' = "Working" /\ current' = Head(queue)
        /\ readerDo' = <<c>> \o <<p>>
    BY <1>4, <2>2 DEF EndTurn
  <2>4. p \in ReaderItems
    BY <2>1 DEF Put, ReaderItems
  <2>5. <<p>> \in Seq(ReaderItems) /\ Len(<<p>>) = 1 /\ <<p>>[1] = p
    BY <2>4
  <2>. HIDE DEF c, p
  <2>6. /\ readerDo' \in Seq(ReaderItems) /\ Len(readerDo') = 2 /\ readerDo'[1] = c
        /\ readerDo'[2] = p
    BY <1>2, <2>3, <2>5
  <2>. QED
    BY <1>1, <1>4, <2>1, <2>3, <2>6 DEF PutsLast, c, p
<1>. QED
  BY <1>3, <1>4

\* The end of a turn keeps the types.
LEMMA EndTurnType ==
    ASSUME TypeOK, EndTurn
    PROVE  /\ readerDo' \in Seq(ReaderItems) /\ PutsLast(readerDo')
           /\ state' \in {"Idle", "Working"} /\ current' \in Msgs \cup {None}
           /\ queue' \in Seq(Msgs) /\ Len(queue') <= QueueDepth
<1>1. CASE queue = <<>>
  BY <1>1, EndTurnEffect DEF TypeOK
<1>2. CASE queue # <<>>
  <2>1. Tail(queue) \in Seq(Msgs) /\ Len(Tail(queue)) <= QueueDepth
    BY <1>2, SdkAssumption DEF TypeOK
  <2>. QED
    BY <1>2, <2>1, EndTurnEffect
<1>. QED
  BY <1>1, <1>2

-----------------------------------------------------------------------------
(* The steps. *)

\* Every step keeps the types and what the threads may have to do.
LEMMA IInvNext ==
    ASSUME IInv, [Next]_vars
    PROVE  IInv'
<1>. USE SdkAssumption DEF IInv
<1>1. CASE UNCHANGED vars
  BY <1>1 DEF vars, shared, threads, pipes, history, TypeOK, Threads, Process, PutsLast, Terminal
<1>2. CASE ReaderWaits
  <2>1. TypeOK'
    BY <1>2, DrainType, EndTurnEffect, TailType, ItemsType DEF ReaderWaits, ReadTimeout, shared, pipes, history, TypeOK, Threads, Terminal, Inputs
  <2>2. Threads' /\ Process'
    BY <1>2, DrainType, EndTurnEffect, TailType DEF ReaderWaits, ReadTimeout, shared, pipes, history, TypeOK, Threads, Process, Terminal
  <2>. QED
    BY <2>1, <2>2
<1>3. CASE ReadText
  <2>1. TypeOK'
    BY <1>3, DrainType, EndTurnEffect, TailType, ItemsType DEF ReadText, Reads, TypeOK, Threads, Terminal, Inputs
  <2>2. Threads' /\ Process'
    BY <1>3, DrainType, EndTurnEffect, TailType DEF ReadText, Reads, TypeOK, Threads, Process, Terminal
  <2>. QED
    BY <2>1, <2>2
<1>4. CASE ReadToolRequest
  <2>1. TypeOK'
    BY <1>4, DrainType, EndTurnEffect, TailType, ItemsType DEF ReadToolRequest, Reads, shared, TypeOK, Threads, Terminal, Inputs
  <2>2. Threads' /\ Process'
    BY <1>4, DrainType, EndTurnEffect, TailType DEF ReadToolRequest, Reads, shared, TypeOK, Threads, Process, Terminal
  <2>. QED
    BY <2>1, <2>2
<1>5. CASE ReadStray
  <2>1. /\ stdout # <<>> /\ stdout' = Tail(stdout) /\ reader' = "top"
        /\ reader \in {"timed", "untimed"}
        /\ UNCHANGED <<shared, readerDo, agent, main, mainDo, stdin, open, history>>
    BY <1>5 DEF ReadStray, Reads, history
  <2>2. TypeOK'
    BY <2>1, TailType DEF TypeOK, shared, history
  <2>. QED
    BY <2>1, <2>2 DEF Threads, Process, shared
<1>6. CASE ReadContextExhausted
  <2>1. TypeOK'
    BY <1>6, DrainType, EndTurnEffect, TailType, ItemsType DEF ReadContextExhausted, Reads, TypeOK, Threads, Terminal, Inputs
  <2>2. Threads' /\ Process'
    BY <1>6, DrainType, EndTurnEffect, TailType DEF ReadContextExhausted, Reads, TypeOK, Threads, Process, Terminal
  <2>. QED
    BY <2>1, <2>2
<1>7. CASE ReadTestFailure
  <2>1. Put("followup") \in ReaderItems
    BY DEF Put, ReaderItems
  <2>2. readerDo' = <<Put("followup")>>
    BY <1>7 DEF ReadTestFailure
  <2>3. readerDo' \in Seq(ReaderItems) /\ Len(readerDo') = 1
    BY <2>1, <2>2, OneItem
  <2>4. PutsLast(readerDo')
    BY <2>3 DEF PutsLast
  <2>5. retests' \in 0 .. MaxRetests
    BY <1>7 DEF ReadTestFailure, TypeOK
  <2>6. TypeOK'
    BY <1>7, <2>3, <2>5, TailType, ItemsType DEF ReadTestFailure, Reads, TypeOK
  <2>. QED
    BY <1>7, <2>3, <2>4, <2>6 DEF ReadTestFailure, Reads, Threads, Process
<1>8. CASE ReadResult
  <2>1. /\ readerDo' \in Seq(ReaderItems) /\ PutsLast(readerDo')
        /\ state' \in {"Idle", "Working"} /\ current' \in Msgs \cup {None}
        /\ queue' \in Seq(Msgs) /\ Len(queue') <= QueueDepth
    <3>1. EndTurn
      BY <1>8 DEF ReadResult
    <3>. QED
      BY <3>1, EndTurnType
  <2>2. TypeOK'
    BY <1>8, <2>1, TailType, ItemsType, SMTT(30) DEF ReadResult, Reads, TypeOK
  <2>. QED
    BY <1>8, <2>1, <2>2 DEF ReadResult, Reads, Threads, Process
<1>9. CASE Stall
  <2>1. /\ reader' = "top" /\ reader = "timed"
        /\ UNCHANGED <<session, retests, main, mainDo, pipes, sent, written, answered, told,
                       keepalives>>
    BY <1>9 DEF Stall
  <2>2. /\ readerDo' \in Seq(ReaderItems) /\ PutsLast(readerDo')
        /\ state' \in {"Idle", "Working"} \cup Terminal /\ (state' = "Dead" => state = "Dead")
        /\ current' \in Msgs \cup {None}
        /\ queue' \in Seq(Msgs) /\ Len(queue') <= QueueDepth
        /\ stalled' \in BOOLEAN
    <3>1. CASE state = "Working"
      <4>1. EndTurn /\ stalled' = TRUE
        BY <1>9, <3>1 DEF Stall
      <4>. QED
        BY <4>1, EndTurnType
    <3>2. CASE state # "Working"
      <4>1. UNCHANGED <<state, current, queue, readerDo, stalled>>
        BY <1>9, <3>2 DEF Stall
      <4>2. stalled \in BOOLEAN
        BY DEF TypeOK
      <4>3. PutsLast(readerDo)' /\ readerDo' \in Seq(ReaderItems)
        BY <4>1 DEF Threads, PutsLast
      <4>. QED
        BY <4>1, <4>2, <4>3 DEF TypeOK
    <3>. QED
      BY <3>1, <3>2
  <2>3. TypeOK'
    BY <2>1, <2>2, ItemsType DEF TypeOK, pipes
  <2>. QED
    BY <2>1, <2>2, <2>3 DEF Threads, Process, pipes
<1>10. CASE ReadEof
  <2>1. TypeOK'
    BY <1>10, DrainType, EndTurnEffect, TailType, ItemsType DEF ReadEof, pipes, history, TypeOK, Threads, Terminal, Inputs
  <2>2. Threads' /\ Process'
    BY <1>10, DrainType, EndTurnEffect, TailType DEF ReadEof, pipes, history, TypeOK, Threads, Process, Terminal
  <2>. QED
    BY <2>1, <2>2
<1>11. CASE KeepaliveFailed
  <2>1. TypeOK'
    BY <1>11, DrainType, EndTurnEffect, TailType, ItemsType DEF KeepaliveFailed, pipes, history, TypeOK, Threads, Terminal, Inputs
  <2>2. Threads' /\ Process'
    BY <1>11, DrainType, EndTurnEffect, TailType DEF KeepaliveFailed, pipes, history, TypeOK, Threads, Process, Terminal
  <2>. QED
    BY <2>1, <2>2
<1>12. CASE Keepalive
  <2>1. Put("keepalive") \in MainItems
    BY DEF Put, MainItems
  <2>2. mainDo' \in Seq(MainItems) /\ Len(mainDo') = 1
    BY <1>12, <2>1, OneItem DEF Keepalive
  <2>3. keepalives' \in 0 .. MaxKeepalives /\ retests' \in 0 .. MaxRetests
    BY <1>12 DEF Keepalive, KeepaliveBound, TypeOK
  <2>4. TypeOK'
    BY <1>12, <2>2, <2>3, ItemsType DEF Keepalive, pipes, TypeOK
  <2>. QED
    BY <1>12, <2>2, <2>4 DEF Keepalive, pipes, TypeOK, Threads, Process
<1>13. CASE Stop
  <2>1. agent' \in [mode : {"waiting", "fresh", "busy", "asking", "exited"}, on : Inputs \cup {None}]
    BY <1>13 DEF Stop, Exit
  <2>2. open' = FALSE /\ open' \in BOOLEAN /\ stdin' = <<>>
    BY <1>13 DEF Stop, Exit
  <2>3. TypeOK'
    BY <1>13, <2>1, <2>2 DEF Stop, shared, history, TypeOK
  <2>. QED
    BY <1>13, <2>3 DEF Stop, Exit, shared, history, TypeOK, Threads, Process
<1>14. CASE AgentReads
  <2>1. Head(stdin) \in Inputs /\ Tail(stdin) \in Seq(Inputs)
    BY <1>14, TailType DEF AgentReads, TypeOK
  <2>2. /\ agent' \in [mode : {"waiting", "fresh", "busy", "asking", "exited"}, on : Inputs \cup {None}]
        /\ agent'.mode = "fresh" /\ agent'.on \in Inputs
    BY <1>14, <2>1 DEF AgentReads
  <2>3. None \notin Inputs
    BY DEF Inputs
  <2>4. TypeOK'
    BY <1>14, <2>1, <2>2 DEF AgentReads, AgentStep, shared, threads, TypeOK
  <2>. QED
    BY <1>14, <2>2, <2>3, <2>4 DEF AgentReads, AgentStep, shared, threads, Threads, Process
<1>15. CASE AgentSpeaks
  <2>1. PICK kind \in {"text", "ask"} :
          /\ stdout' = Append(stdout, [is |-> kind])
          /\ agent' = [agent EXCEPT !.mode = IF kind = "ask" THEN "asking" ELSE "busy"]
    BY <1>15 DEF AgentSpeaks
  <2>2. /\ agent' \in [mode : {"waiting", "fresh", "busy", "asking", "exited"}, on : Inputs \cup {None}]
        /\ agent'.mode \in {"asking", "busy"} /\ agent'.on = agent.on
    BY <2>1 DEF TypeOK
  <2>3. stdout' \in Seq([is : {"text", "ask", "result", "failing", "full"}])
    BY <2>1 DEF TypeOK
  <2>4. TypeOK'
    BY <1>15, <2>2, <2>3 DEF AgentSpeaks, AgentStep, shared, threads, TypeOK
  <2>. QED
    BY <1>15, <2>2, <2>4 DEF AgentSpeaks, AgentStep, shared, threads, Threads, Process
<1>16. CASE AgentExits
  <2>1. agent' \in [mode : {"waiting", "fresh", "busy", "asking", "exited"}, on : Inputs \cup {None}]
    BY <1>16 DEF AgentExits, Exit
  <2>2. open' = FALSE /\ open' \in BOOLEAN /\ stdin' = <<>>
    BY <1>16 DEF AgentExits, Exit
  <2>3. TypeOK'
    BY <1>16, <2>1, <2>2 DEF AgentExits, AgentStep, shared, threads, TypeOK
  <2>. QED
    BY <1>16, <2>3 DEF AgentExits, Exit, AgentStep, shared, threads, Threads, Process
<1>17. ASSUME NEW m \in Msgs, SendNow(m) PROVE IInv'
  <2>1. Put(m) \in MainItems
    BY DEF Put, MainItems
  <2>2. mainDo' \in Seq(MainItems) /\ Len(mainDo') = 1
    BY <1>17, <2>1, OneItem DEF SendNow
  <2>3. sent' \in 0 .. Len(Order) /\ retests' \in 0 .. MaxRetests
    BY <1>17 DEF SendNow, Receives, TypeOK
  <2>4. TypeOK'
    BY <1>17, <2>2, <2>3, ItemsType DEF SendNow, Receives, pipes, TypeOK
  <2>. QED
    BY <1>17, <2>2, <2>4 DEF SendNow, Receives, pipes, Threads, Process
<1>18. ASSUME NEW m \in Msgs, SendLater(m) PROVE IInv'
  <2>. DEFINE full == Len(queue) >= QueueDepth
  <2>1. /\ queue' = Append(IF full THEN Tail(queue) ELSE queue, m)
        /\ mainDo' = IF full THEN <<Say("Dropped", Head(queue))>> ELSE <<>>
    BY <1>18 DEF SendLater
  <2>2. queue' \in Seq(Msgs) /\ Len(queue') <= QueueDepth
    <3>1. CASE full
      <4>1. queue # <<>>
        BY <3>1 DEF TypeOK
      <4>. QED
        BY <2>1, <3>1, <4>1, TailType DEF TypeOK
    <3>2. CASE ~full
      BY <2>1, <3>2 DEF TypeOK
    <3>. QED
      BY <3>1, <3>2
  <2>3. mainDo' \in Seq(MainItems) /\ Len(mainDo') <= 1
    <3>1. CASE full
      <4>1. Head(queue) \in Msgs
        BY <3>1, TailType DEF TypeOK
      <4>2. Say("Dropped", Head(queue)) \in MainItems
        BY <4>1 DEF Say, MainItems
      <4>. QED
        BY <2>1, <3>1, <4>2, OneItem
    <3>2. CASE ~full
      BY <2>1, <3>2
    <3>. QED
      BY <3>1, <3>2
  <2>4. sent' \in 0 .. Len(Order)
    BY <1>18 DEF SendLater, Receives, TypeOK
  <2>5. TypeOK'
    BY <1>18, <2>2, <2>3, <2>4, ItemsType DEF SendLater, Receives, pipes, TypeOK
  <2>. QED
    BY <1>18, <2>3, <2>5 DEF SendLater, Receives, pipes, Threads, Process
<1>19. ASSUME NEW m \in Msgs, SendRefused(m) PROVE IInv'
  <2>1. Say("Dropped", m) \in MainItems
    BY DEF Say, MainItems
  <2>2. mainDo' \in Seq(MainItems) /\ Len(mainDo') = 1
    BY <1>19, <2>1, OneItem DEF SendRefused
  <2>3. sent' \in 0 .. Len(Order)
    BY <1>19 DEF SendRefused, Receives, TypeOK
  <2>4. TypeOK'
    BY <1>19, <2>2, <2>3, ItemsType DEF SendRefused, Receives, pipes, TypeOK
  <2>. QED
    BY <1>19, <2>2, <2>4 DEF SendRefused, Receives, pipes, Threads, Process
<1>20. ASSUME NEW kind \in Results, AgentAnswers(kind) PROVE IInv'
  <2>1. TypeOK'
    BY <1>20 DEF AgentAnswers, AgentStep, shared, threads, TypeOK, Results
  <2>2. Threads' /\ Process'
    BY <1>20 DEF AgentAnswers, AgentStep, shared, threads, TypeOK, Threads, Process
  <2>. QED
    BY <2>1, <2>2
<1>21. CASE ReaderActs
  <2>. DEFINE d == Head(readerDo)
  <2>1. /\ d \in ReaderItems /\ d = readerDo[1] /\ Tail(readerDo) \in Seq(ReaderItems)
        /\ PutsLast(Tail(readerDo))
    BY <1>21, TailType DEF ReaderActs, Threads, PutsLast
  <2>2. /\ readerDo' = Tail(readerDo)
        /\ UNCHANGED <<shared, main, mainDo, reader, stdout, agent, open, sent, answered, stalled,
                       keepalives>>
    BY <1>21 DEF ReaderActs
  <2>3. reader \notin {"timed", "untimed"}
    BY <1>21 DEF ReaderActs, Threads
  <2>4. CASE d.do = "Put"
    <3>1. Write(d.arg)
      BY <1>21, <2>4 DEF ReaderActs
    <3>2. d.arg \in Inputs
      BY <2>1, <2>4 DEF ReaderItems, Inputs
    <3>. HIDE DEF d
    <3>3. /\ stdin' \in Seq(Inputs) /\ (~open => stdin' = stdin) /\ written' \subseteq Msgs
          /\ told' = told
      BY <3>1, <3>2 DEF Write, TypeOK
    <3>4. TypeOK'
      BY <2>1, <2>2, <3>3, ItemsType, SMTT(30) DEF TypeOK, shared
    <3>. QED
      BY <2>1, <2>2, <2>3, <3>3, <3>4 DEF Threads, Process, shared
  <2>5. CASE d.do # "Put"
    <3>1. Tell(d)
      BY <1>21, <2>5 DEF ReaderActs
    <3>. HIDE DEF d
    <3>2. /\ told' \in [acked : SUBSET Msgs, refused : SUBSET Msgs, dropped : SUBSET Msgs,
                        completed : SUBSET Msgs]
          /\ UNCHANGED <<stdin, written>>
      BY <2>1, <2>5, <3>1, HearType DEF Tell
    <3>3. TypeOK'
      BY <2>1, <2>2, <3>2, ItemsType DEF TypeOK, shared
    <3>. QED
      BY <2>1, <2>2, <2>3, <3>2, <3>3 DEF Threads, Process, shared
  <2>. QED
    BY <2>4, <2>5
<1>22. CASE MainActs
  <2>. DEFINE d == Head(mainDo)
  <2>1. d \in MainItems /\ Tail(mainDo) \in Seq(MainItems) /\ Len(Tail(mainDo)) <= 1
    BY <1>22, TailType DEF MainActs, Threads
  <2>2. /\ main = "recv"
        /\ UNCHANGED <<shared, reader, readerDo, stdout, agent, open, sent, answered, stalled,
                       keepalives>>
    BY <1>22 DEF MainActs, Threads, TypeOK
  <2>3. CASE d.do = "Put"
    <3>1. /\ Write(d.arg)
          /\ mainDo' = IF d.arg \in Msgs
                       THEN <<Say(IF open THEN "MessageDelivered" ELSE "DeliveryFailed", d.arg)>>
                       ELSE <<>>
          /\ main' = IF d.arg \notin Msgs /\ ~open THEN "restore" ELSE main
      BY <1>22, <2>3 DEF MainActs
    <3>2. d.arg \in Inputs
      BY <2>1, <2>3 DEF MainItems, Inputs
    <3>3. /\ stdin' \in Seq(Inputs) /\ (~open => stdin' = stdin) /\ written' \subseteq Msgs
          /\ told' = told
      BY <3>1, <3>2 DEF Write, TypeOK
    <3>4. CASE d.arg \in Msgs
      <4>. DEFINE ev == IF open THEN "MessageDelivered" ELSE "DeliveryFailed"
      <4>1. Say(ev, d.arg) \in MainItems
        BY <3>4 DEF Say, MainItems
      <4>2. mainDo' \in Seq(MainItems) /\ Len(mainDo') = 1 /\ main' = main
        BY <3>1, <3>4, <4>1, OneItem
      <4>3. TypeOK'
        BY <2>2, <3>3, <4>2, ItemsType DEF TypeOK, shared
      <4>. QED
        BY <2>2, <3>3, <4>2, <4>3 DEF Threads, Process, shared
    <3>5. CASE d.arg \notin Msgs
      <4>1. mainDo' = <<>> /\ main' = IF ~open THEN "restore" ELSE main
        BY <3>1, <3>5
      <4>2. TypeOK'
        BY <2>2, <3>3, <4>1, ItemsType DEF TypeOK, shared
      <4>. QED
        BY <2>2, <3>3, <4>1, <4>2 DEF Threads, Process, shared
    <3>. QED
      BY <3>4, <3>5
  <2>4. CASE d.do # "Put"
    <3>1. Tell(d) /\ mainDo' = Tail(mainDo) /\ main' = main
      BY <1>22, <2>4 DEF MainActs
    <3>. HIDE DEF d
    <3>2. /\ told' \in [acked : SUBSET Msgs, refused : SUBSET Msgs, dropped : SUBSET Msgs,
                        completed : SUBSET Msgs]
          /\ UNCHANGED <<stdin, written>>
      BY <2>1, <2>4, <3>1, HearType DEF Tell
    <3>3. TypeOK'
      BY <2>1, <2>2, <3>1, <3>2, ItemsType DEF TypeOK, shared
    <3>. QED
      BY <2>1, <2>2, <3>1, <3>2, <3>3 DEF Threads, Process, shared
  <2>. QED
    BY <2>3, <2>4
<1>. QED
  BY <1>1, <1>2, <1>3, <1>4, <1>5, <1>6, <1>7, <1>8, <1>9, <1>10, <1>11, <1>12, <1>13, <1>14, <1>15,
     <1>16, <1>17, <1>18, <1>19, <1>20, <1>21, <1>22 DEF Next, Reader, Main, Agent

\* The initial state.
LEMMA IInvInit == Init => IInv
<1>. SUFFICES ASSUME Init PROVE IInv
  OBVIOUS
<1>1. TypeOK
  <2>1. /\ retests \in 0 .. MaxRetests /\ keepalives \in 0 .. MaxKeepalives /\ sent \in 0 .. Len(Order)
        /\ queue \in Seq(Msgs) /\ Len(queue) <= QueueDepth
    BY SdkAssumption DEF Init
  <2>2. session \in BOOLEAN /\ open \in BOOLEAN /\ stalled \in BOOLEAN
    BY DEF Init
  <2>3. told \in [acked : SUBSET Msgs, refused : SUBSET Msgs, dropped : SUBSET Msgs,
                  completed : SUBSET Msgs]
    BY DEF Init
  <2>4. agent \in [mode : {"waiting", "fresh", "busy", "asking", "exited"}, on : Inputs \cup {None}]
    BY DEF Init
  <2>5. /\ mainDo \in Seq(Items) /\ readerDo \in Seq(Items) /\ stdin \in Seq(Inputs)
        /\ stdout \in Seq([is : {"text", "ask", "result", "failing", "full"}])
    BY DEF Init
  <2>6. /\ state = "Idle" /\ current = None /\ main = "recv" /\ reader = "top"
        /\ written = {} /\ answered = {}
    BY DEF Init
  <2>. QED
    BY <2>1, <2>2, <2>3, <2>4, <2>5, <2>6 DEF TypeOK
<1>2. Threads
  BY DEF Init, Threads, PutsLast
<1>3. Process
  BY DEF Init, Process
<1>. QED
  BY <1>1, <1>2, <1>3 DEF IInv

\* In every reachable state every variable has its type, and the queue is no longer
\* than MAX_QUEUE_DEPTH.
THEOREM SdkTypeCorrect == Spec => []TypeOK
<1>1. IInv /\ [Next]_vars => IInv'
  BY IInvNext
<1>2. IInv => TypeOK
  BY DEF IInv
<1>. QED
  BY <1>1, <1>2, IInvInit, PTL DEF Spec

-----------------------------------------------------------------------------
(* Where a message can be. *)

Named(todo, evs) ==
    {x \in Inputs \cup {None} : \E i \in 1 .. Len(todo) : todo[i].do \in evs /\ todo[i].arg = x}
Elements(q) == {m \in Msgs : \E i \in 1 .. Len(q) : q[i] = m}
Distinct(q) == \A i, j \in 1 .. Len(q) : q[i] = q[j] => i = j

Fails == {"DeliveryFailed", "Dropped"}

Unsent      == {m \in Msgs : \E k \in sent + 1 .. Len(Order) : Order[k] = m}
Sent        == {m \in Msgs : \E k \in 1 .. sent : Order[k] = m}
Queued      == Elements(queue)
MainPut     == Named(mainDo, {"Put"})
MainAcks    == Named(mainDo, {"MessageDelivered"})
MainFails   == Named(mainDo, Fails)
ReaderPut   == Named(readerDo, {"Put"})
ReaderFails == Named(readerDo, Fails)
ReaderDone  == Named(readerDo, {"Completion"})
Failed      == MainFails \cup ReaderFails \cup told.refused \cup told.dropped

\* A message is in one place: it has not come, waits to be written, was written, or
\* is given up.
Placed ==
    /\ Distinct(queue)
    /\ Unsent \cap (Queued \cup MainPut \cup ReaderPut \cup Failed \cup written) = {}
    /\ (Queued \cup MainPut \cup ReaderPut) \cap (Failed \cup written) = {}
    /\ Queued \cap (MainPut \cup ReaderPut) = {} /\ MainPut \cap ReaderPut = {}
    /\ Failed \cap written = {}

\* What the daemon is told, and what the agent has, was written.
Delivered ==
    /\ MainAcks \cup told.acked \subseteq written
    /\ Elements(stdin) \subseteq written /\ answered \subseteq written
    /\ agent.on \in Msgs => agent.on \in written

\* The turn of x is the one in flight.
Own(x) == current = IF x \in Msgs THEN x ELSE None

NoResult ==
    \A i \in 1 .. Len(stdout) : stdout[i].is \notin Results
OneResult ==
    \A i, j \in 1 .. Len(stdout) : stdout[i].is \in Results /\ stdout[j].is \in Results => i = j
NoTurn == MainPut = {} /\ ReaderPut = {} /\ stdin = <<>> /\ agent.on = None /\ NoResult

\* An input is about to be written, in the pipe, at the agent or answered: there is
\* no second one, and it is the input of the turn in flight.
OneTurn ==
    /\ \A x \in MainPut :
         Own(x) /\ ReaderPut = {} /\ stdin = <<>> /\ agent.on = None /\ NoResult
    /\ \A x \in ReaderPut : Own(x) /\ stdin = <<>> /\ agent.on = None /\ NoResult
    /\ stdin # <<>> => Len(stdin) = 1 /\ Own(stdin[1]) /\ agent.on = None /\ NoResult
    /\ agent.on # None => Own(agent.on) /\ NoResult
    /\ OneResult
    /\ ~NoResult => current \in answered \cup {None}

\* As long as no turn was given up.
Turns ==
    ~stalled =>
        /\ OneTurn
        /\ state = "Idle" => NoTurn /\ current = None
        /\ state = "ContextExhausted" => NoTurn /\ main # "restore"
        /\ main = "restore" => NoTurn /\ current = None
        /\ ReaderDone \subseteq answered \cup {None} /\ told.completed \subseteq answered

\* A message that has come is somewhere, or its write has failed unnoticed.
Kept ==
    \A m \in Sent :
        \/ m \in written \cup Failed \cup Queued \cup MainPut \cup ReaderPut
        \/ ~open /\ (m = current \/ stalled)

MessageInv == Placed /\ Delivered /\ Turns /\ Kept

-----------------------------------------------------------------------------
(* Lists of steps and queues as sets. *)

USE DEF IInv

\* Nothing to do names nothing.
LEMMA NamedNone ==
    ASSUME NEW evs PROVE Named(<<>>, evs) = {}
BY DEF Named

\* One step.
LEMMA NamedOne ==
    ASSUME NEW todo \in Seq(Items), Len(todo) = 1, NEW evs
    PROVE  Named(todo, evs) = IF todo[1].do \in evs THEN {todo[1].arg} ELSE {}
<1>1. todo[1] \in Items
  OBVIOUS
<1>2. todo[1].arg \in Inputs \cup {None}
  BY <1>1 DEF Items
<1>. QED
  BY <1>2 DEF Named

\* Two steps.
LEMMA NamedTwo ==
    ASSUME NEW todo \in Seq(Items), Len(todo) = 2, NEW evs
    PROVE  Named(todo, evs) = (IF todo[1].do \in evs THEN {todo[1].arg} ELSE {})
                              \cup (IF todo[2].do \in evs THEN {todo[2].arg} ELSE {})
<1>1. todo[1] \in Items /\ todo[2] \in Items
  OBVIOUS
<1>2. todo[1].arg \in Inputs \cup {None} /\ todo[2].arg \in Inputs \cup {None}
  BY <1>1 DEF Items
<1>3. 1 .. Len(todo) = {1, 2}
  OBVIOUS
<1>. QED
  BY <1>2, <1>3 DEF Named

\* The first step, and the others.
LEMMA NamedTail ==
    ASSUME NEW todo \in Seq(Items), todo # <<>>, NEW evs
    PROVE  Named(todo, evs) = (IF Head(todo).do \in evs THEN {Head(todo).arg} ELSE {})
                              \cup Named(Tail(todo), evs)
<1>1. /\ Len(todo) \in Nat \ {0} /\ Head(todo) = todo[1] /\ Len(Tail(todo)) = Len(todo) - 1
      /\ \A i \in 1 .. Len(todo) - 1 : Tail(todo)[i] = todo[i + 1]
      /\ Head(todo).arg \in Inputs \cup {None}
  <2>1. Head(todo) \in Items
    BY TailType
  <2>2. Head(todo).arg \in Inputs \cup {None}
    BY <2>1 DEF Items
  <2>. QED
    BY <2>2, TailType
<1>2. ASSUME NEW x \in Named(todo, evs), x \notin Named(Tail(todo), evs)
      PROVE  Head(todo).do \in evs /\ x = Head(todo).arg
  <2>1. PICK i \in 1 .. Len(todo) : todo[i].do \in evs /\ todo[i].arg = x
    BY DEF Named
  <2>2. CASE i = 1
    BY <1>1, <2>1, <2>2
  <2>3. CASE i # 1
    <3>1. i - 1 \in 1 .. Len(todo) - 1 /\ Tail(todo)[i - 1] = todo[i]
      BY <1>1, <2>3
    <3>. QED
      BY <1>1, <1>2, <2>1, <3>1 DEF Named
  <2>. QED
    BY <2>2, <2>3
<1>3. ASSUME NEW x \in Named(Tail(todo), evs) PROVE x \in Named(todo, evs)
  <2>1. PICK i \in 1 .. Len(Tail(todo)) : Tail(todo)[i].do \in evs /\ Tail(todo)[i].arg = x
    BY DEF Named
  <2>2. i + 1 \in 1 .. Len(todo) /\ Tail(todo)[i] = todo[i + 1]
    BY <1>1
  <2>. QED
    BY <2>1, <2>2 DEF Named
<1>4. Head(todo).do \in evs => Head(todo).arg \in Named(todo, evs)
  <2>1. 1 \in 1 .. Len(todo)
    BY <1>1
  <2>. QED
    BY <1>1, <2>1 DEF Named
<1>. QED
  BY <1>2, <1>3, <1>4

\* drain_queue_errors names the queue.
LEMMA NamedDrain ==
    ASSUME NEW q \in Seq(Msgs), NEW evs
    PROVE  Named(DrainErrors(q), evs) = IF "Dropped" \in evs THEN Elements(q) ELSE {}
<1>1. /\ Len(DrainErrors(q)) = Len(q)
      /\ \A i \in 1 .. Len(q) : DrainErrors(q)[i].do = "Dropped" /\ DrainErrors(q)[i].arg = q[i]
  <2>1. ASSUME NEW i \in 1 .. Len(q)
        PROVE  DrainErrors(q)[i].do = "Dropped" /\ DrainErrors(q)[i].arg = q[i]
    <3>1. DrainErrors(q)[i] = Say("Dropped", q[i])
      BY DrainType
    <3>. QED
      BY <3>1 DEF Say
  <2>. QED
    BY <2>1, DrainType
<1>2. \A i \in 1 .. Len(q) : q[i] \in Msgs
  OBVIOUS
<1>. QED
  BY <1>1, <1>2 DEF Named, Elements, Inputs

\* A queue that has grown.
LEMMA ElementsAppend ==
    ASSUME NEW q \in Seq(Msgs), NEW m \in Msgs
    PROVE  /\ Elements(Append(q, m)) = Elements(q) \cup {m}
           /\ Distinct(q) /\ m \notin Elements(q) => Distinct(Append(q, m))
<1>1. /\ Len(Append(q, m)) = Len(q) + 1 /\ Len(q) \in Nat
      /\ \A i \in 1 .. Len(q) : Append(q, m)[i] = q[i] /\ q[i] \in Msgs
      /\ Append(q, m)[Len(q) + 1] = m
  OBVIOUS
<1>2. \A i \in 1 .. Len(q) + 1 : i \in 1 .. Len(q) \/ i = Len(q) + 1
  BY <1>1
<1>3. Elements(Append(q, m)) = Elements(q) \cup {m}
  BY <1>1, <1>2 DEF Elements
<1>4. ASSUME Distinct(q), m \notin Elements(q) PROVE Distinct(Append(q, m))
  BY <1>1, <1>2, <1>4 DEF Elements, Distinct
<1>. QED
  BY <1>3, <1>4

\* A queue without its first message.
LEMMA ElementsTail ==
    ASSUME NEW q \in Seq(Msgs), q # <<>>, Distinct(q)
    PROVE  /\ Elements(Tail(q)) = Elements(q) \ {Head(q)} /\ Distinct(Tail(q))
           /\ Head(q) \in Elements(q)
<1>1. /\ Len(q) \in Nat \ {0} /\ Head(q) = q[1] /\ Len(Tail(q)) = Len(q) - 1 /\ Head(q) \in Msgs
      /\ \A i \in 1 .. Len(q) - 1 : Tail(q)[i] = q[i + 1]
  BY TailType
<1>2. Distinct(Tail(q))
  BY <1>1 DEF Distinct
<1>3. Head(q) \in Elements(q)
  BY <1>1 DEF Elements
<1>4. ASSUME NEW m \in Elements(Tail(q)) PROVE m \in Elements(q) /\ m # Head(q)
  <2>1. PICK i \in 1 .. Len(q) - 1 : Tail(q)[i] = m
    BY <1>1 DEF Elements
  <2>2. i + 1 \in 1 .. Len(q) /\ q[i + 1] = m /\ i + 1 # 1 /\ 1 \in 1 .. Len(q)
    BY <1>1, <2>1
  <2>3. m \in Msgs
    BY DEF Elements
  <2>. QED
    BY <1>1, <2>2, <2>3 DEF Elements, Distinct
<1>5. ASSUME NEW m \in Elements(q), m # Head(q) PROVE m \in Elements(Tail(q))
  <2>1. PICK i \in 1 .. Len(q) : q[i] = m
    BY DEF Elements
  <2>2. i - 1 \in 1 .. Len(q) - 1 /\ Tail(q)[i - 1] = m
    BY <1>1, <1>5, <2>1
  <2>. QED
    BY <1>1, <2>2 DEF Elements
<1>. QED
  BY <1>2, <1>3, <1>4, <1>5

\* The daemon sends its messages in order, each of them once.
LEMMA NextMessage ==
    ASSUME TypeOK, NEW m, sent < Len(Order), m = Order[sent + 1], sent' = sent + 1
    PROVE  m \in Unsent /\ Unsent' = Unsent \ {m} /\ Sent' = Sent \cup {m}
<1>1. /\ Order \in Seq(Msgs) /\ Len(Order) \in Nat /\ sent \in 0 .. Len(Order)
      /\ DOMAIN Order = 1 .. Len(Order)
      /\ \A i, j \in 1 .. Len(Order) : Order[i] = Order[j] => i = j
  BY SdkAssumption, SMTT(30) DEF IsInjective, TypeOK
<1>2. sent + 1 \in 1 .. Len(Order) /\ m \in Msgs
  BY <1>1
<1>3. m \in Unsent
  BY <1>1, <1>2 DEF Unsent
<1>4. Unsent' = Unsent \ {m}
  <2>1. ASSUME NEW k \in sent + 1 .. Len(Order)
        PROVE  k \in 1 .. Len(Order) /\ (k \in sent + 2 .. Len(Order) <=> Order[k] # m)
    BY <1>1, <1>2
  <2>2. sent' + 1 = sent + 2 /\ \A k \in sent + 2 .. Len(Order) : k \in sent + 1 .. Len(Order)
    BY <1>1
  <2>. QED
    BY <2>1, <2>2 DEF Unsent
<1>5. Sent' = Sent \cup {m}
  <2>1. 1 .. sent' = (1 .. sent) \cup {sent + 1}
    BY <1>1
  <2>. QED
    BY <1>2, <2>1 DEF Sent
<1>. QED
  BY <1>3, <1>4, <1>5

\* One step, as a tuple.
LEMMA NamedTuple ==
    ASSUME NEW x \in Items, NEW evs
    PROVE  Named(<<x>>, evs) = IF x.do \in evs THEN {x.arg} ELSE {}
<1>1. <<x>> \in Seq(Items) /\ Len(<<x>>) = 1 /\ <<x>>[1] = x
  BY OneItem
<1>. QED
  BY <1>1, NamedOne

\* A command loop with nothing to do names nothing.
LEMMA MainIdle ==
    ASSUME mainDo = <<>>
    PROVE  MainPut = {} /\ MainAcks = {} /\ MainFails = {}
BY NamedNone DEF MainPut, MainAcks, MainFails

\* Nor does such a reader.
LEMMA ReaderIdle ==
    ASSUME readerDo = <<>>
    PROVE  ReaderPut = {} /\ ReaderFails = {} /\ ReaderDone = {}
BY NamedNone DEF ReaderPut, ReaderFails, ReaderDone

\* The reader takes a line.
LEMMA ResultTail ==
    ASSUME TypeOK, stdout # <<>>, stdout' = Tail(stdout)
    PROVE  /\ NoResult => NoResult'
           /\ OneResult => OneResult'
           /\ OneResult /\ Head(stdout).is \in Results => NoResult' /\ ~NoResult
           /\ Head(stdout).is \notin Results => (NoResult' => NoResult)
<1>1. /\ Len(stdout) \in Nat \ {0} /\ Head(stdout) = stdout[1] /\ Len(stdout') = Len(stdout) - 1
      /\ \A i \in 1 .. Len(stdout) - 1 : stdout'[i] = stdout[i + 1]
  BY TailType DEF TypeOK
<1>2. ASSUME NoResult PROVE NoResult'
  BY <1>1, <1>2 DEF NoResult
<1>3. ASSUME OneResult PROVE OneResult'
  BY <1>1, <1>3 DEF OneResult
<1>4. ASSUME OneResult, Head(stdout).is \in Results PROVE NoResult' /\ ~NoResult
  <2>1. 1 \in 1 .. Len(stdout) /\ stdout[1].is \in Results
    BY <1>1, <1>4
  <2>2. ASSUME NEW i \in 1 .. Len(stdout) - 1 PROVE stdout'[i].is \notin Results
    <3>1. i + 1 \in 1 .. Len(stdout) /\ i + 1 # 1 /\ stdout'[i] = stdout[i + 1]
      BY <1>1
    <3>. QED
      BY <1>4, <2>1, <3>1 DEF OneResult
  <2>. QED
    BY <1>1, <2>1, <2>2 DEF NoResult
<1>5. ASSUME Head(stdout).is \notin Results, NoResult' PROVE NoResult
  <2>1. ASSUME NEW i \in 1 .. Len(stdout) PROVE stdout[i].is \notin Results
    <3>1. CASE i = 1
      BY <1>1, <1>5, <3>1
    <3>2. CASE i # 1
      <4>1. i - 1 \in 1 .. Len(stdout) - 1 /\ stdout'[i - 1] = stdout[i]
        BY <1>1, <3>2
      <4>. QED
        BY <1>1, <1>5, <4>1 DEF NoResult
    <3>. QED
      BY <3>1, <3>2
  <2>. QED
    BY <2>1 DEF NoResult
<1>. QED
  BY <1>2, <1>3, <1>4, <1>5

\* The agent writes a line.
LEMMA ResultAppend ==
    ASSUME TypeOK, NEW kind, stdout' = Append(stdout, [is |-> kind])
    PROVE  /\ kind \notin Results => (NoResult' <=> NoResult) /\ (OneResult => OneResult')
           /\ kind \in Results /\ NoResult => OneResult'
<1>1. /\ Len(stdout) \in Nat /\ Len(stdout') = Len(stdout) + 1
      /\ \A i \in 1 .. Len(stdout) : stdout'[i] = stdout[i]
      /\ stdout'[Len(stdout) + 1].is = kind
  BY DEF TypeOK
<1>2. \A i \in 1 .. Len(stdout') : i \in 1 .. Len(stdout) \/ i = Len(stdout) + 1
  BY <1>1
<1>3. \A i \in 1 .. Len(stdout) : i \in 1 .. Len(stdout')
  BY <1>1
<1>4. ASSUME kind \notin Results PROVE (NoResult' <=> NoResult) /\ (OneResult => OneResult')
  BY <1>1, <1>2, <1>3, <1>4 DEF NoResult, OneResult
<1>5. ASSUME kind \in Results, NoResult PROVE OneResult'
  BY <1>1, <1>2, <1>5 DEF NoResult, OneResult
<1>. QED
  BY <1>4, <1>5

-----------------------------------------------------------------------------
(* The steps of the command loop. *)

USE DEF MessageInv

\* A message for an idle agent.
LEMMA SendNowKeeps ==
    ASSUME IInv, MessageInv, NEW m \in Msgs, SendNow(m)
    PROVE  MessageInv'
<1>1. /\ main = "recv" /\ mainDo = <<>> /\ state = "Idle" /\ state' = "Working" /\ current' = m
      /\ sent < Len(Order) /\ m = Order[sent + 1] /\ sent' = sent + 1 /\ mainDo' = <<Put(m)>>
      /\ UNCHANGED <<queue, main, readerDo, stdin, stdout, agent, open, written, answered, told,
                     stalled>>
  BY DEF SendNow, Receives, Accepts, pipes
<1>2. m \in Unsent /\ Unsent' = Unsent \ {m} /\ Sent' = Sent \cup {m}
  BY <1>1, NextMessage
<1>3. MainPut = {} /\ MainAcks = {} /\ MainFails = {}
  BY <1>1, MainIdle
<1>4. MainPut' = {m} /\ MainAcks' = {} /\ MainFails' = {}
  <2>1. Put(m) \in Items /\ Put(m).do = "Put" /\ Put(m).arg = m
    BY DEF Put, Items, Inputs
  <2>. QED
    BY <1>1, <2>1, NamedTuple DEF MainPut, MainAcks, MainFails, Fails
<1>5. /\ Queued' = Queued /\ ReaderPut' = ReaderPut /\ ReaderFails' = ReaderFails
      /\ ReaderDone' = ReaderDone
  BY <1>1 DEF Queued, ReaderPut, ReaderFails, ReaderDone
<1>6. Failed' = Failed
  BY <1>1, <1>3, <1>4, <1>5 DEF Failed
<1>7. Placed'
  BY <1>1, <1>2, <1>3, <1>4, <1>5, <1>6 DEF Placed, Distinct
<1>8. Delivered'
  BY <1>1, <1>3, <1>4 DEF Delivered, Elements
<1>9. Turns'
  <2>. SUFFICES ASSUME ~stalled PROVE Turns'
    BY <1>1 DEF Turns
  <2>1. NoTurn /\ OneTurn
    BY <1>1 DEF Turns
  <2>2. OneTurn'
    BY <1>1, <1>4, <1>5, <2>1 DEF NoTurn, OneTurn, Own, NoResult, OneResult
  <2>. QED
    BY <1>1, <1>5, <2>2 DEF Turns
<1>10. Kept'
  <2>1. ~stalled => current = None /\ None \notin Msgs
    BY <1>1, SdkAssumption DEF Turns
  <2>2. Sent \subseteq Msgs
    BY DEF Sent
  <2>. QED
    BY <1>1, <1>2, <1>3, <1>4, <1>5, <1>6, <2>1, <2>2 DEF Kept
<1>. QED
  BY <1>7, <1>8, <1>9, <1>10

-----------------------------------------------------------------------------
(* Frames: what a step that leaves a variable alone leaves alone. *)

\* The places of the messages.
LEMMA SamePlaces ==
    ASSUME UNCHANGED <<queue, mainDo, readerDo, sent, told>>
    PROVE  /\ Unsent' = Unsent /\ Sent' = Sent /\ Queued' = Queued /\ Failed' = Failed
           /\ MainPut' = MainPut /\ MainAcks' = MainAcks /\ MainFails' = MainFails
           /\ ReaderPut' = ReaderPut /\ ReaderFails' = ReaderFails /\ ReaderDone' = ReaderDone
           /\ Distinct(queue') = Distinct(queue)
BY DEF Unsent, Sent, Queued, Failed, MainPut, MainAcks, MainFails, ReaderPut, ReaderFails, ReaderDone

\* The reader's steps leave those of the command loop alone.
LEMMA SameMain ==
    ASSUME UNCHANGED <<mainDo, sent>>
    PROVE  /\ Unsent' = Unsent /\ Sent' = Sent
           /\ MainPut' = MainPut /\ MainAcks' = MainAcks /\ MainFails' = MainFails
BY DEF Unsent, Sent, MainPut, MainAcks, MainFails

\* And the other way round.
LEMMA SameReader ==
    ASSUME UNCHANGED readerDo
    PROVE  ReaderPut' = ReaderPut /\ ReaderFails' = ReaderFails /\ ReaderDone' = ReaderDone
BY DEF ReaderPut, ReaderFails, ReaderDone

\* The turn in flight.
LEMMA SameTurn ==
    ASSUME MainPut' = MainPut, ReaderPut' = ReaderPut,
           UNCHANGED <<current, stdin, stdout, answered>>, agent'.on = agent.on
    PROVE  (OneTurn' <=> OneTurn) /\ (NoTurn' <=> NoTurn)
BY DEF OneTurn, NoTurn, Own, NoResult, OneResult

\* Only messages are given up; the inputs of the two threads differ.
LEMMA Apart ==
    ASSUME IInv
    PROVE  /\ Failed \subseteq Msgs /\ Queued \subseteq Msgs /\ Unsent \subseteq Msgs /\ Sent \subseteq Msgs
           /\ written \subseteq Msgs
           /\ MainPut \subseteq Msgs \cup {"keepalive"} /\ ReaderPut \subseteq Msgs \cup {"followup"}
           /\ "keepalive" \notin Msgs /\ "followup" \notin Msgs /\ None \notin Msgs
<1>1. ASSUME NEW x \in MainFails PROVE x \in Msgs
  <2>1. PICK i \in 1 .. Len(mainDo) : mainDo[i].do \in Fails /\ mainDo[i].arg = x
    BY DEF MainFails, Named
  <2>2. mainDo[i] \in MainItems
    BY DEF Threads
  <2>. QED
    BY <2>1, <2>2 DEF MainItems, Fails
<1>2. ASSUME NEW x \in ReaderFails PROVE x \in Msgs
  <2>1. PICK i \in 1 .. Len(readerDo) : readerDo[i].do \in Fails /\ readerDo[i].arg = x
    BY DEF ReaderFails, Named
  <2>2. readerDo[i] \in ReaderItems
    BY DEF Threads
  <2>. QED
    BY <2>1, <2>2 DEF ReaderItems, Fails
<1>3. ASSUME NEW x \in MainPut PROVE x \in Msgs \cup {"keepalive"}
  <2>1. PICK i \in 1 .. Len(mainDo) : mainDo[i].do = "Put" /\ mainDo[i].arg = x
    BY DEF MainPut, Named
  <2>2. mainDo[i] \in MainItems
    BY DEF Threads
  <2>. QED
    BY <2>1, <2>2 DEF MainItems
<1>4. ASSUME NEW x \in ReaderPut PROVE x \in Msgs \cup {"followup"}
  <2>1. PICK i \in 1 .. Len(readerDo) : readerDo[i].do = "Put" /\ readerDo[i].arg = x
    BY DEF ReaderPut, Named
  <2>2. readerDo[i] \in ReaderItems
    BY DEF Threads
  <2>. QED
    BY <2>1, <2>2 DEF ReaderItems
<1>5. told.refused \subseteq Msgs /\ told.dropped \subseteq Msgs /\ written \subseteq Msgs
  BY DEF TypeOK
<1>6. Queued \subseteq Msgs /\ Unsent \subseteq Msgs /\ Sent \subseteq Msgs
  BY DEF Queued, Elements, Unsent, Sent
<1>. QED
  BY <1>1, <1>2, <1>3, <1>4, <1>5, <1>6, SdkAssumption DEF Failed

\* The pipe to the agent as a set.
LEMMA PipeGrows ==
    ASSUME NEW s \in Seq(Inputs), NEW x \in Inputs
    PROVE  /\ Elements(Append(s, x)) \subseteq Elements(s) \cup ({x} \cap Msgs)
           /\ s = <<>> => Len(Append(s, x)) = 1 /\ Append(s, x)[1] = x
<1>1. /\ Len(Append(s, x)) = Len(s) + 1 /\ Len(s) \in Nat
      /\ \A i \in 1 .. Len(s) : Append(s, x)[i] = s[i]
      /\ Append(s, x)[Len(s) + 1] = x
  OBVIOUS
<1>2. \A i \in 1 .. Len(s) + 1 : i \in 1 .. Len(s) \/ i = Len(s) + 1
  BY <1>1
<1>3. s = <<>> => Len(s) = 0
  OBVIOUS
<1>. QED
  BY <1>1, <1>2, <1>3 DEF Elements

\* The agent reads one input.
LEMMA PipeShrinks ==
    ASSUME NEW s \in Seq(Inputs), s # <<>>
    PROVE  /\ Elements(Tail(s)) \subseteq Elements(s) /\ Head(s) = s[1] /\ Head(s) \in Inputs
           /\ Head(s) \in Msgs => Head(s) \in Elements(s)
           /\ Len(s) = 1 => Tail(s) = <<>>
<1>1. /\ Len(s) \in Nat \ {0} /\ Head(s) = s[1] /\ Len(Tail(s)) = Len(s) - 1 /\ Head(s) \in Inputs
      /\ Tail(s) \in Seq(Inputs)
      /\ \A i \in 1 .. Len(s) - 1 : Tail(s)[i] = s[i + 1]
  BY TailType
<1>2. \A i \in 1 .. Len(s) - 1 : i + 1 \in 1 .. Len(s)
  BY <1>1
<1>3. 1 \in 1 .. Len(s)
  BY <1>1
<1>4. \A t \in Seq(Inputs) : Len(t) = 0 => t = <<>>
  OBVIOUS
<1>5. Len(s) = 1 => Tail(s) = <<>>
  <2>1. Len(s) = 1 => Len(Tail(s)) = 0
    BY <1>1
  <2>. QED
    BY <1>1, <1>4, <2>1
<1>. QED
  BY <1>1, <1>2, <1>3, <1>5 DEF Elements

-----------------------------------------------------------------------------
(* The other steps of the command loop. *)

\* A message for a busy agent.
LEMMA SendLaterKeeps ==
    ASSUME IInv, MessageInv, NEW m \in Msgs, SendLater(m)
    PROVE  MessageInv'
<1>. DEFINE full == Len(queue) >= QueueDepth
            h    == Head(queue)
<1>1. /\ mainDo = <<>> /\ sent < Len(Order) /\ m = Order[sent + 1] /\ sent' = sent + 1
      /\ queue' = Append(IF full THEN Tail(queue) ELSE queue, m)
      /\ mainDo' = IF full THEN <<Say("Dropped", Head(queue))>> ELSE <<>>
      /\ UNCHANGED <<state, current, main, readerDo, stdin, stdout, agent, open, written, answered,
                     told, stalled>>
  BY DEF SendLater, Receives, pipes
<1>2. m \in Unsent /\ Unsent' = Unsent \ {m} /\ Sent' = Sent \cup {m}
  BY <1>1, NextMessage
<1>3. MainPut = {} /\ MainAcks = {} /\ MainFails = {}
  BY <1>1, MainIdle
<1>4. ReaderPut' = ReaderPut /\ ReaderFails' = ReaderFails /\ ReaderDone' = ReaderDone
  BY <1>1, SameReader
<1>5. MainPut' = {} /\ MainAcks' = {} /\ Delivered' /\ Turns'
  <2>1. MainPut' = {} /\ MainAcks' = {}
    <3>1. CASE full
      <4>1. queue \in Seq(Msgs) /\ queue # <<>>
        BY <3>1, SdkAssumption DEF TypeOK
      <4>2. Say("Dropped", h) \in Items /\ Say("Dropped", h).do = "Dropped"
        BY <4>1, TailType DEF Say, Items, Inputs
      <4>. QED
        BY <1>1, <3>1, <4>2, NamedTuple DEF MainPut, MainAcks
    <3>2. CASE ~full
      BY <1>1, <3>2, NamedNone DEF MainPut, MainAcks
    <3>. QED
      BY <3>1, <3>2
  <2>2. (OneTurn' <=> OneTurn) /\ (NoTurn' <=> NoTurn)
    BY <1>1, <1>3, <1>4, <2>1, SameTurn
  <2>3. Delivered'
    BY <1>1, <1>3, <2>1 DEF Delivered, Elements
  <2>. QED
    BY <1>1, <1>4, <2>1, <2>2, <2>3 DEF Turns
<1>6. CASE full
  <2>1. queue \in Seq(Msgs) /\ queue # <<>>
    BY <1>6, SdkAssumption DEF TypeOK
  <2>2. Distinct(queue)
    BY DEF Placed
  <2>3. /\ Elements(Tail(queue)) = Queued \ {h} /\ Distinct(Tail(queue)) /\ h \in Queued
        /\ Tail(queue) \in Seq(Msgs) /\ h \in Msgs
    BY <2>1, <2>2, ElementsTail, TailType DEF Queued
  <2>4. m \notin Queued
    BY <1>2 DEF Placed
  <2>5. queue' = Append(Tail(queue), m) /\ mainDo' = <<Say("Dropped", h)>>
    BY <1>1, <1>6
  <2>6. Queued' = (Queued \ {h}) \cup {m} /\ Distinct(queue')
    BY <2>3, <2>4, <2>5, ElementsAppend DEF Queued
  <2>7. MainFails' = {h}
    <3>1. Say("Dropped", h) \in Items /\ Say("Dropped", h).do = "Dropped" /\ Say("Dropped", h).arg = h
      BY <2>3 DEF Say, Items, Inputs
    <3>. QED
      BY <2>5, <3>1, NamedTuple DEF MainFails, Fails
  <2>8. Failed' = Failed \cup {h}
    BY <1>1, <1>3, <1>4, <2>7 DEF Failed
  <2>. HIDE DEF h, full
  <2>9. Placed'
    BY <1>1, <1>2, <1>3, <1>4, <1>5, <2>3, <2>6, <2>8 DEF Placed
  <2>10. Kept'
    BY <1>1, <1>2, <1>3, <1>4, <1>5, <2>6, <2>8 DEF Kept
  <2>. QED
    BY <1>5, <2>9, <2>10
<1>7. CASE ~full
  <2>1. queue \in Seq(Msgs)
    BY DEF TypeOK
  <2>2. Distinct(queue) /\ m \notin Queued
    BY <1>2 DEF Placed
  <2>3. queue' = Append(queue, m) /\ mainDo' = <<>>
    BY <1>1, <1>7
  <2>4. Queued' = Queued \cup {m} /\ Distinct(queue')
    BY <2>1, <2>2, <2>3, ElementsAppend DEF Queued
  <2>5. MainFails' = {}
    BY <2>3, NamedNone DEF MainFails
  <2>6. Failed' = Failed
    BY <1>1, <1>3, <1>4, <2>5 DEF Failed
  <2>. HIDE DEF full
  <2>7. Placed'
    BY <1>1, <1>2, <1>3, <1>4, <1>5, <2>4, <2>6 DEF Placed
  <2>8. Kept'
    BY <1>1, <1>2, <1>3, <1>4, <1>5, <2>4, <2>6 DEF Kept
  <2>. QED
    BY <1>5, <2>7, <2>8
<1>. QED
  BY <1>6, <1>7

\* A message for an agent that is out of context or gone.
LEMMA SendRefusedKeeps ==
    ASSUME IInv, MessageInv, NEW m \in Msgs, SendRefused(m)
    PROVE  MessageInv'
<1>1. /\ mainDo = <<>> /\ sent < Len(Order) /\ m = Order[sent + 1] /\ sent' = sent + 1
      /\ mainDo' = <<Say("Dropped", m)>>
      /\ UNCHANGED <<state, current, queue, main, readerDo, stdin, stdout, agent, open, written,
                     answered, told, stalled>>
  BY DEF SendRefused, Receives, pipes
<1>2. m \in Unsent /\ Unsent' = Unsent \ {m} /\ Sent' = Sent \cup {m}
  BY <1>1, NextMessage
<1>3. MainPut = {} /\ MainAcks = {} /\ MainFails = {}
  BY <1>1, MainIdle
<1>4. /\ ReaderPut' = ReaderPut /\ ReaderFails' = ReaderFails /\ ReaderDone' = ReaderDone
      /\ Queued' = Queued
  BY <1>1, SameReader DEF Queued
<1>5. MainPut' = {} /\ MainAcks' = {} /\ MainFails' = {m}
  <2>1. Say("Dropped", m) \in Items /\ Say("Dropped", m).do = "Dropped" /\ Say("Dropped", m).arg = m
    BY DEF Say, Items, Inputs
  <2>. QED
    BY <1>1, <2>1, NamedTuple DEF MainPut, MainAcks, MainFails, Fails
<1>6. Failed' = Failed \cup {m}
  BY <1>1, <1>3, <1>4, <1>5 DEF Failed
<1>7. Placed'
  BY <1>1, <1>2, <1>3, <1>4, <1>5, <1>6 DEF Placed, Distinct
<1>8. Delivered'
  BY <1>1, <1>3, <1>5 DEF Delivered, Elements
<1>9. Turns'
  <2>1. (OneTurn' <=> OneTurn) /\ (NoTurn' <=> NoTurn)
    BY <1>1, <1>3, <1>4, <1>5, SameTurn
  <2>. QED
    BY <1>1, <1>4, <2>1 DEF Turns
<1>10. Kept'
  BY <1>1, <1>2, <1>3, <1>4, <1>5, <1>6 DEF Kept
<1>. QED
  BY <1>7, <1>8, <1>9, <1>10

\* A keepalive is an input of its own.
LEMMA KeepaliveKeeps ==
    ASSUME IInv, MessageInv, Keepalive
    PROVE  MessageInv'
<1>1. /\ mainDo = <<>> /\ state = "Idle" /\ state' = "Working" /\ current = None /\ ~stalled
      /\ mainDo' = <<Put("keepalive")>> /\ main = "recv"
      /\ UNCHANGED <<current, queue, main, readerDo, stdin, stdout, agent, open, sent, written,
                     answered, told, stalled>>
  BY DEF Keepalive, KeepaliveBound, pipes
<1>2. MainPut = {} /\ MainAcks = {} /\ MainFails = {}
  BY <1>1, MainIdle
<1>3. /\ ReaderPut' = ReaderPut /\ ReaderFails' = ReaderFails /\ ReaderDone' = ReaderDone
      /\ Queued' = Queued /\ Unsent' = Unsent /\ Sent' = Sent
  BY <1>1, SameReader DEF Queued, Unsent, Sent
<1>4. MainPut' = {"keepalive"} /\ MainAcks' = {} /\ MainFails' = {}
  <2>1. /\ Put("keepalive") \in Items /\ Put("keepalive").do = "Put"
        /\ Put("keepalive").arg = "keepalive"
    BY DEF Put, Items, Inputs
  <2>. QED
    BY <1>1, <2>1, NamedTuple DEF MainPut, MainAcks, MainFails, Fails
<1>5. Failed' = Failed
  BY <1>1, <1>2, <1>3, <1>4 DEF Failed
<1>6. "keepalive" \notin Msgs \cup {"followup"} \cup Unsent \cup Queued \cup ReaderPut \cup Failed \cup written
  BY Apart
<1>7. Placed'
  BY <1>1, <1>2, <1>3, <1>4, <1>5, <1>6 DEF Placed, Distinct
<1>8. Delivered'
  BY <1>1, <1>2, <1>4 DEF Delivered, Elements
<1>9. Turns'
  <2>1. NoTurn /\ OneTurn
    BY <1>1 DEF Turns
  <2>2. OneTurn'
    BY <1>1, <1>3, <1>4, <1>6, <2>1 DEF NoTurn, OneTurn, Own, NoResult, OneResult
  <2>. QED
    BY <1>1, <1>3, <2>2 DEF Turns
<1>10. Kept'
  BY <1>1, <1>2, <1>3, <1>5 DEF Kept
<1>. QED
  BY <1>7, <1>8, <1>9, <1>10

\* A step that does not concern the messages.
LEMMA FrameKeeps ==
    ASSUME IInv, MessageInv,
           UNCHANGED <<current, queue, mainDo, readerDo, stdin, stdout, open, sent, written, answered,
                       told, stalled>>,
           agent' = agent,
           \/ state' = state /\ main' = main
           \/ KeepaliveFailed
    PROVE  MessageInv'
<1>1. /\ Unsent' = Unsent /\ Sent' = Sent /\ Queued' = Queued /\ Failed' = Failed
      /\ MainPut' = MainPut /\ MainAcks' = MainAcks
      /\ ReaderPut' = ReaderPut /\ ReaderDone' = ReaderDone /\ Distinct(queue') = Distinct(queue)
  BY SamePlaces
<1>2. Placed'
  BY <1>1 DEF Placed
<1>3. Delivered'
  BY <1>1 DEF Delivered, Elements
<1>4. (OneTurn' <=> OneTurn) /\ (NoTurn' <=> NoTurn)
  BY <1>1, SameTurn
<1>5. Turns'
  <2>1. CASE state' = state /\ main' = main
    BY <1>1, <1>4, <2>1 DEF Turns
  <2>2. CASE KeepaliveFailed
    <3>1. main = "restore" /\ main' = "recv" /\ state' = "Idle"
      BY <2>2 DEF KeepaliveFailed
    <3>. QED
      BY <1>1, <1>4, <3>1 DEF Turns
  <2>. QED
    BY <2>1, <2>2
<1>6. Kept'
  BY <1>1 DEF Kept
<1>. QED
  BY <1>2, <1>3, <1>5, <1>6

\* The agent exits, or the shim makes it: its input is lost.
LEMMA ExitKeeps ==
    ASSUME IInv, MessageInv, Exit,
           UNCHANGED <<state, current, queue, mainDo, readerDo, stdout, sent, written, answered, told,
                       stalled>>,
           main' \in {main, "done"}
    PROVE  MessageInv'
<1>1. /\ Unsent' = Unsent /\ Sent' = Sent /\ Queued' = Queued /\ Failed' = Failed
      /\ MainPut' = MainPut /\ MainAcks' = MainAcks
      /\ ReaderPut' = ReaderPut /\ ReaderDone' = ReaderDone /\ Distinct(queue') = Distinct(queue)
  BY SamePlaces
<1>2. agent'.on = None /\ stdin' = <<>> /\ open' = FALSE
  BY DEF Exit
<1>3. Placed'
  BY <1>1 DEF Placed
<1>4. Delivered'
  <2>1. Elements(stdin') = {} /\ agent'.on \notin Msgs
    BY <1>2, SdkAssumption DEF Elements
  <2>. QED
    BY <1>1, <2>1 DEF Delivered
<1>5. (OneTurn => OneTurn') /\ (NoTurn => NoTurn')
  BY <1>1, <1>2 DEF OneTurn, NoTurn, Own, NoResult, OneResult
<1>6. Turns'
  BY <1>1, <1>5 DEF Turns
<1>7. Kept'
  BY <1>1, <1>2 DEF Kept
<1>. QED
  BY <1>3, <1>4, <1>6, <1>7

-----------------------------------------------------------------------------
(* Doing what is left to do. *)

\* The command loop writes.
LEMMA MainPutKeeps ==
    ASSUME IInv, MessageInv, MainActs, Head(mainDo).do = "Put"
    PROVE  MessageInv'
<1>. DEFINE x == Head(mainDo).arg
            say == Say(IF open THEN "MessageDelivered" ELSE "DeliveryFailed", x)
<1>1. /\ mainDo # <<>> /\ Write(x) /\ mainDo' = (IF x \in Msgs THEN <<say>> ELSE <<>>)
      /\ main' = IF x \notin Msgs /\ ~open THEN "restore" ELSE main
      /\ UNCHANGED <<state, current, queue, readerDo, stdout, agent, open, sent, answered, stalled>>
  BY DEF MainActs, shared
<1>2. Head(mainDo) \in MainItems /\ Len(mainDo) = 1 /\ mainDo \in Seq(Items) /\ Head(mainDo) = mainDo[1]
  <2>1. mainDo \in Seq(MainItems) /\ Len(mainDo) <= 1 /\ mainDo \in Seq(Items)
    BY ItemsType DEF Threads
  <2>2. Head(mainDo) \in MainItems /\ Head(mainDo) = mainDo[1] /\ Len(mainDo) \in Nat \ {0}
    BY <1>1, <2>1, TailType
  <2>3. \A n \in Nat \ {0} : n <= 1 => n = 1
    OBVIOUS
  <2>. QED
    BY <2>1, <2>2, <2>3
<1>3. x \in Msgs \cup {"keepalive"} /\ x \in Inputs
  BY <1>2 DEF MainItems, Inputs
<1>4. MainPut = {x} /\ MainAcks = {} /\ MainFails = {}
  BY <1>2, NamedOne DEF MainPut, MainAcks, MainFails, Fails
<1>5. /\ MainPut' = {}
      /\ MainAcks' = IF x \in Msgs /\ open THEN {x} ELSE {}
      /\ MainFails' = IF x \in Msgs /\ ~open THEN {x} ELSE {}
  <2>1. CASE x \in Msgs
    <3>1. /\ say \in Items /\ say.arg = x
          /\ say.do = IF open THEN "MessageDelivered" ELSE "DeliveryFailed"
      BY <2>1 DEF Say, Items, Inputs
    <3>2. mainDo' = <<say>>
      BY <1>1, <2>1
    <3>. HIDE DEF say, x
    <3>. QED
      BY <2>1, <3>1, <3>2, NamedTuple DEF MainPut, MainAcks, MainFails, Fails
  <2>2. CASE x \notin Msgs
    <3>1. mainDo' = <<>>
      BY <1>1, <2>2
    <3>. QED
      BY <2>2, <3>1, NamedNone DEF MainPut, MainAcks, MainFails
  <2>. QED
    BY <2>1, <2>2
<1>. HIDE DEF say, x
<1>6. /\ ReaderPut' = ReaderPut /\ ReaderFails' = ReaderFails /\ ReaderDone' = ReaderDone
      /\ Queued' = Queued /\ Unsent' = Unsent /\ Sent' = Sent
  BY <1>1, SameReader DEF Queued, Unsent, Sent
<1>7. /\ told' = told /\ stdin' = (IF open THEN Append(stdin, x) ELSE stdin)
      /\ written' = IF open /\ x \in Msgs THEN written \cup {x} ELSE written
  BY <1>1 DEF Write
<1>8. Failed' = IF x \in Msgs /\ ~open THEN Failed \cup {x} ELSE Failed
  BY <1>4, <1>5, <1>6, <1>7 DEF Failed
<1>9. Placed'
  BY <1>1, <1>4, <1>5, <1>6, <1>7, <1>8 DEF Placed
<1>10. stdin \in Seq(Inputs)
  BY DEF TypeOK
<1>11. Delivered'
  <2>1. Elements(stdin') \subseteq written'
    <3>1. CASE open
      <4>1. Elements(stdin') \subseteq Elements(stdin) \cup ({x} \cap Msgs)
        BY <1>3, <1>7, <1>10, <3>1, PipeGrows
      <4>. QED
        BY <1>7, <3>1, <4>1 DEF Delivered
    <3>2. CASE ~open
      BY <1>7, <3>2 DEF Delivered
    <3>. QED
      BY <3>1, <3>2
  <2>. QED
    BY <1>1, <1>4, <1>5, <1>7, <2>1 DEF Delivered
<1>12. Turns'
  <2>. SUFFICES ASSUME ~stalled PROVE Turns'
    BY <1>1 DEF Turns
  <2>1. /\ Own(x) /\ ReaderPut = {} /\ stdin = <<>> /\ agent.on = None /\ NoResult /\ OneResult
        /\ state \notin {"Idle", "ContextExhausted"} /\ main # "restore"
    <3>1. OneTurn /\ ~NoTurn
      BY <1>4 DEF Turns, NoTurn
    <3>. QED
      BY <1>4, <3>1 DEF Turns, OneTurn
  <2>2. (NoResult' <=> NoResult) /\ (OneResult' <=> OneResult)
    BY <1>1 DEF NoResult, OneResult
  <2>3. CASE open
    <3>1. Len(stdin') = 1 /\ stdin'[1] = x
      BY <1>3, <1>7, <1>10, <2>1, <2>3, PipeGrows
    <3>2. OneTurn'
      BY <1>1, <1>5, <1>6, <2>1, <2>2, <3>1 DEF OneTurn, Own
    <3>. QED
      BY <1>1, <1>6, <1>7, <2>1, <2>3, <3>2 DEF Turns
  <2>4. CASE ~open
    <3>1. OneTurn' /\ NoTurn'
      BY <1>1, <1>5, <1>6, <1>7, <2>1, <2>2, <2>4 DEF OneTurn, NoTurn
    <3>2. x \notin Msgs => current' = None
      BY <1>1, <2>1 DEF Own
    <3>. QED
      BY <1>1, <1>6, <1>7, <2>1, <3>1, <3>2 DEF Turns
  <2>. QED
    BY <2>3, <2>4
<1>13. Kept'
  BY <1>1, <1>4, <1>5, <1>6, <1>7, <1>8, Apart DEF Kept
<1>. QED
  BY <1>9, <1>11, <1>12, <1>13

\* The command loop reports.
LEMMA MainTellKeeps ==
    ASSUME IInv, MessageInv, MainActs, Head(mainDo).do # "Put"
    PROVE  MessageInv'
<1>. DEFINE d == Head(mainDo)
<1>1. /\ mainDo # <<>> /\ Tell(d) /\ mainDo' = Tail(mainDo) /\ main' = main
      /\ UNCHANGED <<state, current, queue, readerDo, stdout, agent, open, sent, answered, stalled>>
  BY DEF MainActs, shared
<1>2. /\ d \in MainItems /\ Len(mainDo) = 1 /\ mainDo \in Seq(Items) /\ d = mainDo[1]
      /\ Tail(mainDo) \in Seq(Items) /\ Len(Tail(mainDo)) = 0
  <2>1. mainDo \in Seq(MainItems) /\ Len(mainDo) <= 1 /\ mainDo \in Seq(Items)
    BY ItemsType DEF Threads
  <2>2. /\ d \in MainItems /\ d = mainDo[1] /\ Len(mainDo) \in Nat \ {0}
        /\ Tail(mainDo) \in Seq(MainItems) /\ Len(Tail(mainDo)) = Len(mainDo) - 1
    BY <1>1, <2>1, TailType
  <2>. QED
    BY <2>1, <2>2, ItemsType
<1>3. d.do \in {"MessageDelivered", "DeliveryFailed", "Dropped"} /\ d.arg \in Msgs
  BY <1>2 DEF MainItems
<1>4. /\ MainPut = {} /\ MainAcks = (IF d.do = "MessageDelivered" THEN {d.arg} ELSE {})
      /\ MainFails = IF d.do = "MessageDelivered" THEN {} ELSE {d.arg}
  BY <1>2, <1>3, NamedOne DEF MainPut, MainAcks, MainFails, Fails
<1>5. MainPut' = {} /\ MainAcks' = {} /\ MainFails' = {}
  <2>1. mainDo' = <<>>
    BY <1>1, <1>2
  <2>. QED
    BY <2>1, NamedNone DEF MainPut, MainAcks, MainFails
<1>. HIDE DEF d
<1>6. UNCHANGED <<stdin, written>> /\ told' = Hear(d)
  BY <1>1 DEF Tell
<1>7. /\ told'.acked = told.acked \cup MainAcks
      /\ told'.refused \cup told'.dropped = told.refused \cup told.dropped \cup MainFails
      /\ told'.completed = told.completed
  BY <1>3, <1>4, <1>6 DEF TypeOK, Hear
<1>8. /\ ReaderPut' = ReaderPut /\ ReaderFails' = ReaderFails /\ ReaderDone' = ReaderDone
      /\ Queued' = Queued /\ Unsent' = Unsent /\ Sent' = Sent
  BY <1>1, SameReader DEF Queued, Unsent, Sent
<1>9. Failed' = Failed
  BY <1>5, <1>7, <1>8 DEF Failed
<1>10. Placed'
  BY <1>1, <1>4, <1>5, <1>6, <1>8, <1>9 DEF Placed
<1>11. Delivered'
  BY <1>1, <1>5, <1>6, <1>7 DEF Delivered
<1>12. (OneTurn' <=> OneTurn) /\ (NoTurn' <=> NoTurn)
  BY <1>1, <1>4, <1>5, <1>6, <1>8, SameTurn
<1>13. Turns'
  BY <1>1, <1>7, <1>8, <1>12 DEF Turns
<1>14. Kept'
  BY <1>1, <1>4, <1>5, <1>6, <1>8, <1>9 DEF Kept
<1>. QED
  BY <1>10, <1>11, <1>13, <1>14

\* The reader writes: nobody looks whether the write has failed.
LEMMA ReaderPutKeeps ==
    ASSUME IInv, MessageInv, ReaderActs, Head(readerDo).do = "Put"
    PROVE  MessageInv'
<1>. DEFINE x == Head(readerDo).arg
<1>1. /\ readerDo # <<>> /\ Write(x) /\ readerDo' = Tail(readerDo)
      /\ UNCHANGED <<state, current, queue, main, mainDo, stdout, agent, open, sent, answered, stalled>>
  BY DEF ReaderActs, shared
<1>2. /\ readerDo \in Seq(Items) /\ Head(readerDo) \in ReaderItems /\ Head(readerDo) = readerDo[1]
      /\ Len(readerDo) = 1 /\ readerDo' = <<>>
  <2>1. /\ readerDo \in Seq(ReaderItems) /\ readerDo \in Seq(Items) /\ PutsLast(readerDo)
    BY ItemsType DEF Threads
  <2>2. /\ Head(readerDo) \in ReaderItems /\ Head(readerDo) = readerDo[1] /\ Len(readerDo) \in Nat \ {0}
        /\ Tail(readerDo) \in Seq(ReaderItems) /\ Len(Tail(readerDo)) = Len(readerDo) - 1
    BY <1>1, <2>1, TailType
  <2>3. 1 \in 1 .. Len(readerDo) /\ readerDo[1].do = "Put"
    BY <2>2
  <2>4. Len(readerDo) = 1
    BY <2>1, <2>3 DEF PutsLast
  <2>. QED
    BY <1>1, <2>1, <2>2, <2>4
<1>3. x \in Msgs \cup {"followup"} /\ x \in Inputs
  BY <1>2 DEF ReaderItems, Inputs
<1>4. ReaderPut = {x} /\ ReaderFails = {} /\ ReaderDone = {}
  BY <1>2, NamedOne DEF ReaderPut, ReaderFails, ReaderDone, Fails
<1>5. ReaderPut' = {} /\ ReaderFails' = {} /\ ReaderDone' = {}
  BY <1>2, NamedNone DEF ReaderPut, ReaderFails, ReaderDone
<1>. HIDE DEF x
<1>6. /\ Unsent' = Unsent /\ Sent' = Sent /\ Queued' = Queued
      /\ MainPut' = MainPut /\ MainAcks' = MainAcks /\ MainFails' = MainFails
  BY <1>1, SameMain DEF Queued
<1>7. /\ told' = told /\ stdin' = (IF open THEN Append(stdin, x) ELSE stdin)
      /\ written' = IF open /\ x \in Msgs THEN written \cup {x} ELSE written
  BY <1>1 DEF Write
<1>8. Failed' = Failed
  BY <1>4, <1>5, <1>6, <1>7 DEF Failed
<1>9. Placed'
  BY <1>1, <1>4, <1>5, <1>6, <1>7, <1>8 DEF Placed
<1>10. stdin \in Seq(Inputs)
  BY DEF TypeOK
<1>11. Delivered'
  <2>1. Elements(stdin') \subseteq written'
    <3>1. CASE open
      <4>1. Elements(stdin') \subseteq Elements(stdin) \cup ({x} \cap Msgs)
        BY <1>3, <1>7, <1>10, <3>1, PipeGrows
      <4>. QED
        BY <1>7, <3>1, <4>1 DEF Delivered
    <3>2. CASE ~open
      BY <1>7, <3>2 DEF Delivered
    <3>. QED
      BY <3>1, <3>2
  <2>. QED
    BY <1>1, <1>6, <1>7, <2>1 DEF Delivered
<1>12. ~stalled =>
         /\ Own(x) /\ MainPut = {} /\ stdin = <<>> /\ agent.on = None /\ NoResult /\ OneResult
         /\ state \notin {"Idle", "ContextExhausted"} /\ main # "restore"
  <2>. SUFFICES ASSUME ~stalled
                PROVE  /\ Own(x) /\ MainPut = {} /\ stdin = <<>> /\ agent.on = None /\ NoResult
                       /\ OneResult
                       /\ state \notin {"Idle", "ContextExhausted"} /\ main # "restore"
    OBVIOUS
  <2>1. OneTurn /\ ~NoTurn
    BY <1>4 DEF Turns, NoTurn
  <2>. QED
    BY <1>4, <2>1 DEF Turns, OneTurn
<1>13. Turns'
  <2>. SUFFICES ASSUME ~stalled PROVE Turns'
    BY <1>1 DEF Turns
  <2>1. (NoResult' <=> NoResult) /\ (OneResult' <=> OneResult)
    BY <1>1 DEF NoResult, OneResult
  <2>2. OneTurn'
    <3>1. CASE open
      <4>1. Len(stdin') = 1 /\ stdin'[1] = x
        BY <1>3, <1>7, <1>10, <1>12, <3>1, PipeGrows
      <4>. QED
        BY <1>1, <1>5, <1>6, <1>12, <2>1, <4>1 DEF OneTurn, Own
    <3>2. CASE ~open
      BY <1>1, <1>5, <1>6, <1>7, <1>12, <2>1, <3>2 DEF OneTurn
    <3>. QED
      BY <3>1, <3>2
  <2>. QED
    BY <1>1, <1>5, <1>7, <1>12, <2>2 DEF Turns
<1>14. Kept'
  <2>1. x \in Msgs /\ ~stalled => x = current
    BY <1>12 DEF Own
  <2>. QED
    BY <1>1, <1>4, <1>5, <1>6, <1>7, <1>8, <2>1, Apart DEF Kept
<1>. QED
  BY <1>9, <1>11, <1>13, <1>14

\* The reader reports.
LEMMA ReaderTellKeeps ==
    ASSUME IInv, MessageInv, ReaderActs, Head(readerDo).do # "Put"
    PROVE  MessageInv'
<1>. DEFINE d == Head(readerDo)
<1>1. /\ readerDo # <<>> /\ Tell(d) /\ readerDo' = Tail(readerDo)
      /\ UNCHANGED <<state, current, queue, main, mainDo, stdout, agent, open, sent, answered, stalled>>
  BY DEF ReaderActs, shared
<1>2. readerDo \in Seq(Items) /\ d \in ReaderItems
  <2>1. readerDo \in Seq(ReaderItems) /\ readerDo \in Seq(Items)
    BY ItemsType DEF Threads
  <2>. QED
    BY <1>1, <2>1, TailType
<1>3. /\ d.do \in {"Dropped", "Completion"} /\ d.arg \in Msgs \cup {None}
      /\ d.do = "Dropped" => d.arg \in Msgs
  BY <1>2 DEF ReaderItems
<1>4. /\ ReaderPut = ReaderPut'
      /\ ReaderFails = (IF d.do = "Dropped" THEN {d.arg} ELSE {}) \cup ReaderFails'
      /\ ReaderDone = (IF d.do = "Completion" THEN {d.arg} ELSE {}) \cup ReaderDone'
  <2>1. ASSUME NEW evs
        PROVE  Named(readerDo, evs) = (IF d.do \in evs THEN {d.arg} ELSE {}) \cup Named(readerDo', evs)
    BY <1>1, <1>2, NamedTail
  <2>. HIDE DEF d
  <2>2. ReaderPut = ReaderPut'
    BY <1>3, <2>1 DEF ReaderPut
  <2>3. ReaderFails = (IF d.do = "Dropped" THEN {d.arg} ELSE {}) \cup ReaderFails'
    BY <1>3, <2>1 DEF ReaderFails, Fails
  <2>4. ReaderDone = (IF d.do = "Completion" THEN {d.arg} ELSE {}) \cup ReaderDone'
    BY <1>3, <2>1 DEF ReaderDone
  <2>. QED
    BY <2>2, <2>3, <2>4
<1>. HIDE DEF d
<1>5. UNCHANGED <<stdin, written>> /\ told' = Hear(d)
  BY <1>1 DEF Tell
<1>6. /\ told'.acked = told.acked /\ told'.refused = told.refused
      /\ told'.dropped = (IF d.do = "Dropped" THEN {d.arg} ELSE {}) \cup told.dropped
      /\ told'.completed =
           (IF d.do = "Completion" THEN {d.arg} \cap Msgs ELSE {}) \cup told.completed
  BY <1>3, <1>5 DEF TypeOK, Hear
<1>7. /\ Unsent' = Unsent /\ Sent' = Sent /\ Queued' = Queued
      /\ MainPut' = MainPut /\ MainAcks' = MainAcks /\ MainFails' = MainFails
  BY <1>1, SameMain DEF Queued
<1>8. Failed' = Failed
  BY <1>4, <1>6, <1>7 DEF Failed
<1>9. Placed'
  BY <1>1, <1>4, <1>5, <1>7, <1>8 DEF Placed
<1>10. Delivered'
  BY <1>1, <1>5, <1>6, <1>7 DEF Delivered
<1>11. (OneTurn' <=> OneTurn) /\ (NoTurn' <=> NoTurn)
  BY <1>1, <1>4, <1>5, <1>7, SameTurn
<1>12. Turns'
  BY <1>1, <1>4, <1>6, <1>11, SdkAssumption DEF Turns
<1>13. Kept'
  BY <1>1, <1>4, <1>5, <1>7, <1>8 DEF Kept
<1>. QED
  BY <1>9, <1>10, <1>12, <1>13

-----------------------------------------------------------------------------
(* The reader. *)

\* What a result tells of the turn in flight.
LEMMA ResultIsLast ==
    ASSUME IInv, MessageInv, ~stalled, stdout # <<>>, Head(stdout).is \in Results,
           stdout' = Tail(stdout)
    PROVE  /\ MainPut = {} /\ ReaderPut = {} /\ stdin = <<>> /\ agent.on = None
           /\ current \in answered \cup {None} /\ NoResult' /\ OneResult'
           /\ main # "restore" /\ state # "Idle"
<1>1. OneTurn /\ OneResult
  BY DEF Turns, OneTurn
<1>2. ~NoResult /\ NoResult' /\ OneResult'
  BY <1>1, ResultTail
<1>3. ~NoTurn
  BY <1>2 DEF NoTurn
<1>. QED
  BY <1>1, <1>2, <1>3 DEF OneTurn, Turns

\* A line that ends no turn.
LEMMA PassKeeps ==
    ASSUME IInv, MessageInv, stdout # <<>>, stdout' = Tail(stdout), agent'.on = agent.on,
           UNCHANGED <<state, current, queue, main, mainDo, readerDo, stdin, open, sent, written,
                       answered, told, stalled>>
    PROVE  MessageInv'
<1>1. /\ Unsent' = Unsent /\ Sent' = Sent /\ Queued' = Queued /\ Failed' = Failed
      /\ MainPut' = MainPut /\ MainAcks' = MainAcks
      /\ ReaderPut' = ReaderPut /\ ReaderDone' = ReaderDone /\ Distinct(queue') = Distinct(queue)
  BY SamePlaces
<1>2. Placed'
  BY <1>1 DEF Placed
<1>3. Delivered'
  BY <1>1 DEF Delivered, Elements
<1>4. (NoResult => NoResult') /\ (OneResult => OneResult')
  BY ResultTail
<1>5. (OneTurn => OneTurn') /\ (NoTurn => NoTurn')
  BY <1>1, <1>4 DEF OneTurn, NoTurn, Own
<1>6. Turns'
  BY <1>1, <1>5 DEF Turns
<1>7. Kept'
  BY <1>1 DEF Kept
<1>. QED
  BY <1>2, <1>3, <1>6, <1>7

\* The queue is given up.
LEMMA DrainPlaces ==
    ASSUME IInv, MessageInv, readerDo = <<>>, queue' = <<>>, readerDo' = DrainErrors(queue),
           UNCHANGED <<mainDo, sent, written, told>>
    PROVE  /\ Placed' /\ Unsent' = Unsent /\ Sent' = Sent
           /\ MainPut' = MainPut /\ MainAcks' = MainAcks
           /\ ReaderPut = {} /\ ReaderPut' = {} /\ ReaderDone' = {}
           /\ Queued' = {} /\ Failed' = Failed \cup Queued
<1>1. ReaderPut = {} /\ ReaderFails = {} /\ ReaderDone = {}
  BY ReaderIdle
<1>2. ReaderPut' = {} /\ ReaderFails' = Queued /\ ReaderDone' = {}
  <2>1. queue \in Seq(Msgs)
    BY DEF TypeOK
  <2>. QED
    BY <2>1, NamedDrain DEF ReaderPut, ReaderFails, ReaderDone, Fails, Queued
<1>3. Queued' = {} /\ Distinct(queue')
  BY DEF Queued, Elements, Distinct
<1>4. /\ Unsent' = Unsent /\ Sent' = Sent
      /\ MainPut' = MainPut /\ MainAcks' = MainAcks /\ MainFails' = MainFails
  BY SameMain
<1>5. Failed' = Failed \cup Queued
  BY <1>1, <1>2, <1>4 DEF Failed
<1>6. Placed'
  BY <1>1, <1>2, <1>3, <1>4, <1>5 DEF Placed
<1>. QED
  BY <1>1, <1>2, <1>3, <1>4, <1>5, <1>6

\* The agent is out of context.
LEMMA ExhaustedKeeps ==
    ASSUME IInv, MessageInv, ReadContextExhausted
    PROVE  MessageInv'
<1>1. /\ stdout # <<>> /\ Head(stdout).is \in Results /\ stdout' = Tail(stdout) /\ readerDo = <<>>
      /\ state' = "ContextExhausted" /\ queue' = <<>> /\ readerDo' = DrainErrors(queue)
      /\ UNCHANGED <<current, main, mainDo, stdin, agent, open, sent, written, answered, told, stalled>>
  BY DEF ReadContextExhausted, Reads, Threads, Results
<1>2. /\ Placed' /\ Sent' = Sent /\ MainPut' = MainPut /\ MainAcks' = MainAcks
      /\ ReaderPut = {} /\ ReaderPut' = {} /\ ReaderDone' = {}
      /\ Queued' = {} /\ Failed' = Failed \cup Queued
  BY <1>1, DrainPlaces
<1>3. Delivered'
  BY <1>1, <1>2 DEF Delivered, Elements
<1>4. Turns'
  <2>. SUFFICES ASSUME ~stalled PROVE Turns'
    BY <1>1 DEF Turns
  <2>1. /\ MainPut = {} /\ stdin = <<>> /\ agent.on = None /\ NoResult' /\ OneResult'
        /\ main # "restore"
    BY <1>1, ResultIsLast
  <2>2. NoTurn' /\ OneTurn'
    BY <1>1, <1>2, <2>1 DEF NoTurn, OneTurn
  <2>3. told.completed \subseteq answered
    BY DEF Turns
  <2>. QED
    BY <1>1, <1>2, <2>1, <2>2, <2>3 DEF Turns
<1>5. Kept'
  BY <1>1, <1>2 DEF Kept
<1>. QED
  BY <1>2, <1>3, <1>4, <1>5

\* The agent has exited.
LEMMA EofKeeps ==
    ASSUME IInv, MessageInv, ReadEof
    PROVE  MessageInv'
<1>1. /\ state' = "Dead" /\ queue' = <<>> /\ readerDo' = DrainErrors(queue) /\ readerDo = <<>>
      /\ UNCHANGED <<current, main, mainDo, stdin, stdout, agent, open, sent, written, answered, told,
                     stalled>>
  BY DEF ReadEof, pipes, history, Threads
<1>2. /\ Placed' /\ Sent' = Sent /\ MainPut' = MainPut /\ MainAcks' = MainAcks
      /\ ReaderPut = {} /\ ReaderPut' = {} /\ ReaderDone' = {}
      /\ Queued' = {} /\ Failed' = Failed \cup Queued
  BY <1>1, DrainPlaces
<1>3. Delivered'
  BY <1>1, <1>2 DEF Delivered, Elements
<1>4. (OneTurn' <=> OneTurn) /\ (NoTurn' <=> NoTurn)
  BY <1>1, <1>2, SameTurn
<1>5. Turns'
  BY <1>1, <1>2, <1>4 DEF Turns
<1>6. Kept'
  BY <1>1, <1>2 DEF Kept
<1>. QED
  BY <1>2, <1>3, <1>5, <1>6

\* The agent is asked to fix its tests: an input without an id.
LEMMA TestFailureKeeps ==
    ASSUME IInv, MessageInv, ReadTestFailure
    PROVE  MessageInv'
<1>1. /\ stdout # <<>> /\ Head(stdout).is \in Results /\ stdout' = Tail(stdout) /\ readerDo = <<>>
      /\ state' = "Working" /\ current' = None /\ readerDo' = <<Put("followup")>>
      /\ UNCHANGED <<queue, main, mainDo, stdin, agent, open, sent, written, answered, told, stalled>>
  BY DEF ReadTestFailure, Reads, Threads, Results
<1>2. ReaderPut = {} /\ ReaderFails = {} /\ ReaderDone = {}
  BY <1>1, ReaderIdle
<1>3. ReaderPut' = {"followup"} /\ ReaderFails' = {} /\ ReaderDone' = {}
  <2>1. /\ Put("followup") \in Items /\ Put("followup").do = "Put" /\ Put("followup").arg = "followup"
    BY DEF Put, Items, Inputs
  <2>. QED
    BY <1>1, <2>1, NamedTuple DEF ReaderPut, ReaderFails, ReaderDone, Fails
<1>4. /\ Unsent' = Unsent /\ Sent' = Sent /\ Queued' = Queued
      /\ MainPut' = MainPut /\ MainAcks' = MainAcks /\ MainFails' = MainFails
  BY <1>1, SameMain DEF Queued
<1>5. Failed' = Failed
  BY <1>1, <1>2, <1>3, <1>4 DEF Failed
<1>6. "followup" \notin Msgs \cup Unsent \cup Queued \cup MainPut \cup Failed \cup written
  BY Apart
<1>7. Placed'
  BY <1>1, <1>2, <1>3, <1>4, <1>5, <1>6 DEF Placed
<1>8. Delivered'
  BY <1>1, <1>4 DEF Delivered, Elements
<1>9. ~stalled => /\ MainPut = {} /\ stdin = <<>> /\ agent.on = None /\ NoResult' /\ OneResult'
                  /\ current \in answered \cup {None} /\ main # "restore"
  BY <1>1, ResultIsLast
<1>10. Turns'
  <2>. SUFFICES ASSUME ~stalled PROVE Turns'
    BY <1>1 DEF Turns
  <2>1. OneTurn'
    BY <1>1, <1>3, <1>4, <1>6, <1>9 DEF OneTurn, Own
  <2>2. told.completed \subseteq answered
    BY DEF Turns
  <2>. QED
    BY <1>1, <1>3, <1>9, <2>1, <2>2 DEF Turns
<1>11. Kept'
  <2>1. answered \subseteq written
    BY DEF Delivered
  <2>. QED
    BY <1>1, <1>2, <1>3, <1>4, <1>5, <1>6, <1>9, <2>1, Apart DEF Kept
<1>. QED
  BY <1>7, <1>8, <1>10, <1>11

\* The end of a turn moves the first message of the queue to the reader.
LEMMA EndTurnPlaces ==
    ASSUME IInv, MessageInv, readerDo = <<>>, EndTurn, UNCHANGED <<mainDo, sent, written, told>>
    PROVE  /\ Placed' /\ Unsent' = Unsent /\ Sent' = Sent
           /\ MainPut' = MainPut /\ MainAcks' = MainAcks
           /\ ReaderPut = {} /\ ReaderDone' = {current} /\ Failed' = Failed
           /\ \/ /\ state' = "Idle" /\ current' = None /\ ReaderPut' = {} /\ Queued' = Queued
              \/ /\ state' = "Working" /\ current' \in Queued /\ current' \in Msgs
                 /\ ReaderPut' = {current'} /\ Queued' = Queued \ {current'}
<1>1. ReaderPut = {} /\ ReaderFails = {} /\ ReaderDone = {}
  BY ReaderIdle
<1>2. /\ Unsent' = Unsent /\ Sent' = Sent
      /\ MainPut' = MainPut /\ MainAcks' = MainAcks /\ MainFails' = MainFails
  BY SameMain
<1>3. /\ readerDo' \in Seq(Items) /\ readerDo'[1].do = "Completion" /\ readerDo'[1].arg = current
  BY EndTurnEffect, ItemsType DEF Say
<1>4. CASE queue = <<>>
  <2>1. queue' = queue /\ state' = "Idle" /\ current' = None /\ Len(readerDo') = 1
    BY <1>4, EndTurnEffect
  <2>2. ReaderPut' = {} /\ ReaderFails' = {} /\ ReaderDone' = {current}
    BY <1>3, <2>1, NamedOne DEF ReaderPut, ReaderFails, ReaderDone, Fails
  <2>3. Queued' = Queued /\ Distinct(queue') = Distinct(queue)
    BY <2>1 DEF Queued
  <2>4. Failed' = Failed
    BY <1>1, <1>2, <2>2 DEF Failed
  <2>5. Placed'
    BY <1>1, <1>2, <2>2, <2>3, <2>4 DEF Placed
  <2>. QED
    BY <1>1, <1>2, <2>1, <2>2, <2>3, <2>4, <2>5
<1>5. CASE queue # <<>>
  <2>1. /\ queue' = Tail(queue) /\ state' = "Working" /\ current' = Head(queue) /\ current' \in Msgs
        /\ Len(readerDo') = 2 /\ readerDo'[2] = Put(Head(queue))
    BY <1>5, EndTurnEffect
  <2>2. readerDo'[2].do = "Put" /\ readerDo'[2].arg = current'
    BY <2>1 DEF Put
  <2>3. ReaderPut' = {current'} /\ ReaderFails' = {} /\ ReaderDone' = {current}
    BY <1>3, <2>1, <2>2, NamedTwo DEF ReaderPut, ReaderFails, ReaderDone, Fails
  <2>4. Queued' = Queued \ {current'} /\ Distinct(queue') /\ current' \in Queued
    BY <1>5, <2>1, ElementsTail DEF Queued, Placed, TypeOK
  <2>5. Failed' = Failed
    BY <1>1, <1>2, <2>3 DEF Failed
  <2>6. Placed'
    BY <1>1, <1>2, <2>3, <2>4, <2>5 DEF Placed
  <2>. QED
    BY <1>1, <1>2, <2>1, <2>3, <2>4, <2>5, <2>6
<1>. QED
  BY <1>4, <1>5

\* The agent has finished a turn.
LEMMA ResultKeeps ==
    ASSUME IInv, MessageInv, ReadResult
    PROVE  MessageInv'
<1>1. /\ stdout # <<>> /\ Head(stdout).is \in Results /\ stdout' = Tail(stdout) /\ readerDo = <<>>
      /\ EndTurn
      /\ UNCHANGED <<main, mainDo, stdin, agent, open, sent, written, answered, told, stalled>>
  BY DEF ReadResult, Reads, Threads, Results
<1>2. /\ Placed' /\ Sent' = Sent /\ MainPut' = MainPut /\ MainAcks' = MainAcks
      /\ ReaderPut = {} /\ ReaderDone' = {current} /\ Failed' = Failed
      /\ \/ /\ state' = "Idle" /\ current' = None /\ ReaderPut' = {} /\ Queued' = Queued
         \/ /\ state' = "Working" /\ current' \in Queued /\ current' \in Msgs
            /\ ReaderPut' = {current'} /\ Queued' = Queued \ {current'}
  BY <1>1, EndTurnPlaces
<1>3. Delivered'
  BY <1>1, <1>2 DEF Delivered, Elements
<1>4. ~stalled => /\ MainPut = {} /\ stdin = <<>> /\ agent.on = None /\ NoResult' /\ OneResult'
                  /\ current \in answered \cup {None} /\ main # "restore"
  BY <1>1, ResultIsLast
<1>5. Turns'
  <2>. SUFFICES ASSUME ~stalled PROVE Turns'
    BY <1>1 DEF Turns
  <2>1. OneTurn' /\ (state' = "Idle" => NoTurn' /\ current' = None)
    BY <1>1, <1>2, <1>4 DEF OneTurn, NoTurn, Own
  <2>2. told.completed \subseteq answered
    BY DEF Turns
  <2>. QED
    BY <1>1, <1>2, <1>4, <2>1, <2>2 DEF Turns
<1>6. Kept'
  <2>1. answered \subseteq written
    BY DEF Delivered
  <2>. QED
    BY <1>1, <1>2, <1>4, <2>1, Apart DEF Kept
<1>. QED
  BY <1>2, <1>3, <1>5, <1>6

\* The reader gives the turn up.
LEMMA StallKeeps ==
    ASSUME IInv, MessageInv, Stall, state = "Working"
    PROVE  MessageInv'
<1>1. /\ readerDo = <<>> /\ EndTurn /\ stalled' = TRUE
      /\ UNCHANGED <<main, mainDo, stdin, stdout, agent, open, sent, written, answered, told>>
  BY DEF Stall, Threads, pipes
<1>2. /\ Placed' /\ Sent' = Sent /\ MainPut' = MainPut /\ MainAcks' = MainAcks
      /\ ReaderPut = {} /\ Failed' = Failed
      /\ \/ ReaderPut' = {} /\ Queued' = Queued
         \/ ReaderPut' = {current'} /\ Queued' = Queued \ {current'}
  BY <1>1, EndTurnPlaces
<1>3. Delivered'
  BY <1>1, <1>2 DEF Delivered, Elements
<1>4. Turns'
  BY <1>1 DEF Turns
<1>5. Kept'
  BY <1>1, <1>2 DEF Kept
<1>. QED
  BY <1>2, <1>3, <1>4, <1>5

-----------------------------------------------------------------------------
(* The agent. *)

\* The agent takes an input: the only one there is.
LEMMA AgentReadsKeeps ==
    ASSUME IInv, MessageInv, AgentReads
    PROVE  MessageInv'
<1>1. /\ stdin # <<>> /\ agent'.on = Head(stdin) /\ stdin' = Tail(stdin)
      /\ UNCHANGED <<state, current, queue, main, mainDo, readerDo, stdout, open, sent, written,
                     answered, told, stalled>>
  BY DEF AgentReads, AgentStep, shared, threads
<1>2. /\ Unsent' = Unsent /\ Sent' = Sent /\ Queued' = Queued /\ Failed' = Failed
      /\ MainPut' = MainPut /\ MainAcks' = MainAcks
      /\ ReaderPut' = ReaderPut /\ ReaderDone' = ReaderDone /\ Distinct(queue') = Distinct(queue)
  BY <1>1, SamePlaces
<1>3. /\ Elements(stdin') \subseteq Elements(stdin) /\ Head(stdin) = stdin[1]
      /\ Head(stdin) \in Msgs => Head(stdin) \in Elements(stdin)
      /\ Len(stdin) = 1 => stdin' = <<>>
  BY <1>1, PipeShrinks DEF TypeOK
<1>4. Placed'
  BY <1>1, <1>2 DEF Placed
<1>5. Delivered'
  BY <1>1, <1>2, <1>3 DEF Delivered
<1>6. Turns'
  <2>. SUFFICES ASSUME ~stalled PROVE Turns'
    BY <1>1 DEF Turns
  <2>1. OneTurn /\ ~NoTurn
    BY <1>1 DEF Turns, NoTurn
  <2>2. /\ MainPut = {} /\ ReaderPut = {} /\ Len(stdin) = 1 /\ Own(Head(stdin)) /\ NoResult
        /\ OneResult
    BY <1>1, <1>3, <2>1 DEF OneTurn
  <2>3. (NoResult' <=> NoResult) /\ (OneResult' <=> OneResult)
    BY <1>1 DEF NoResult, OneResult
  <2>4. OneTurn'
    BY <1>1, <1>2, <1>3, <2>2, <2>3 DEF OneTurn, Own
  <2>. QED
    BY <1>1, <1>2, <2>1, <2>4 DEF Turns
<1>7. Kept'
  BY <1>1, <1>2 DEF Kept
<1>. QED
  BY <1>4, <1>5, <1>6, <1>7

\* The agent says something.
LEMMA AgentSpeaksKeeps ==
    ASSUME IInv, MessageInv, AgentSpeaks
    PROVE  MessageInv'
<1>1. UNCHANGED <<state, current, queue, main, mainDo, readerDo, stdin, open, sent, written,
                  answered, told, stalled>>
  BY DEF AgentSpeaks, AgentStep, shared, threads
<1>2. PICK kind \in {"text", "ask"} :
        /\ stdout' = Append(stdout, [is |-> kind])
        /\ agent' = [agent EXCEPT !.mode = IF kind = "ask" THEN "asking" ELSE "busy"]
  BY DEF AgentSpeaks
<1>3. agent'.on = agent.on
  BY <1>2 DEF TypeOK
<1>4. kind \notin Results
  BY DEF Results
<1>5. (NoResult' <=> NoResult) /\ (OneResult => OneResult')
  BY <1>2, <1>4, ResultAppend
<1>6. /\ Unsent' = Unsent /\ Sent' = Sent /\ Queued' = Queued /\ Failed' = Failed
      /\ MainPut' = MainPut /\ MainAcks' = MainAcks
      /\ ReaderPut' = ReaderPut /\ ReaderDone' = ReaderDone /\ Distinct(queue') = Distinct(queue)
  BY <1>1, SamePlaces
<1>7. Placed'
  BY <1>1, <1>6 DEF Placed
<1>8. Delivered'
  BY <1>1, <1>3, <1>6 DEF Delivered, Elements
<1>9. (OneTurn => OneTurn') /\ (NoTurn => NoTurn')
  BY <1>1, <1>3, <1>5, <1>6 DEF OneTurn, NoTurn, Own
<1>10. Turns'
  BY <1>1, <1>6, <1>9 DEF Turns
<1>11. Kept'
  BY <1>1, <1>6 DEF Kept
<1>. QED
  BY <1>7, <1>8, <1>10, <1>11

\* The agent has finished its input.
LEMMA AgentAnswersKeeps ==
    ASSUME IInv, MessageInv, NEW kind \in Results, AgentAnswers(kind)
    PROVE  MessageInv'
<1>1. /\ stdout' = Append(stdout, [is |-> kind]) /\ agent'.on = None
      /\ answered' = answered \cup ({agent.on} \cap Msgs) /\ agent.on # None
      /\ UNCHANGED <<state, current, queue, main, mainDo, readerDo, stdin, open, sent, written,
                     told, stalled>>
  BY DEF AgentAnswers, AgentStep, shared, threads, Process
<1>2. /\ Unsent' = Unsent /\ Sent' = Sent /\ Queued' = Queued /\ Failed' = Failed
      /\ MainPut' = MainPut /\ MainAcks' = MainAcks
      /\ ReaderPut' = ReaderPut /\ ReaderDone' = ReaderDone /\ Distinct(queue') = Distinct(queue)
  BY <1>1, SamePlaces
<1>3. Placed'
  BY <1>1, <1>2 DEF Placed
<1>4. Delivered'
  <2>1. None \notin Msgs
    BY SdkAssumption
  <2>. QED
    BY <1>1, <1>2, <2>1 DEF Delivered, Elements
<1>5. Turns'
  <2>. SUFFICES ASSUME ~stalled PROVE Turns'
    BY <1>1 DEF Turns
  <2>1. OneTurn /\ ~NoTurn
    BY <1>1 DEF Turns, NoTurn
  <2>2. MainPut = {} /\ ReaderPut = {} /\ stdin = <<>> /\ Own(agent.on) /\ NoResult
    BY <1>1, <2>1 DEF OneTurn
  <2>3. OneResult'
    BY <1>1, <2>2, ResultAppend
  <2>4. OneTurn'
    BY <1>1, <1>2, <2>2, <2>3 DEF OneTurn, Own
  <2>. QED
    BY <1>1, <1>2, <2>1, <2>4 DEF Turns
<1>6. Kept'
  BY <1>1, <1>2 DEF Kept
<1>. QED
  BY <1>3, <1>4, <1>5, <1>6

-----------------------------------------------------------------------------
(* Every step, and the initial state. *)

\* Every step keeps the invariant.
LEMMA MessageInvNext ==
    ASSUME IInv, MessageInv, [Next]_vars
    PROVE  MessageInv'
<1>1. CASE UNCHANGED vars
  <2>1. /\ UNCHANGED <<current, queue, mainDo, readerDo, stdin, stdout, open, sent, written, answered,
                       told, stalled>>
        /\ agent' = agent /\ state' = state /\ main' = main
    BY <1>1 DEF vars, shared, threads, pipes, history
  <2>. QED
    BY <2>1, FrameKeeps
<1>2. CASE ReaderWaits \/ KeepaliveFailed \/ (Stall /\ state # "Working")
  <2>1. /\ UNCHANGED <<current, queue, mainDo, readerDo, stdin, stdout, open, sent, written, answered,
                       told, stalled>>
        /\ agent' = agent
        /\ (state' = state /\ main' = main) \/ KeepaliveFailed
    BY <1>2 DEF ReaderWaits, KeepaliveFailed, Stall, shared, pipes, history
  <2>. QED
    BY <2>1, FrameKeeps
<1>3. CASE ReadText \/ ReadToolRequest \/ ReadStray
  <2>1. /\ stdout # <<>> /\ stdout' = Tail(stdout)
        /\ UNCHANGED <<state, current, queue, main, mainDo, readerDo, stdin, open, sent, written,
                       answered, told, stalled>>
    BY <1>3 DEF ReadText, ReadToolRequest, ReadStray, Reads, shared
  <2>2. agent'.on = agent.on
    BY <1>3 DEF ReadText, ReadToolRequest, ReadStray, TypeOK
  <2>. QED
    BY <2>1, <2>2, PassKeeps
<1>4. CASE Stop \/ AgentExits
  <2>1. /\ Exit /\ main' \in {main, "done"}
        /\ UNCHANGED <<state, current, queue, mainDo, readerDo, stdout, sent, written, answered, told,
                       stalled>>
    BY <1>4 DEF Stop, AgentExits, AgentStep, shared, threads, history
  <2>. QED
    BY <2>1, ExitKeeps
<1>5. CASE MainActs
  BY <1>5, MainPutKeeps, MainTellKeeps
<1>6. CASE ReaderActs
  BY <1>6, ReaderPutKeeps, ReaderTellKeeps
<1>7. CASE ReadContextExhausted \/ ReadTestFailure \/ ReadResult \/ ReadEof
  BY <1>7, ExhaustedKeeps, TestFailureKeeps, ResultKeeps, EofKeeps
<1>8. CASE Stall /\ state = "Working"
  BY <1>8, StallKeeps
<1>9. CASE Keepalive \/ (\E m \in Msgs : SendNow(m) \/ SendLater(m) \/ SendRefused(m))
  BY <1>9, KeepaliveKeeps, SendNowKeeps, SendLaterKeeps, SendRefusedKeeps
<1>10. CASE AgentReads \/ AgentSpeaks \/ (\E kind \in Results : AgentAnswers(kind))
  BY <1>10, AgentReadsKeeps, AgentSpeaksKeeps, AgentAnswersKeeps
<1>. QED
  BY <1>1, <1>2, <1>3, <1>4, <1>5, <1>6, <1>7, <1>8, <1>9, <1>10 DEF Next, Reader, Main, Agent

\* No message has come yet.
LEMMA MessageInvInit == Init => MessageInv
<1>. SUFFICES ASSUME Init PROVE MessageInv
  OBVIOUS
<1>1. /\ Queued = {} /\ Distinct(queue) /\ Elements(stdin) = {} /\ written = {} /\ answered = {}
      /\ told.acked = {} /\ told.completed = {} /\ told.refused = {} /\ told.dropped = {}
      /\ current = None /\ main = "recv" /\ stdin = <<>> /\ agent.on = None /\ state = "Idle"
  BY DEF Init, Queued, Elements, Distinct
<1>2. MainPut = {} /\ MainAcks = {} /\ MainFails = {}
  BY MainIdle DEF Init
<1>3. ReaderPut = {} /\ ReaderFails = {} /\ ReaderDone = {}
  BY ReaderIdle DEF Init
<1>4. NoResult /\ OneResult
  BY DEF Init, NoResult, OneResult
<1>5. Sent = {}
  BY DEF Init, Sent
<1>6. Placed
  BY <1>1, <1>2, <1>3 DEF Placed, Failed
<1>7. Delivered
  BY <1>1, <1>2, SdkAssumption DEF Delivered
<1>8. Turns
  BY <1>1, <1>2, <1>3, <1>4 DEF Turns, OneTurn, NoTurn
<1>9. Kept
  BY <1>5 DEF Kept
<1>. QED
  BY <1>6, <1>7, <1>8, <1>9

\* The two invariants together.
LEMMA MessageInvariant == Spec => [](IInv /\ MessageInv)
<1>1. Init => IInv /\ MessageInv
  BY IInvInit, MessageInvInit
<1>2. IInv /\ MessageInv /\ [Next]_vars => (IInv /\ MessageInv)'
  BY IInvNext, MessageInvNext
<1>. QED
  BY <1>1, <1>2, PTL DEF Spec

-----------------------------------------------------------------------------
(* The properties. *)

\* A message the daemon is told was delivered has been written to the agent, and
\* one it is told was refused or dropped has not, now or later: the two threads
\* never make contradictory reports.
THEOREM ReportsNeverConflict == Spec => []ReportsAgree
<1>1. IInv /\ MessageInv => ReportsAgree
  BY DEF Placed, Delivered, Failed, ReportsAgree
<1>. QED
  BY <1>1, MessageInvariant, PTL

\* A completion the daemon hears of is that of a message the agent has answered,
\* as long as the reader has given up no turn: results are not tagged, and there is
\* never a second turn whose result could be taken for it.
THEOREM CompletionsAreOwn == Spec => []CompletionIsOwn
<1>1. IInv /\ MessageInv => CompletionIsOwn
  BY DEF Turns, CompletionIsOwn
<1>. QED
  BY <1>1, MessageInvariant, PTL

\* No message the shim has taken disappears, except the one whose unchecked write
\* the agent's exit makes fail.
THEOREM MessagesAccounted == Spec => []Accounted
<1>1. ASSUME IInv, MessageInv PROVE Accounted
  <2>1. ASSUME NEW i \in 1 .. sent PROVE Order[i] \in Sent
    <3>1. i \in 1 .. Len(Order) /\ Order \in Seq(Msgs)
      BY <1>1, SdkAssumption DEF TypeOK
    <3>. QED
      BY <3>1 DEF Sent
  <2>2. Queued \subseteq Range(queue)
    BY <1>1 DEF Queued, Elements, Range, TypeOK
  <2>3. ASSUME NEW todo \in Seq(Items), NEW evs PROVE Named(todo, evs) \subseteq Left(todo)
    BY DEF Named, Left
  <2>4. mainDo \in Seq(Items) /\ readerDo \in Seq(Items)
    BY <1>1 DEF TypeOK
  <2>5. MainPut \cup MainFails \subseteq Left(mainDo) /\ ReaderPut \cup ReaderFails \subseteq Left(readerDo)
    BY <2>3, <2>4 DEF MainPut, MainFails, ReaderPut, ReaderFails
  <2>. QED
    BY <1>1, <2>1, <2>2, <2>5 DEF Accounted, Kept, Failed
<1>. QED
  BY <1>1, MessageInvariant, PTL

\* An agent out of context gets no further turn, as long as the reader has given up
\* none: no result is under way that could end the state, and the command loop is
\* not about to restore Idle.
THEOREM ExhaustionIsFinal == Spec => ExhaustedIsFinal
<1>1. ASSUME IInv, MessageInv, [Next]_vars
      PROVE  [state = "ContextExhausted" /\ ~stalled => state' \in Terminal]_vars
  <2>. SUFFICES ASSUME Next, state = "ContextExhausted", ~stalled
                PROVE  state' \in Terminal
    BY <1>1 DEF vars
  <2>1. NoTurn /\ main # "restore"
    BY <1>1 DEF Turns
  <2>2. stdout # <<>> => Head(stdout).is \notin Results
    BY <1>1, <2>1, TailType DEF NoTurn, NoResult, TypeOK
  <2>3. ~KeepaliveFailed /\ ~ReadTestFailure /\ ~ReadResult
    BY <2>1, <2>2 DEF KeepaliveFailed, ReadTestFailure, ReadResult, Reads, Results
  <2>4. CASE Reader \/ Stall
    BY <2>3, <2>4 DEF Reader, ReaderActs, ReaderWaits, ReadText, ReadToolRequest, ReadStray,
                      ReadContextExhausted, ReadEof, Stall, shared, Terminal
  <2>5. CASE Main
    BY <2>3, <2>5 DEF Main, MainActs, Keepalive, Stop, SendNow, Accepts, SendLater, SendRefused, shared,
                      Terminal
  <2>6. CASE Agent
    BY <2>6 DEF Agent, AgentReads, AgentSpeaks, AgentExits, AgentAnswers, AgentStep, shared, Terminal
  <2>. QED
    BY <2>4, <2>5, <2>6 DEF Next
<1>. QED
  BY <1>1, MessageInvariant, PTL DEF Spec, ExhaustedIsFinal
=============================================================================
