------------------------- MODULE ShimMessageProofs -------------------------
(***************************************************************************)
(* What the shim does with the messages it is given, for every set of      *)
(* messages, every queue depth and every kind of agent: none is written    *)
(* twice, none is lost without a report, an acknowledgement is only sent   *)
(* for a message that was submitted, and a turn completes once.            *)
(***************************************************************************)
EXTENDS ShimRuntimeProofs

-----------------------------------------------------------------------------
(* The inductive invariant.  The four properties of ShimRuntime speak of    *)
(* the queue, the prompt and the socket; each needs to know what the steps  *)
(* that the threads still have to do may hold.                              *)

Writes     == {"paste", "enter"}
Answers    == {"Error", "DeliveryFailed"}
FirstWrite == IF AgentType = "Generic" THEN "enter" ELSE "paste"

Distinct(q) == \A i, j \in DOMAIN q : q[i] = q[j] => i = j

\* A message is in one place at a time: with the daemon, queued, or written.
PlacesDisjoint ==
    /\ Distinct(queue)
    /\ Elements(queue) \cap (unsent \cup prompt \cup submitted) = {}
    /\ (prompt \cup submitted) \cap unsent = {}

\* A message some thread is about to write is neither with the daemon nor
\* queued, and its first write has not happened.
WritesFresh ==
    \A t \in Threads : \A i \in DOMAIN todo[t] :
        (todo[t][i].op \in Writes /\ todo[t][i].msg \in Msgs) =>
            /\ todo[t][i].msg \notin unsent \cup Elements(queue)
            /\ todo[t][i].op = FirstWrite => todo[t][i].msg \notin prompt \cup submitted

\* The first write of a message comes before every other write of it, and no
\* other thread has one.
WritesOrdered ==
    \A t, u \in Threads : \A i \in DOMAIN todo[t], j \in DOMAIN todo[u] :
        (/\ todo[t][i].op = FirstWrite
         /\ todo[u][j].op \in Writes
         /\ todo[t][i].msg = todo[u][j].msg
         /\ todo[t][i].msg \in Msgs)
        => t = u /\ i <= j

\* An acknowledgement comes after the Enter that submits its message.
AcksOrdered ==
    \A t \in Threads : \A i \in DOMAIN todo[t] :
        (todo[t][i].op = "MessageDelivered" /\ todo[t][i].msg \in Msgs) =>
            \/ todo[t][i].msg \in submitted
            \/ \E j \in DOMAIN todo[t] :
                /\ j < i
                /\ todo[t][j].op = "enter"
                /\ todo[t][j].msg = todo[t][i].msg

\* A thread that has a write to do answers for that message and no other: a
\* write that fails throws away nothing else.
OneMessage ==
    \A t \in Threads : \A i, j \in DOMAIN todo[t] :
        (todo[t][i].op \in Writes /\ todo[t][j].op \in Writes \cup Answers)
        => todo[t][j].msg = todo[t][i].msg

\* A message the daemon sent is queued, about to be written or reported, in the
\* agent's prompt, or reported.
Carried(m) ==
    \E t \in Threads : \E i \in DOMAIN todo[t] :
        todo[t][i].op \in Writes \cup Answers /\ todo[t][i].msg = m

Kept(m) ==
    \/ m \in Elements(queue)
    \/ Carried(m)
    \/ m \in prompt \cup submitted
    \/ Reported(m, Answers)

AllKept == connected => \A m \in Msgs \ unsent : Kept(m)

\* The completion of a message is pending, about to be sent or sent: one of
\* the three, and only once it has left the daemon and the queue.
Waiting == unsent \cup Elements(queue)

CompletionsFresh ==
    \A t \in Threads : \A i \in DOMAIN todo[t] :
        (todo[t][i].op = "Completion" /\ todo[t][i].msg \in Msgs) =>
            /\ todo[t][i].msg \notin Waiting
            /\ todo[t][i].msg # pending
            /\ ~Reported(todo[t][i].msg, {"Completion"})

CompletionsUnique ==
    \A t, u \in Threads : \A i \in DOMAIN todo[t], j \in DOMAIN todo[u] :
        (/\ todo[t][i].op = "Completion"
         /\ todo[u][j].op = "Completion"
         /\ todo[t][i].msg = todo[u][j].msg
         /\ todo[t][i].msg \in Msgs)
        => t = u /\ i = j

PendingFresh ==
    /\ pending \notin Waiting
    /\ \A m \in Msgs : Reported(m, {"Completion"}) => m # pending /\ m \notin Waiting

WriteInv      == PlacesDisjoint /\ WritesFresh /\ WritesOrdered /\ OneMessage
AckInv        == AcksOrdered /\ AckMeansSubmitted
CompletionInv == CompletionsFresh /\ CompletionsUnique /\ PendingFresh

-----------------------------------------------------------------------------
(* Lemmas about queues and lists of steps. *)

\* The messages of a queue, after a pop and after a push.
LEMMA QueueElements ==
    ASSUME NEW q \in Seq(Msgs), NEW m \in Msgs
    PROVE  /\ q = <<>> => Elements(q) = {}
           /\ q # <<>> => Elements(q) = {Head(q)} \cup Elements(Tail(q))
           /\ Elements(Append(q, m)) = Elements(q) \cup {m}
<1>1. q = <<>> => Elements(q) = {}
  BY DEF Elements
<1>2. ASSUME q # <<>> PROVE Elements(q) = {Head(q)} \cup Elements(Tail(q))
  <2>1. /\ DOMAIN q = 1 .. Len(q) /\ Len(q) \in Nat \ {0}
        /\ DOMAIN Tail(q) = 1 .. (Len(q) - 1)
        /\ \A i \in 1 .. (Len(q) - 1) : Tail(q)[i] = q[i + 1]
        /\ Head(q) = q[1]
    BY <1>2
  <2>2. ASSUME NEW x \in Elements(q) PROVE x \in {Head(q)} \cup Elements(Tail(q))
    <3>1. PICK i \in 1 .. Len(q) : x = q[i]
      BY <2>1, <2>2 DEF Elements
    <3>2. CASE i = 1
      BY <2>1, <3>1, <3>2
    <3>3. CASE i # 1
      <4>1. i - 1 \in 1 .. (Len(q) - 1) /\ Tail(q)[i - 1] = x
        BY <2>1, <3>1, <3>3
      <4>. QED
        BY <2>1, <4>1 DEF Elements
    <3>. QED
      BY <3>2, <3>3
  <2>3. ASSUME NEW x \in {Head(q)} \cup Elements(Tail(q)) PROVE x \in Elements(q)
    <3>1. CASE x = Head(q)
      BY <2>1, <3>1 DEF Elements
    <3>2. CASE x \in Elements(Tail(q))
      <4>1. PICK i \in 1 .. (Len(q) - 1) : x = Tail(q)[i]
        BY <2>1, <3>2 DEF Elements
      <4>2. i + 1 \in 1 .. Len(q) /\ q[i + 1] = x
        BY <2>1, <4>1
      <4>. QED
        BY <2>1, <4>2 DEF Elements
    <3>. QED
      BY <2>3, <3>1, <3>2
  <2>. QED
    BY <2>2, <2>3
<1>3. Elements(Append(q, m)) = Elements(q) \cup {m}
  <2>1. /\ DOMAIN q = 1 .. Len(q) /\ Len(q) \in Nat
        /\ DOMAIN Append(q, m) = 1 .. (Len(q) + 1)
        /\ \A i \in 1 .. Len(q) : Append(q, m)[i] = q[i]
        /\ Append(q, m)[Len(q) + 1] = m
    OBVIOUS
  <2>2. ASSUME NEW x \in Elements(Append(q, m)) PROVE x \in Elements(q) \cup {m}
    <3>1. PICK i \in 1 .. (Len(q) + 1) : x = Append(q, m)[i]
      BY <2>1, <2>2 DEF Elements
    <3>2. i \in 1 .. Len(q) \/ i = Len(q) + 1
      BY <2>1
    <3>. QED
      BY <2>1, <3>1, <3>2 DEF Elements
  <2>3. ASSUME NEW x \in Elements(q) \cup {m} PROVE x \in Elements(Append(q, m))
    <3>1. CASE x = m
      <4>1. Len(q) + 1 \in 1 .. (Len(q) + 1)
        BY <2>1
      <4>. QED
        BY <2>1, <3>1, <4>1 DEF Elements
    <3>2. CASE x \in Elements(q)
      <4>1. PICK i \in 1 .. Len(q) : x = q[i]
        BY <2>1, <3>2 DEF Elements
      <4>2. i \in 1 .. (Len(q) + 1)
        BY <2>1, <4>1
      <4>. QED
        BY <2>1, <4>1, <4>2 DEF Elements
    <3>. QED
      BY <2>3, <3>1, <3>2
  <2>. QED
    BY <2>2, <2>3
<1>. QED
  BY <1>1, <1>2, <1>3

\* A queue holds messages.
LEMMA QueueWithin ==
    ASSUME NEW q \in Seq(Msgs)
    PROVE  Elements(q) \subseteq Msgs
BY DEF Elements

\* A list that has lost its first step is another list.
LEMMA TailDiffers ==
    ASSUME NEW s \in Seq(Step), s # <<>>
    PROVE  Tail(s) # s
<1>. DEFINE r == Tail(s)
<1>1. Len(r) = Len(s) - 1 /\ Len(s) \in Nat
  OBVIOUS
<1>. HIDE DEF r
<1>2. r # s
  BY <1>1
<1>. QED
  BY <1>2 DEF r

\* A queue of distinct messages stays one after a pop, and after a push of a
\* message that is not in it.
LEMMA QueueDistinct ==
    ASSUME NEW q \in Seq(Msgs), Distinct(q), NEW m \in Msgs
    PROVE  /\ q # <<>> => Distinct(Tail(q)) /\ Head(q) \notin Elements(Tail(q))
           /\ m \notin Elements(q) => Distinct(Append(q, m))
<1>1. ASSUME q # <<>> PROVE Distinct(Tail(q)) /\ Head(q) \notin Elements(Tail(q))
  <2>1. /\ DOMAIN q = 1 .. Len(q) /\ Len(q) \in Nat \ {0}
        /\ DOMAIN Tail(q) = 1 .. (Len(q) - 1)
        /\ \A i \in 1 .. (Len(q) - 1) : Tail(q)[i] = q[i + 1] /\ i + 1 \in 1 .. Len(q)
        /\ Head(q) = q[1] /\ 1 \in 1 .. Len(q)
    BY <1>1
  <2>2. Distinct(Tail(q))
    BY <2>1 DEF Distinct
  <2>3. Head(q) \notin Elements(Tail(q))
    BY <2>1 DEF Distinct, Elements
  <2>. QED
    BY <2>2, <2>3
<1>2. ASSUME m \notin Elements(q) PROVE Distinct(Append(q, m))
  <2>1. /\ DOMAIN q = 1 .. Len(q) /\ Len(q) \in Nat
        /\ DOMAIN Append(q, m) = 1 .. (Len(q) + 1)
        /\ \A i \in 1 .. Len(q) : Append(q, m)[i] = q[i]
        /\ Append(q, m)[Len(q) + 1] = m
    OBVIOUS
  <2>2. \A i \in 1 .. Len(q) : q[i] # m
    BY <1>2, <2>1 DEF Elements
  <2>3. \A i \in 1 .. (Len(q) + 1) : i \in 1 .. Len(q) \/ i = Len(q) + 1
    BY <2>1
  <2>. QED
    BY <2>1, <2>2, <2>3 DEF Distinct
<1>. QED
  BY <1>1, <1>2

-----------------------------------------------------------------------------
(* How a step changes what the threads have left to do.  Either it gives no   *)
(* thread a write, an acknowledgement or a completion it did not have         *)
(* (Steady), or it hands one idle thread a new list of them (Launches).       *)

Quiet(s) == \A i \in DOMAIN s :
    s[i].op \notin Writes \cup {"MessageDelivered", "Completion"}

Steady ==
    \A t \in Threads :
        \/ todo'[t] = todo[t]
        \/ todo[t] # <<>> /\ todo'[t] = Tail(todo[t])
        \/ Quiet(todo'[t])

\* A list that writes message m, if any, and completes c, if any.
LaunchList(s, m, c) ==
    /\ \A i \in DOMAIN s : s[i].op \in Writes => s[i].msg = m
    /\ \A i \in DOMAIN s : s[i].op \notin Answers
    /\ \A i, j \in DOMAIN s : s[i].op = FirstWrite /\ s[j].op \in Writes => i <= j
    /\ \A i \in DOMAIN s : s[i].op = "MessageDelivered" =>
        s[i].msg = m /\ \E j \in DOMAIN s : j < i /\ s[j].op = "enter"
    /\ \A i \in DOMAIN s : s[i].op = "Completion" => s[i].msg = c
    /\ \A i, j \in DOMAIN s : s[i].op = "Completion" /\ s[j].op = "Completion" => i = j

Launches(t, m, c) ==
    /\ todo[t] = <<>>
    /\ LaunchList(todo'[t], m, c)
    /\ \A u \in Threads \ {t} : todo'[u] = todo[u]

\* In a Steady step a write, an acknowledgement or a completion is an old one,
\* in the same place or one place further up.
LEMMA SteadyShift ==
    ASSUME TypeOK, TypeOK', Steady, NEW t \in Threads
    PROVE  \E k \in {0, 1} : \A i \in DOMAIN todo'[t] :
             todo'[t][i].op \in Writes \cup {"MessageDelivered", "Completion"} =>
                 i + k \in DOMAIN todo[t] /\ todo'[t][i] = todo[t][i + k]
<1>0. todo[t] \in Seq(Step) /\ todo'[t] \in Seq(Step)
  BY DEF TypeOK
<1>1. CASE todo'[t] = todo[t]
  <2>1. \A i \in DOMAIN todo'[t] : i + 0 \in DOMAIN todo[t] /\ todo'[t][i] = todo[t][i + 0]
    BY <1>0, <1>1
  <2>. QED
    BY <2>1
<1>2. CASE todo[t] # <<>> /\ todo'[t] = Tail(todo[t])
  <2>1. \A i \in DOMAIN todo'[t] : i + 1 \in DOMAIN todo[t] /\ todo'[t][i] = todo[t][i + 1]
    BY <1>0, <1>2
  <2>. QED
    BY <2>1
<1>3. CASE Quiet(todo'[t])
  BY <1>3 DEF Quiet
<1>. QED
  BY <1>1, <1>2, <1>3 DEF Steady

\* A Steady step keeps what is known of the writes, when no message moves
\* back and none that is being written moves into the queue.
LEMMA SteadyWrites ==
    ASSUME TypeOK, TypeOK', Steady, WritesFresh, WritesOrdered, OneMessage,
           unsent' \subseteq unsent, Elements(queue)' \subseteq Elements(queue) \cup unsent
    PROVE  /\ WritesOrdered'
           /\ UNCHANGED <<prompt, submitted>> => WritesFresh'
<1>1. \A t \in Threads : \E k \in {0, 1} : \A i \in DOMAIN todo'[t] :
          todo'[t][i].op \in Writes =>
              i + k \in DOMAIN todo[t] /\ todo'[t][i] = todo[t][i + k]
  BY SteadyShift
<1>2. FirstWrite \in Writes /\ UNCHANGED <<FirstWrite, Msgs>>
  BY DEF FirstWrite, Writes
<1>3. WritesOrdered'
  <2>. SUFFICES ASSUME NEW t \in Threads, NEW u \in Threads,
                       NEW i \in DOMAIN todo'[t], NEW j \in DOMAIN todo'[u],
                       todo'[t][i].op = FirstWrite, todo'[u][j].op \in Writes,
                       todo'[t][i].msg = todo'[u][j].msg, todo'[t][i].msg \in Msgs
                PROVE  t = u /\ i <= j
    BY <1>2 DEF WritesOrdered
  <2>1. PICK k \in {0, 1} : \A x \in DOMAIN todo'[t] :
          todo'[t][x].op \in Writes =>
              x + k \in DOMAIN todo[t] /\ todo'[t][x] = todo[t][x + k]
    BY <1>1
  <2>2. PICK l \in {0, 1} : \A x \in DOMAIN todo'[u] :
          (todo'[u][x].op \in Writes =>
              x + l \in DOMAIN todo[u] /\ todo'[u][x] = todo[u][x + l])
    BY <1>1
  <2>3. i + k \in DOMAIN todo[t] /\ todo'[t][i] = todo[t][i + k]
    BY <1>2, <2>1
  <2>4. j + l \in DOMAIN todo[u] /\ todo'[u][j] = todo[u][j + l]
    BY <2>2
  <2>5. t = u /\ i + k <= j + l
    BY <2>3, <2>4 DEF WritesOrdered
  <2>6. j + k \in DOMAIN todo[t] /\ todo'[t][j] = todo[t][j + k]
    BY <2>1, <2>5
  <2>7. t = u /\ i + k <= j + k
    BY <2>3, <2>6, <2>5 DEF WritesOrdered
  <2>8. i \in Nat /\ j \in Nat
    BY DEF TypeOK
  <2>. QED
    BY <2>7, <2>8
<1>4. ASSUME UNCHANGED <<prompt, submitted>> PROVE WritesFresh'
  BY <1>1, <1>2, <1>4 DEF WritesFresh
<1>. QED
  BY <1>3, <1>4

\* A Steady step keeps one message per thread that writes.
LEMMA SteadyOne ==
    ASSUME TypeOK, TypeOK', Steady, OneMessage
    PROVE  OneMessage'
<1>. SUFFICES ASSUME NEW t \in Threads
              PROVE  \A i, j \in DOMAIN todo'[t] :
                 (todo'[t][i].op \in Writes /\ todo'[t][j].op \in Writes \cup Answers)
                 => todo'[t][j].msg = todo'[t][i].msg
  BY DEF OneMessage
<1>0. todo[t] \in Seq(Step) /\ todo'[t] \in Seq(Step)
  BY DEF TypeOK
<1>1. CASE todo'[t] = todo[t]
  BY <1>1 DEF OneMessage
<1>2. CASE todo[t] # <<>> /\ todo'[t] = Tail(todo[t])
  <2>1. \A i \in DOMAIN todo'[t] : i + 1 \in DOMAIN todo[t] /\ todo'[t][i] = todo[t][i + 1]
    BY <1>0, <1>2
  <2>. QED
    BY <2>1 DEF OneMessage
<1>3. CASE Quiet(todo'[t])
  BY <1>3 DEF Quiet
<1>. QED
  BY <1>1, <1>2, <1>3 DEF Steady

\* A Steady step keeps the acknowledgements in order, when an Enter that is
\* done submits its message.
LEMMA SteadyAcks ==
    ASSUME TypeOK, TypeOK', Steady, AcksOrdered, submitted \subseteq submitted',
           \A t \in Threads :
               (/\ todo[t] # <<>> /\ todo'[t] = Tail(todo[t])
                /\ todo[t][1].op = "enter" /\ ~Quiet(todo'[t]))
               => {todo[t][1].msg} \cap Msgs \subseteq submitted'
    PROVE  AcksOrdered'
<1>. SUFFICES ASSUME NEW t \in Threads, NEW i \in DOMAIN todo'[t],
                     todo'[t][i].op = "MessageDelivered", todo'[t][i].msg \in Msgs,
                     todo'[t][i].msg \notin submitted'
              PROVE  \E j \in DOMAIN todo'[t] :
                        /\ j < i
                        /\ todo'[t][j].op = "enter"
                        /\ todo'[t][j].msg = todo'[t][i].msg
  BY DEF AcksOrdered
<1>0. todo[t] \in Seq(Step) /\ todo'[t] \in Seq(Step)
  BY DEF TypeOK
<1>1. CASE todo'[t] = todo[t]
  BY <1>1 DEF AcksOrdered
<1>2. CASE todo[t] # <<>> /\ todo'[t] = Tail(todo[t])
  <2>1. /\ \A x \in DOMAIN todo'[t] :
             x + 1 \in DOMAIN todo[t] /\ todo'[t][x] = todo[t][x + 1]
        /\ \A y \in DOMAIN todo[t] : y = 1 \/ y - 1 \in DOMAIN todo'[t]
        /\ \A y \in DOMAIN todo[t] : y \in Nat
        /\ i \in Nat
    BY <1>0, <1>2
  <2>2. PICK y \in DOMAIN todo[t] : /\ y < i + 1
                                    /\ todo[t][y].op = "enter"
                                    /\ todo[t][y].msg = todo'[t][i].msg
    BY <2>1 DEF AcksOrdered
  <2>3. y # 1
    BY <1>2, <2>2 DEF Quiet
  <2>4. y - 1 \in DOMAIN todo'[t] /\ y - 1 < i /\ (y - 1) + 1 = y
    BY <2>1, <2>2, <2>3
  <2>5. todo'[t][y - 1] = todo[t][y]
    BY <2>1, <2>4
  <2>. QED
    BY <2>2, <2>4, <2>5
<1>3. CASE Quiet(todo'[t])
  BY <1>3 DEF Quiet
<1>. QED
  BY <1>1, <1>2, <1>3 DEF Steady

\* A Steady step keeps what is known of the completions, when no message moves
\* back, none becomes pending and none is reported complete.
LEMMA SteadyCompletions ==
    ASSUME TypeOK, TypeOK', Steady, CompletionsFresh, CompletionsUnique,
           Waiting' \subseteq Waiting
    PROVE  /\ CompletionsUnique'
           /\ (/\ pending' \in {pending, None} 
               /\ \A m \in Msgs : Reported(m, {"Completion"})' => Reported(m, {"Completion"}))
              => CompletionsFresh'
<1>1. \A t \in Threads : \E k \in {0, 1} : \A i \in DOMAIN todo'[t] :
          todo'[t][i].op = "Completion" =>
              i + k \in DOMAIN todo[t] /\ todo'[t][i] = todo[t][i + k]
  BY SteadyShift
<1>3. CompletionsUnique'
  <2>. SUFFICES ASSUME NEW t \in Threads, NEW u \in Threads,
                       NEW i \in DOMAIN todo'[t], NEW j \in DOMAIN todo'[u],
                       todo'[t][i].op = "Completion", todo'[u][j].op = "Completion",
                       todo'[t][i].msg = todo'[u][j].msg, todo'[t][i].msg \in Msgs
                PROVE  t = u /\ i = j
    BY DEF CompletionsUnique
  <2>1. PICK k \in {0, 1} : \A x \in DOMAIN todo'[t] :
          todo'[t][x].op = "Completion" =>
              x + k \in DOMAIN todo[t] /\ todo'[t][x] = todo[t][x + k]
    BY <1>1
  <2>2. PICK l \in {0, 1} : \A x \in DOMAIN todo'[u] :
          (todo'[u][x].op = "Completion" =>
              x + l \in DOMAIN todo[u] /\ todo'[u][x] = todo[u][x + l])
    BY <1>1
  <2>3. i + k \in DOMAIN todo[t] /\ todo'[t][i] = todo[t][i + k]
    BY <2>1
  <2>4. j + l \in DOMAIN todo[u] /\ todo'[u][j] = todo[u][j + l]
    BY <2>2
  <2>5. t = u
    BY <2>3, <2>4 DEF CompletionsUnique
  <2>6. j + k \in DOMAIN todo[t] /\ todo'[t][j] = todo[t][j + k]
    BY <2>1, <2>5
  <2>7. i + k = j + k
    BY <2>3, <2>6, <2>5 DEF CompletionsUnique
  <2>8. i \in Nat /\ j \in Nat
    BY DEF TypeOK
  <2>. QED
    BY <2>5, <2>7, <2>8
<1>4. ASSUME pending' \in {pending, None},
             \A m \in Msgs : Reported(m, {"Completion"})' => Reported(m, {"Completion"})
      PROVE  CompletionsFresh'
  BY <1>1, <1>4, ConstantsAssumption DEF CompletionsFresh
<1>. QED
  BY <1>3, <1>4

\* Handing a thread the writes of a message that was waiting keeps what is
\* known of the writes and of the acknowledgements.
LEMMA LaunchWrites ==
    ASSUME TypeOK, WritesFresh, WritesOrdered, OneMessage, AcksOrdered,
           NEW t \in Threads, NEW m, NEW c, Launches(t, m, c),
           UNCHANGED <<prompt, submitted>>,
           unsent' \subseteq unsent, Elements(queue)' \subseteq Elements(queue),
           m \in Msgs => m \in Waiting \ (Waiting' \cup prompt \cup submitted)
    PROVE  WritesFresh' /\ WritesOrdered' /\ OneMessage' /\ AcksOrdered'
<1>. DEFINE s == todo'[t]
<1>1. FirstWrite \in Writes /\ UNCHANGED <<FirstWrite, Msgs>>
  BY DEF FirstWrite, Writes
<1>2. /\ \A i \in DOMAIN s : s[i].op \in Writes => s[i].msg = m
      /\ \A i \in DOMAIN s : s[i].op \notin Answers
      /\ \A i, j \in DOMAIN s : s[i].op = FirstWrite /\ s[j].op \in Writes => i <= j
      /\ \A i \in DOMAIN s : s[i].op = "MessageDelivered" =>
           s[i].msg = m /\ \E j \in DOMAIN s : j < i /\ s[j].op = "enter"
      /\ \A u \in Threads : u # t => todo'[u] = todo[u]
  BY DEF Launches, LaunchList
<1>. HIDE DEF s
<1>3. WritesFresh'
  <2>. SUFFICES ASSUME NEW u \in Threads, NEW i \in DOMAIN todo'[u],
                       todo'[u][i].op \in Writes, todo'[u][i].msg \in Msgs
                PROVE  /\ todo'[u][i].msg \notin Waiting'
                       /\ todo'[u][i].op = FirstWrite
                            => todo'[u][i].msg \notin (prompt \cup submitted)'
    BY <1>1 DEF WritesFresh, Waiting
  <2>1. CASE u = t
    BY <1>2, <2>1 DEF s
  <2>2. CASE u # t
    BY <1>2, <2>2 DEF WritesFresh, Waiting
  <2>. QED
    BY <2>1, <2>2
<1>4. WritesOrdered'
  <2>. SUFFICES ASSUME NEW x \in Threads, NEW y \in Threads,
                       NEW i \in DOMAIN todo'[x], NEW j \in DOMAIN todo'[y],
                       todo'[x][i].op = FirstWrite, todo'[y][j].op \in Writes,
                       todo'[x][i].msg = todo'[y][j].msg, todo'[x][i].msg \in Msgs
                PROVE  x = y /\ i <= j
    BY <1>1 DEF WritesOrdered
  <2>1. CASE x = t /\ y = t
    BY <1>2, <2>1 DEF s
  <2>2. CASE x = t /\ y # t
    BY <1>1, <1>2, <2>2 DEF s, WritesFresh, Waiting
  <2>3. CASE x # t /\ y = t
    BY <1>1, <1>2, <2>3 DEF s, WritesFresh, Waiting
  <2>4. CASE x # t /\ y # t
    BY <1>2, <2>4 DEF WritesOrdered
  <2>. QED
    BY <2>1, <2>2, <2>3, <2>4
<1>5. OneMessage'
  <2>. SUFFICES ASSUME NEW u \in Threads, NEW i \in DOMAIN todo'[u], NEW j \in DOMAIN todo'[u],
                       todo'[u][i].op \in Writes, todo'[u][j].op \in Writes \cup Answers
                PROVE  todo'[u][j].msg = todo'[u][i].msg
    BY DEF OneMessage
  <2>1. CASE u = t
    BY <1>2, <2>1 DEF s
  <2>2. CASE u # t
    BY <1>2, <2>2 DEF OneMessage
  <2>. QED
    BY <2>1, <2>2
<1>6. AcksOrdered'
  <2>. SUFFICES ASSUME NEW u \in Threads, NEW i \in DOMAIN todo'[u],
                       todo'[u][i].op = "MessageDelivered", todo'[u][i].msg \in Msgs
                PROVE  \/ todo'[u][i].msg \in submitted'
                       \/ \E j \in DOMAIN todo'[u] :
                            /\ j < i
                            /\ todo'[u][j].op = "enter"
                            /\ todo'[u][j].msg = todo'[u][i].msg
    BY DEF AcksOrdered
  <2>1. CASE u = t
    <3>1. PICK j \in DOMAIN s : j < i /\ s[j].op = "enter"
      BY <1>2, <2>1 DEF s
    <3>2. s[j].msg = s[i].msg
      BY <1>2, <2>1, <3>1 DEF s, Writes
    <3>. QED
      BY <2>1, <3>1, <3>2 DEF s
  <2>2. CASE u # t
    BY <1>2, <2>2 DEF AcksOrdered
  <2>. QED
    BY <2>1, <2>2
<1>. QED
  BY <1>3, <1>4, <1>5, <1>6

\* Handing a thread the completion of the pending message keeps what is known
\* of the completions, when that message is no longer pending.
LEMMA LaunchCompletions ==
    ASSUME TypeOK, CompletionsFresh, CompletionsUnique, PendingFresh,
           NEW t \in Threads, NEW m, NEW c, Launches(t, m, c),
           UNCHANGED sent, Waiting' \subseteq Waiting,
           c \in {pending, None}, c \in Msgs => pending' # pending,
           pending' \in Waiting \cup {pending, None}
    PROVE  CompletionsFresh' /\ CompletionsUnique'
<1>. DEFINE s == todo'[t]
<1>1. /\ \A i \in DOMAIN s : s[i].op = "Completion" => s[i].msg = c
      /\ \A i, j \in DOMAIN s : s[i].op = "Completion" /\ s[j].op = "Completion" => i = j
      /\ \A u \in Threads : u # t => todo'[u] = todo[u]
  BY DEF Launches, LaunchList
<1>. HIDE DEF s
<1>2. \A x : Reported(x, {"Completion"})' <=> Reported(x, {"Completion"})
  BY DEF Reported
<1>3. CompletionsFresh'
  <2>. SUFFICES ASSUME NEW u \in Threads, NEW i \in DOMAIN todo'[u],
                       todo'[u][i].op = "Completion", todo'[u][i].msg \in Msgs
                PROVE  /\ todo'[u][i].msg \notin Waiting'
                       /\ todo'[u][i].msg # pending'
                       /\ ~Reported(todo'[u][i].msg, {"Completion"})
    BY <1>2 DEF CompletionsFresh
  <2>1. CASE u = t
    BY <1>1, <2>1, ConstantsAssumption DEF s, PendingFresh
  <2>2. CASE u # t
    BY <1>1, <2>2, ConstantsAssumption DEF CompletionsFresh
  <2>. QED
    BY <2>1, <2>2
<1>4. CompletionsUnique'
  <2>. SUFFICES ASSUME NEW x \in Threads, NEW y \in Threads,
                       NEW i \in DOMAIN todo'[x], NEW j \in DOMAIN todo'[y],
                       todo'[x][i].op = "Completion", todo'[y][j].op = "Completion",
                       todo'[x][i].msg = todo'[y][j].msg, todo'[x][i].msg \in Msgs
                PROVE  x = y /\ i = j
    BY DEF CompletionsUnique
  <2>1. CASE x = t /\ y = t
    BY <1>1, <2>1 DEF s
  <2>2. CASE x = t /\ y # t
    BY <1>1, <2>2, ConstantsAssumption DEF s, CompletionsFresh
  <2>3. CASE x # t /\ y = t
    BY <1>1, <2>3, ConstantsAssumption DEF s, CompletionsFresh
  <2>4. CASE x # t /\ y # t
    BY <1>1, <2>4 DEF CompletionsUnique
  <2>. QED
    BY <2>1, <2>2, <2>3, <2>4
<1>. QED
  BY <1>3, <1>4

-----------------------------------------------------------------------------
(* The lists of steps the actions build. *)

\* Where the steps of a concatenation come from.
LEMMA ConcatAt ==
    ASSUME NEW s1 \in Seq(Step), NEW s2 \in Seq(Step)
    PROVE  /\ s1 \o s2 \in Seq(Step)
           /\ \A i \in DOMAIN s1 : i \in DOMAIN (s1 \o s2) /\ (s1 \o s2)[i] = s1[i]
           /\ \A i \in DOMAIN s2 : /\ Len(s1) + i \in DOMAIN (s1 \o s2)
                                   /\ (s1 \o s2)[Len(s1) + i] = s2[i]
           /\ \A i \in DOMAIN (s1 \o s2) :
                \/ i \in DOMAIN s1 /\ (s1 \o s2)[i] = s1[i]
                \/ /\ i - Len(s1) \in DOMAIN s2
                   /\ (s1 \o s2)[i] = s2[i - Len(s1)]
                   /\ i \notin DOMAIN s1
           /\ \A i \in DOMAIN s1 : i \in 1 .. Len(s1)
           /\ Len(s1) \in Nat
OBVIOUS

\* Steps after the writes that write nothing: at most the acknowledgement.
LEMMA LaunchThen ==
    ASSUME NEW s1 \in Seq(Step), NEW s2 \in Seq(Step), NEW m, NEW c,
           LaunchList(s1, m, c), \E e \in DOMAIN s1 : s1[e].op = "enter",
           \A i \in DOMAIN s2 : s2[i].op \notin Writes \cup Answers \cup {"Completion"},
           \A i \in DOMAIN s2 : s2[i].op = "MessageDelivered" => s2[i].msg = m
    PROVE  LaunchList(s1 \o s2, m, c)
<1>. DEFINE s == s1 \o s2
<1>0. FirstWrite \in Writes
  BY DEF FirstWrite, Writes
<1>1. \A i \in DOMAIN s :
        \/ i \in DOMAIN s1 /\ s[i] = s1[i]
        \/ /\ i - Len(s1) \in DOMAIN s2
           /\ s[i] = s2[i - Len(s1)]
           /\ \A j \in DOMAIN s1 : j < i
  BY ConcatAt
<1>2. \A i \in DOMAIN s1 : i \in DOMAIN s /\ s[i] = s1[i]
  BY ConcatAt
<1>. HIDE DEF s
<1>3. \A i \in DOMAIN s : s[i].op \in Writes \cup Answers \cup {"Completion"}
        => i \in DOMAIN s1 /\ s[i] = s1[i]
  BY <1>1
<1>4. ASSUME NEW i \in DOMAIN s, s[i].op = "MessageDelivered"
      PROVE  s[i].msg = m /\ \E j \in DOMAIN s : j < i /\ s[j].op = "enter"
  <2>1. CASE i \in DOMAIN s1 /\ s[i] = s1[i]
    BY <1>2, <1>4, <2>1 DEF LaunchList
  <2>2. CASE i - Len(s1) \in DOMAIN s2 /\ s[i] = s2[i - Len(s1)] /\ \A j \in DOMAIN s1 : j < i
    BY <1>2, <1>4, <2>2
  <2>. QED
    BY <1>1, <2>1, <2>2
<1>5. \A i \in DOMAIN s : s[i].op \in Writes => s[i].msg = m
  BY <1>3 DEF LaunchList
<1>6. \A i \in DOMAIN s : s[i].op \notin Answers
  BY <1>3 DEF LaunchList
<1>7. \A i, j \in DOMAIN s : s[i].op = FirstWrite /\ s[j].op \in Writes => i <= j
  BY <1>0, <1>3 DEF LaunchList
<1>8. \A i \in DOMAIN s : s[i].op = "Completion" => s[i].msg = c
  BY <1>3 DEF LaunchList
<1>9. \A i, j \in DOMAIN s : s[i].op = "Completion" /\ s[j].op = "Completion" => i = j
  BY <1>3 DEF LaunchList
<1>10. LaunchList(s, m, c)
  BY <1>4, <1>5, <1>6, <1>7, <1>8, <1>9 DEF LaunchList
<1>. QED
  BY <1>10 DEF s

\* The end of a turn before the writes: at most the completion.
LEMMA LaunchAfter ==
    ASSUME NEW s1 \in Seq(Step), NEW s2 \in Seq(Step), NEW m, NEW c,
           \A i \in DOMAIN s1 : s1[i].op \in {"StateChanged", "Completion"},
           LaunchList(s1, m, c),
           LaunchList(s2, m, c), \A i \in DOMAIN s2 : s2[i].op # "Completion"
    PROVE  LaunchList(s1 \o s2, m, c)
<1>. DEFINE s == s1 \o s2
            n == Len(s1)
<1>0. FirstWrite \in Writes
  BY DEF FirstWrite, Writes
<1>1. \A i \in DOMAIN s :
        \/ i \in DOMAIN s1 /\ s[i] = s1[i]
        \/ i - n \in DOMAIN s2 /\ s[i] = s2[i - n]
  BY ConcatAt
<1>2. \A i \in DOMAIN s2 : n + i \in DOMAIN s /\ s[n + i] = s2[i]
  BY ConcatAt
<1>3. n \in Nat /\ (\A i \in DOMAIN s : i \in Nat) /\ (\A i \in DOMAIN s2 : i \in Nat)
  BY ConcatAt
<1>. HIDE DEF s, n
<1>4. \A i \in DOMAIN s : s[i].op \in Writes \cup Answers \cup {"MessageDelivered"}
        => i - n \in DOMAIN s2 /\ s[i] = s2[i - n]
  BY <1>1 DEF Writes, Answers
<1>5. \A i \in DOMAIN s : s[i].op = "Completion" => i \in DOMAIN s1 /\ s[i] = s1[i]
  BY <1>1
<1>6. ASSUME NEW i \in DOMAIN s, s[i].op = "MessageDelivered"
      PROVE  s[i].msg = m /\ \E j \in DOMAIN s : j < i /\ s[j].op = "enter"
  <2>1. i - n \in DOMAIN s2 /\ s[i] = s2[i - n]
    BY <1>4, <1>6
  <2>2. PICK j \in DOMAIN s2 : j < i - n /\ s2[j].op = "enter"
    BY <1>6, <2>1 DEF LaunchList
  <2>3. n + j \in DOMAIN s /\ n + j < i /\ s[n + j].op = "enter"
    BY <1>2, <1>3, <2>2
  <2>. QED
    BY <1>6, <2>1, <2>3 DEF LaunchList
<1>7. \A i \in DOMAIN s : s[i].op \in Writes => s[i].msg = m
  BY <1>4 DEF LaunchList
<1>8. \A i \in DOMAIN s : s[i].op \notin Answers
  BY <1>4 DEF LaunchList
<1>9. ASSUME NEW i \in DOMAIN s, NEW j \in DOMAIN s, s[i].op = FirstWrite, s[j].op \in Writes
      PROVE  i <= j
  <2>1. i - n <= j - n
    BY <1>0, <1>4, <1>9 DEF LaunchList
  <2>. QED
    BY <1>3, <2>1
<1>10. \A i \in DOMAIN s : s[i].op = "Completion" => s[i].msg = c
  BY <1>5 DEF LaunchList
<1>11. \A i, j \in DOMAIN s : s[i].op = "Completion" /\ s[j].op = "Completion" => i = j
  BY <1>5 DEF LaunchList
<1>12. LaunchList(s, m, c)
  BY <1>6, <1>7, <1>8, <1>9, <1>10, <1>11 DEF LaunchList
<1>. QED
  BY <1>12 DEF s

\* pty_write_paced: one or two writes, the last of them Enter.
LEMMA PtyList ==
    ASSUME NEW m \in Msgs \cup {Followup}, NEW c
    PROVE  /\ LaunchList(PtyWritePaced(m), m, c)
           /\ \E e \in DOMAIN PtyWritePaced(m) :
                PtyWritePaced(m)[e].op = "enter" /\ PtyWritePaced(m)[e].msg = m
           /\ \A i \in DOMAIN PtyWritePaced(m) : PtyWritePaced(m)[i].op \in Writes
<1>. DEFINE paste == Do("paste", m)
            enter == Do("enter", m)
<1>0. paste.op = "paste" /\ enter.op = "enter" /\ paste.msg = m /\ enter.msg = m
  BY DEF Do
<1>1. PtyWritePaced(m) = IF AgentType = "Generic" THEN <<enter>> ELSE <<paste, enter>>
  BY DEF PtyWritePaced
<1>. HIDE DEF paste, enter
<1>2. CASE AgentType = "Generic"
  BY <1>0, <1>1, <1>2 DEF LaunchList, Writes, Answers, FirstWrite
<1>3. CASE AgentType # "Generic"
  BY <1>0, <1>1, <1>3 DEF LaunchList, Writes, Answers, FirstWrite
<1>. QED
  BY <1>2, <1>3

\* One step and two steps, as lists.
LEMMA TupleAt ==
    ASSUME NEW a \in Step, NEW b \in Step
    PROVE  /\ <<a>> \in Seq(Step) /\ <<a, b>> \in Seq(Step) /\ <<>> \in Seq(Step)
           /\ DOMAIN <<a>> = {1} /\ <<a>>[1] = a
           /\ DOMAIN <<a, b>> = {1, 2} /\ <<a, b>>[1] = a /\ <<a, b>>[2] = b
           /\ DOMAIN (<<>>) = {}
OBVIOUS

\* SendMessage in Idle: the writes, the lock again, the acknowledgement.
LEMMA SendList ==
    ASSUME NEW m \in Msgs
    PROVE  LET s == PtyWritePaced(m) \o <<Do("work", m)>>
                    \o (IF m \in Tracked THEN <<Must("MessageDelivered", m)>> ELSE <<>>)
                    \o <<Changed("Working", TRUE)>>
           IN  /\ LaunchList(s, m, None)
               /\ \E i \in DOMAIN s : s[i].op \in Writes /\ s[i].msg = m
<1>. DEFINE w == <<Do("work", m)>>
            a == IF m \in Tracked THEN <<Must("MessageDelivered", m)>> ELSE <<>>
            c == <<Changed("Working", TRUE)>>
            p == PtyWritePaced(m)
<1>1. /\ p \in Seq(Step)
      /\ LaunchList(p, m, None)
      /\ \E e \in DOMAIN p : p[e].op = "enter" /\ p[e].msg = m
  BY PtyWriteType, PtyList
<1>2. w \in Seq(Step) /\ \A i \in DOMAIN w : w[i].op = "work"
  <2>1. Do("work", m) \in Step /\ Do("work", m).op = "work"
    BY DoType DEF Do
  <2>. QED
    BY <2>1, TupleAt
<1>3. /\ a \in Seq(Step)
      /\ \A i \in DOMAIN a : a[i].op = "MessageDelivered" /\ a[i].msg = m
  <2>1. /\ Must("MessageDelivered", m) \in Step
        /\ Must("MessageDelivered", m).op = "MessageDelivered"
        /\ Must("MessageDelivered", m).msg = m
    BY MustType DEF Must, Events
  <2>. QED
    BY <2>1, TupleAt
<1>4. c \in Seq(Step) /\ \A i \in DOMAIN c : c[i].op = "StateChanged"
  <2>. DEFINE x == Changed("Working", TRUE)
  <2>1. x \in Step /\ x.op = "StateChanged"
    BY ChangedType DEF Changed, States
  <2>2. c = <<x>>
    OBVIOUS
  <2>. HIDE DEF x, c
  <2>. QED
    BY <2>1, <2>2, TupleAt
<1>. HIDE DEF w, a, c, p
<1>5. /\ p \o w \in Seq(Step)
      /\ LaunchList(p \o w, m, None)
      /\ \E e \in DOMAIN (p \o w) : (p \o w)[e].op = "enter" /\ (p \o w)[e].msg = m
  <2>1. LaunchList(p \o w, m, None)
    BY <1>1, <1>2, LaunchThen DEF Writes, Answers
  <2>. QED
    BY <1>1, <1>2, <2>1, ConcatAt
<1>6. /\ p \o w \o a \in Seq(Step)
      /\ LaunchList(p \o w \o a, m, None)
      /\ \E e \in DOMAIN (p \o w \o a) : (p \o w \o a)[e].op = "enter" /\ (p \o w \o a)[e].msg = m
  <2>1. LaunchList(p \o w \o a, m, None)
    BY <1>3, <1>5, LaunchThen DEF Writes, Answers
  <2>. QED
    BY <1>3, <1>5, <2>1, ConcatAt
<1>7. /\ LaunchList(p \o w \o a \o c, m, None)
      /\ \E e \in DOMAIN (p \o w \o a \o c) :
           (p \o w \o a \o c)[e].op = "enter" /\ (p \o w \o a \o c)[e].msg = m
  <2>1. LaunchList(p \o w \o a \o c, m, None)
    BY <1>4, <1>6, LaunchThen DEF Writes, Answers
  <2>. QED
    BY <1>4, <1>6, <2>1, ConcatAt
<1>. QED
  BY <1>7 DEF p, w, a, c, Writes

\* The events at the end of a turn: at most the completion of id.
LEMMA TurnEndList ==
    ASSUME NEW id \in Msgs \cup {None}, NEW m
    PROVE  /\ TurnEndEvents(id) \in Seq(Step)
           /\ LaunchList(TurnEndEvents(id), m, id)
           /\ \A i \in DOMAIN TurnEndEvents(id) :
                TurnEndEvents(id)[i].op \in {"StateChanged", "Completion"}
<1>. DEFINE c == <<Changed("Idle", TRUE)>>
            e == IF engaged THEN <<Must("Completion", id)>> ELSE <<>>
            s == TurnEndEvents(id)
<1>1. c \in Seq(Step) /\ \A i \in DOMAIN c : c[i].op = "StateChanged"
  <2>. DEFINE x == Changed("Idle", TRUE)
  <2>1. x \in Step /\ x.op = "StateChanged"
    BY ChangedType DEF Changed, States
  <2>2. c = <<x>>
    OBVIOUS
  <2>. HIDE DEF x, c
  <2>. QED
    BY <2>1, <2>2, TupleAt
<1>2. /\ e \in Seq(Step)
      /\ \A i \in DOMAIN e : e[i].op = "Completion" /\ e[i].msg = id /\ i = 1
  <2>1. /\ Must("Completion", id) \in Step
        /\ Must("Completion", id).op = "Completion"
        /\ Must("Completion", id).msg = id
    BY MustType DEF Must, Events
  <2>. QED
    BY <2>1, TupleAt
<1>3. s = c \o e
  BY DEF TurnEndEvents
<1>. HIDE DEF c, e, s
<1>4. /\ \A i \in DOMAIN s : s[i].op \in {"StateChanged", "Completion"}
      /\ \A i \in DOMAIN s : s[i].op = "Completion" => s[i].msg = id /\ i = Len(c) + 1
  BY <1>1, <1>2, <1>3, ConcatAt
<1>5. LaunchList(s, m, id)
  BY <1>4 DEF LaunchList, Writes, Answers, FirstWrite
<1>. QED
  BY <1>4, <1>5, TurnEndType DEF s

\* The turn ends and the next message is written.
LEMMA NextList ==
    ASSUME NEW id \in Msgs \cup {None}, NEW m \in Msgs
    PROVE  LET s == TurnEndEvents(id) \o PtyWritePaced(m) \o <<Changed("Working", FALSE)>>
           IN  /\ LaunchList(s, m, id)
               /\ \E i \in DOMAIN s : s[i].op \in Writes /\ s[i].msg = m
<1>. DEFINE e == TurnEndEvents(id)
            p == PtyWritePaced(m)
            c == <<Changed("Working", FALSE)>>
<1>1. e \in Seq(Step) /\ LaunchList(e, m, id)
      /\ \A i \in DOMAIN e : e[i].op \in {"StateChanged", "Completion"}
  BY TurnEndList
<1>2. /\ p \in Seq(Step)
      /\ LaunchList(p, m, id)
      /\ \E x \in DOMAIN p : p[x].op = "enter" /\ p[x].msg = m
      /\ \A i \in DOMAIN p : p[i].op # "Completion"
  BY PtyWriteType, PtyList DEF Writes
<1>3. c \in Seq(Step) /\ \A i \in DOMAIN c : c[i].op = "StateChanged"
  <2>. DEFINE x == Changed("Working", FALSE)
  <2>1. x \in Step /\ x.op = "StateChanged"
    BY ChangedType DEF Changed, States
  <2>2. c = <<x>>
    OBVIOUS
  <2>. HIDE DEF x, c
  <2>. QED
    BY <2>1, <2>2, TupleAt
<1>. HIDE DEF e, p, c
<1>4. /\ e \o p \in Seq(Step)
      /\ LaunchList(e \o p, m, id)
      /\ \E x \in DOMAIN (e \o p) : (e \o p)[x].op = "enter" /\ (e \o p)[x].msg = m
  <2>1. LaunchList(e \o p, m, id)
    BY <1>1, <1>2, LaunchAfter
  <2>2. PICK x \in DOMAIN p : p[x].op = "enter" /\ p[x].msg = m
    BY <1>2
  <2>3. /\ e \o p \in Seq(Step)
        /\ Len(e) + x \in DOMAIN (e \o p)
        /\ (e \o p)[Len(e) + x] = p[x]
    BY <1>1, <1>2, ConcatAt
  <2>. QED
    BY <2>1, <2>2, <2>3
<1>5. /\ LaunchList(e \o p \o c, m, id)
      /\ \E x \in DOMAIN (e \o p \o c) :
           (e \o p \o c)[x].op = "enter" /\ (e \o p \o c)[x].msg = m
  <2>1. LaunchList(e \o p \o c, m, id)
    BY <1>3, <1>4, LaunchThen DEF Writes, Answers
  <2>. QED
    BY <1>3, <1>4, <2>1, ConcatAt
<1>. QED
  BY <1>5 DEF e, p, c, Writes

\* The follow-up message is written, then a warning is sent.
LEMMA FollowupList ==
    LaunchList(PtyWritePaced(Followup) \o <<Do("Warning", None)>>, Followup, None)
<1>. DEFINE p == PtyWritePaced(Followup)
            w == <<Do("Warning", None)>>
<1>1. /\ p \in Seq(Step)
      /\ LaunchList(p, Followup, None)
      /\ \E e \in DOMAIN p : p[e].op = "enter"
  BY PtyWriteType, PtyList
<1>2. w \in Seq(Step) /\ \A i \in DOMAIN w : w[i].op = "Warning"
  <2>1. Do("Warning", None) \in Step /\ Do("Warning", None).op = "Warning"
    BY DoType DEF Do, Events
  <2>. QED
    BY <2>1, TupleAt
<1>. HIDE DEF w, p
<1>3. LaunchList(p \o w, Followup, None)
  BY <1>1, <1>2, LaunchThen DEF Writes, Answers
<1>. QED
  BY <1>3 DEF p, w

\* One or two events that are neither acknowledgements nor completions.
LEMMA QuietTuple ==
    ASSUME NEW a \in Step, NEW b \in Step,
           a.op \notin Writes \cup {"MessageDelivered", "Completion"},
           b.op \notin Writes \cup {"MessageDelivered", "Completion"}
    PROVE  Quiet(<<a>>) /\ Quiet(<<a, b>>) /\ Quiet(<<>>)
BY TupleAt DEF Quiet

\* drain_queue_errors: every message of the queue is answered, nothing else.
LEMMA DrainList ==
    ASSUME NEW q \in Seq(Msgs), NEW must \in BOOLEAN, NEW s \in Seq(Step), Quiet(s)
    PROVE  /\ Quiet(s \o DrainQueueErrors(q, must))
           /\ \A m \in Elements(q) : \E i \in DOMAIN (s \o DrainQueueErrors(q, must)) :
                /\ (s \o DrainQueueErrors(q, must))[i].op = "Error"
                /\ (s \o DrainQueueErrors(q, must))[i].msg = m
<1>. DEFINE d == DrainQueueErrors(q, must)
<1>1. /\ d \in Seq(Step)
      /\ DOMAIN d = DOMAIN q
      /\ \A i \in DOMAIN q : d[i].op = "Error" /\ d[i].msg = q[i]
  BY DrainType DEF DrainQueueErrors
<1>. HIDE DEF d
<1>2. Quiet(s \o d)
  BY <1>1, ConcatAt DEF Quiet, Writes
<1>3. ASSUME NEW m \in Elements(q)
      PROVE  \E i \in DOMAIN (s \o d) : (s \o d)[i].op = "Error" /\ (s \o d)[i].msg = m
  <2>1. PICK i \in DOMAIN q : q[i] = m
    BY DEF Elements
  <2>2. Len(s) + i \in DOMAIN (s \o d) /\ (s \o d)[Len(s) + i] = d[i]
    BY <1>1, ConcatAt
  <2>. QED
    BY <1>1, <2>1, <2>2
<1>. QED
  BY <1>2, <1>3 DEF d

\* After a failed write: an Error for the message, nothing written.
LEMMA FailureList ==
    ASSUME NEW t \in Threads, NEW m \in Msgs \cup {None, Followup}
    PROVE  /\ Quiet(AfterWriteFailure(t, m))
           /\ \E i \in DOMAIN AfterWriteFailure(t, m) :
                /\ AfterWriteFailure(t, m)[i].op = "Error"
                /\ AfterWriteFailure(t, m)[i].msg = m
<1>. DEFINE df == Must("DeliveryFailed", m)
            me == Must("Error", m)
            de == Do("Error", m)
            ch == Changed("Working", FALSE)
<1>1. /\ df \in Step /\ me \in Step /\ de \in Step /\ ch \in Step
      /\ df.op = "DeliveryFailed" /\ me.op = "Error" /\ de.op = "Error"
      /\ ch.op = "StateChanged" /\ me.msg = m /\ de.msg = m
  BY MustType, DoType, ChangedType DEF Must, Do, Changed, Events, States
<1>2. AfterWriteFailure(t, m) \in {(IF m \in Tracked THEN <<df>> ELSE <<>>) \o <<me>>,
                                   <<de, ch>>, <<de>>}
  BY DEF AfterWriteFailure
<1>. HIDE DEF df, me, de, ch
<1>3. CASE AfterWriteFailure(t, m) = (IF m \in Tracked THEN <<df>> ELSE <<>>) \o <<me>>
  <2>. DEFINE a == IF m \in Tracked THEN <<df>> ELSE <<>>
  <2>1. /\ a \in Seq(Step) /\ <<me>> \in Seq(Step)
        /\ \A i \in DOMAIN a : a[i].op = "DeliveryFailed"
        /\ DOMAIN <<me>> = {1} /\ <<me>>[1] = me
    BY <1>1, TupleAt
  <2>. HIDE DEF a
  <2>2. Quiet(a \o <<me>>)
    BY <1>1, <2>1, ConcatAt DEF Quiet, Writes
  <2>3. Len(a) + 1 \in DOMAIN (a \o <<me>>) /\ (a \o <<me>>)[Len(a) + 1] = me
    BY <2>1, ConcatAt
  <2>. QED
    BY <1>1, <1>3, <2>2, <2>3 DEF a
<1>4. CASE AfterWriteFailure(t, m) = <<de, ch>> \/ AfterWriteFailure(t, m) = <<de>>
  BY <1>1, <1>4, TupleAt DEF Quiet, Writes
<1>. QED
  BY <1>2, <1>3, <1>4

-----------------------------------------------------------------------------
(* Every step keeps the invariant. *)

MessageInv == WriteInv /\ AckInv /\ AllKept /\ CompletionInv

USE DEF IInv

\* A message that was kept still is, when thread t alone changes its list.
LEMMA KeptStays ==
    ASSUME NEW m, Kept(m), NEW t \in Threads,
           \A u \in Threads : u # t => todo'[u] = todo[u],
           m \in Elements(queue) => Kept(m)',
           \A i \in DOMAIN todo[t] :
               (todo[t][i].op \in Writes \cup Answers /\ todo[t][i].msg = m) => Kept(m)',
           prompt \cup submitted \subseteq (prompt \cup submitted)',
           sent \subseteq sent'
    PROVE  Kept(m)'
<1>1. CASE Carried(m)
  <2>1. PICK u \in Threads : \E i \in DOMAIN todo[u] :
          todo[u][i].op \in Writes \cup Answers /\ todo[u][i].msg = m
    BY <1>1 DEF Carried
  <2>2. CASE u = t
    BY <2>1, <2>2
  <2>3. CASE u # t
    BY <2>1, <2>3 DEF Kept, Carried
  <2>. QED
    BY <2>2, <2>3
<1>2. CASE Reported(m, Answers)
  BY <1>2 DEF Kept, Reported
<1>3. CASE m \in prompt \cup submitted
  BY <1>3 DEF Kept
<1>. QED
  BY <1>1, <1>2, <1>3 DEF Kept

\* The steps that write nothing and report nothing: what is left to show is
\* where the messages are.
LEMMA SteadyFrame ==
    ASSUME IInv, IInv', MessageInv, Steady,
           UNCHANGED <<prompt, submitted, sent>>,
           unsent' \subseteq unsent,
           Elements(queue)' \subseteq Waiting \ unsent', Distinct(queue)',
           pending' \in {pending, None},
           \A t \in Threads :
               todo[t] # <<>> /\ todo'[t] = Tail(todo[t]) /\ ~Quiet(todo'[t])
               => todo[t][1].op # "enter",
           connected' => connected /\ \A m \in Msgs \ unsent' : Kept(m)'
    PROVE  MessageInv'
<1>. USE DEF MessageInv
<1>1. Waiting \subseteq Msgs /\ Waiting' \subseteq Waiting /\ None \notin Waiting
  BY QueueWithin, ConstantsAssumption DEF Waiting, TypeOK
<1>2. PlacesDisjoint'
  BY DEF WriteInv, PlacesDisjoint, Waiting
<1>3. WritesFresh' /\ WritesOrdered' /\ OneMessage'
  BY SteadyWrites, SteadyOne DEF WriteInv, Waiting
<1>4. AcksOrdered'
  BY SteadyAcks DEF AckInv
<1>5. AckMeansSubmitted'
  BY DEF AckInv, AckMeansSubmitted, Reported
<1>6. \A m \in Msgs : Reported(m, {"Completion"})' <=> Reported(m, {"Completion"})
  BY DEF Reported
<1>7. CompletionsUnique' /\ CompletionsFresh'
  BY <1>1, <1>6, SteadyCompletions DEF CompletionInv
<1>8. PendingFresh'
  BY <1>1, <1>6, ConstantsAssumption DEF CompletionInv, PendingFresh
<1>9. AllKept'
  BY DEF AllKept
<1>. QED
  BY <1>2, <1>3, <1>4, <1>5, <1>7, <1>8, <1>9 DEF WriteInv, AckInv, CompletionInv

\* The same for a step of an idle thread that leaves the messages where they
\* are, or drains the queue into Errors.
LEMMA QuietStep ==
    ASSUME IInv, IInv', MessageInv, NEW t \in Threads, NEW s,
           todo[t] = <<>>, Then(t, s), Quiet(s), connected' => connected,
           UNCHANGED ledger, pending' \in {pending, None},
           \/ UNCHANGED queue
           \/ /\ queue' = <<>>
              /\ \A m \in Elements(queue) : \E i \in DOMAIN s :
                    s[i].op = "Error" /\ s[i].msg = m
    PROVE  MessageInv'
<1>1. todo'[t] = s /\ \A u \in Threads : u # t => todo'[u] = todo[u]
  BY DEF Then, TypeOK
<1>2. Steady
  BY <1>1 DEF Steady
<1>3. Elements(queue)' \subseteq Waiting \ unsent' /\ Distinct(queue)'
  <2>1. CASE UNCHANGED queue
    BY <2>1 DEF MessageInv, WriteInv, PlacesDisjoint, Waiting, ledger
  <2>2. CASE queue' = <<>>
    BY <2>2 DEF Elements, Distinct
  <2>. QED
    BY <2>1, <2>2
<1>4. \A u \in Threads :
        todo[u] # <<>> /\ todo'[u] = Tail(todo[u]) => todo[u][1].op # "enter"
  <2>. SUFFICES ASSUME NEW u \in Threads, todo[u] # <<>>, todo'[u] = Tail(todo[u])
                PROVE  FALSE
    OBVIOUS
  <2>1. todo'[u] = todo[u] /\ todo[u] \in Seq(Step)
    BY <1>1 DEF TypeOK
  <2>. QED
    BY <2>1, TailDiffers
<1>5. ASSUME NEW m \in Msgs \ unsent, Kept(m) PROVE Kept(m)'
  <2>1. m \in Elements(queue) => Kept(m)'
    BY <1>1 DEF Kept, Carried, Answers
  <2>2. DOMAIN todo[t] = {}
    OBVIOUS
  <2>. QED
    BY <1>1, <1>5, <2>1, <2>2, KeptStays DEF ledger
<1>6. connected' => connected /\ \A m \in Msgs \ unsent' : Kept(m)'
  BY <1>5 DEF MessageInv, AllKept, ledger
<1>. QED
  BY <1>2, <1>3, <1>4, <1>6, SteadyFrame DEF ledger

\* The steps that change neither a list nor where a message is.
LEMMA IdleStep ==
    ASSUME IInv, IInv', MessageInv, UNCHANGED <<todo, ledger, queue, pending>>,
           connected' => connected
    PROVE  MessageInv'
<1>1. Steady
  BY DEF Steady
<1>2. Elements(queue)' \subseteq Waiting \ unsent' /\ Distinct(queue)'
  BY DEF MessageInv, WriteInv, PlacesDisjoint, Waiting, ledger
<1>3. \A u \in Threads :
        todo[u] # <<>> /\ todo'[u] = Tail(todo[u]) => todo[u][1].op # "enter"
  <2>. SUFFICES ASSUME NEW u \in Threads, todo[u] # <<>>, todo[u] = Tail(todo[u])
                PROVE  FALSE
    OBVIOUS
  <2>1. todo[u] \in Seq(Step)
    BY DEF TypeOK
  <2>. QED
    BY <2>1, TailDiffers
<1>4. connected' => connected /\ \A m \in Msgs \ unsent' : Kept(m)'
  BY DEF MessageInv, AllKept, ledger, Kept, Carried, Reported
<1>. QED
  BY <1>1, <1>2, <1>3, <1>4, SteadyFrame DEF ledger

\* A step that hands thread t the write of a waiting message, or none.
LEMMA LaunchFrame ==
    ASSUME IInv, IInv', MessageInv, NEW t \in Threads, NEW m, NEW c, Launches(t, m, c),
           UNCHANGED <<prompt, submitted, sent, connected>>,
           unsent' \subseteq unsent,
           Elements(queue)' \subseteq Elements(queue), Distinct(queue)',
           Waiting \ Waiting' \subseteq {m},
           m \in Msgs => /\ m \in Waiting \ Waiting'
                         /\ \E i \in DOMAIN todo'[t] :
                              todo'[t][i].op \in Writes /\ todo'[t][i].msg = m,
           c \in {pending, None}, c \in Msgs => pending' # pending,
           pending' \in (Waiting \ Waiting') \cup {pending, None}
    PROVE  MessageInv'
<1>. USE DEF MessageInv
<1>1. Waiting \subseteq Msgs /\ Waiting' \subseteq Waiting /\ None \notin Waiting
  BY QueueWithin, ConstantsAssumption DEF Waiting, TypeOK
<1>2. PlacesDisjoint'
  BY DEF WriteInv, PlacesDisjoint, Waiting
<1>3. m \in Msgs => m \in Waiting \ (Waiting' \cup prompt \cup submitted)
  BY DEF WriteInv, PlacesDisjoint, Waiting
<1>4. WritesFresh' /\ WritesOrdered' /\ OneMessage' /\ AcksOrdered'
  BY <1>3, LaunchWrites DEF WriteInv, AckInv
<1>5. AckMeansSubmitted'
  BY DEF AckInv, AckMeansSubmitted, Reported
<1>6. CompletionsFresh' /\ CompletionsUnique'
  BY <1>1, LaunchCompletions DEF CompletionInv
<1>7. PendingFresh'
  <2>1. \A x \in Msgs : Reported(x, {"Completion"})' <=> Reported(x, {"Completion"})
    BY DEF Reported
  <2>. QED
    BY <1>1, <2>1, ConstantsAssumption DEF CompletionInv, PendingFresh
<1>8. AllKept'
  <2>. SUFFICES ASSUME connected, NEW x \in Msgs \ unsent' PROVE Kept(x)'
    BY DEF AllKept
  <2>1. CASE x = m
    BY <2>1 DEF Kept, Carried
  <2>2. CASE x # m
    <3>1. Kept(x) /\ (x \in Elements(queue) => x \in Elements(queue)')
      BY <2>2 DEF AllKept, Waiting, WriteInv, PlacesDisjoint
    <3>2. todo[t] = <<>> /\ \A u \in Threads : u # t => todo'[u] = todo[u]
      BY DEF Launches
    <3>3. DOMAIN todo[t] = {}
      BY <3>2
    <3>4. x \in Elements(queue) => Kept(x)'
      BY <3>1 DEF Kept
    <3>. QED
      BY <3>1, <3>2, <3>3, <3>4, KeptStays
  <2>. QED
    BY <2>1, <2>2
<1>. QED
  BY <1>2, <1>4, <1>5, <1>6, <1>7, <1>8 DEF WriteInv, AckInv, CompletionInv

\* The initial state: every message is with the daemon.
LEMMA InitMessageInv == Init => MessageInv
<1>. SUFFICES ASSUME Init PROVE MessageInv
  OBVIOUS
<1>1. /\ queue = <<>> /\ unsent = Msgs /\ prompt = {} /\ submitted = {} /\ sent = {}
      /\ pending = None /\ Elements(queue) = {}
      /\ \A t \in Threads : todo[t] = <<>> /\ DOMAIN todo[t] = {}
  BY DEF Init, Elements
<1>2. WriteInv
  BY <1>1 DEF WriteInv, PlacesDisjoint, Distinct, WritesFresh, WritesOrdered, OneMessage
<1>3. AckInv
  BY <1>1 DEF AckInv, AcksOrdered, AckMeansSubmitted, Reported
<1>4. AllKept
  BY <1>1 DEF AllKept
<1>5. CompletionInv
  BY <1>1, ConstantsAssumption
     DEF CompletionInv, CompletionsFresh, CompletionsUnique, PendingFresh, Waiting, Reported
<1>. QED
  BY <1>2, <1>3, <1>4, <1>5 DEF MessageInv

\* The reader's screen changes that do not end a turn, and its end.
LEMMA ReaderScreenMessages ==
    ASSUME IInv, IInv', MessageInv, NEW v \in Verdicts,
           \/ ReaderContextApproaching(v)
           \/ ReaderNoTransition(v)
           \/ ReaderTransition(v)
           \/ ReaderContextExhausted(v)
           \/ ReaderEof
    PROVE  MessageInv'
<1>0. "reader" \in Threads
  BY DEF Threads
<1>1. CASE ReaderContextApproaching(v)
  <2>. DEFINE a == Do("ContextApproaching", None)
  <2>1. a \in Step /\ a.op = "ContextApproaching"
    BY DoType DEF Do, Events
  <2>. HIDE DEF a
  <2>2. Quiet(<<a>>)
    BY <2>1, QuietTuple DEF Writes
  <2>3. /\ todo["reader"] = <<>> /\ Then("reader", <<a>>)
        /\ UNCHANGED <<queue, pending, connected, ledger>>
    BY <1>1 DEF ReaderContextApproaching, Observe, AtTop, world, a
  <2>. QED
    BY <1>0, <2>2, <2>3, QuietStep
<1>2. CASE ReaderNoTransition(v)
  BY <1>2, IdleStep DEF ReaderNoTransition, world
<1>3. CASE ReaderTransition(v)
  <2>1. PICK new \in {"Idle", "Working"} : Then("reader", <<Changed(new, TRUE)>>)
    BY <1>3 DEF ReaderTransition
  <2>. DEFINE a == Changed(new, TRUE)
  <2>2. a \in Step /\ a.op = "StateChanged"
    BY ChangedType DEF Changed, States
  <2>3. /\ todo["reader"] = <<>> /\ Then("reader", <<a>>)
        /\ pending' = None
        /\ UNCHANGED <<queue, connected, ledger>>
    BY <1>3, <2>1 DEF ReaderTransition, Observe, AtTop, world
  <2>. HIDE DEF a
  <2>4. Quiet(<<a>>)
    BY <2>2, QuietTuple DEF Writes
  <2>. QED
    BY <1>0, <2>3, <2>4, QuietStep
<1>4. CASE ReaderContextExhausted(v)
  <2>. DEFINE a == Changed("ContextExhausted", TRUE)
              b == Must("ContextExhausted", None)
              s == <<a, b>> \o DrainQueueErrors(queue, TRUE)
  <2>1. a \in Step /\ a.op = "StateChanged" /\ b \in Step /\ b.op = "ContextExhausted"
    BY ChangedType, MustType DEF Changed, Must, States, Events
  <2>2. /\ todo["reader"] = <<>> /\ Then("reader", s)
        /\ pending' = None /\ queue' = <<>>
        /\ UNCHANGED <<connected, ledger>>
    BY <1>4 DEF ReaderContextExhausted, Observe, AtTop, world
  <2>3. s = <<a, b>> \o DrainQueueErrors(queue, TRUE)
    OBVIOUS
  <2>. HIDE DEF a, b, s
  <2>4. Quiet(<<a, b>>) /\ <<a, b>> \in Seq(Step)
    BY <2>1, QuietTuple, TupleAt DEF Writes
  <2>5. /\ Quiet(s)
        /\ \A m \in Elements(queue) : \E i \in DOMAIN s : s[i].op = "Error" /\ s[i].msg = m
    BY <2>3, <2>4, DrainList, ZenonT(60) DEF TypeOK
  <2>. QED
    BY <1>0, <2>2, <2>5, QuietStep
<1>5. CASE ReaderEof
  <2>. DEFINE a == Changed("Dead", FALSE)
              b == Do("Died", None)
              s == <<a, b>> \o DrainQueueErrors(queue, FALSE)
  <2>1. a \in Step /\ a.op = "StateChanged" /\ b \in Step /\ b.op = "Died"
    BY ChangedType, DoType DEF Changed, Do, States, Events
  <2>2. /\ todo["reader"] = <<>> /\ Then("reader", s)
        /\ queue' = <<>>
        /\ UNCHANGED <<pending, connected, ledger>>
    BY <1>5 DEF ReaderEof, AtTop
  <2>3. s = <<a, b>> \o DrainQueueErrors(queue, FALSE)
    OBVIOUS
  <2>. HIDE DEF a, b, s
  <2>4. Quiet(<<a, b>>) /\ <<a, b>> \in Seq(Step)
    BY <2>1, QuietTuple, TupleAt DEF Writes
  <2>5. /\ Quiet(s)
        /\ \A m \in Elements(queue) : \E i \in DOMAIN s : s[i].op = "Error" /\ s[i].msg = m
    BY <2>3, <2>4, DrainList, ZenonT(60) DEF TypeOK
  <2>. QED
    BY <1>0, <2>2, <2>5, QuietStep
<1>. QED
  BY <1>1, <1>2, <1>3, <1>4, <1>5

\* The end of a turn, in either thread.
LEMMA TurnEndMessages ==
    ASSUME IInv, IInv', MessageInv, NEW t \in Threads, todo[t] = <<>>, TurnEnd(t),
           UNCHANGED <<ledger, connected>>
    PROVE  MessageInv'
<1>0. /\ pending \in Msgs \cup {None} /\ None \notin Msgs /\ Followup \notin Msgs
      /\ queue \in Seq(Msgs)
      /\ \A s : Then(t, s) => todo'[t] = s /\ \A u \in Threads \ {t} : todo'[u] = todo[u]
  BY ConstantsAssumption DEF TypeOK, Then
<1>1. CASE TurnFollowup(t)
  <2>1. Launches(t, Followup, None)
    BY <1>0, <1>1, FollowupList DEF TurnFollowup, Launches
  <2>2. UNCHANGED queue /\ pending' = None
    BY <1>1 DEF TurnFollowup
  <2>3. UNCHANGED Waiting /\ Distinct(queue)'
    BY <2>2 DEF Waiting, ledger, MessageInv, WriteInv, PlacesDisjoint
  <2>. QED
    BY <1>0, <2>1, <2>2, <2>3, LaunchFrame DEF ledger
<1>2. CASE TurnEndIdle(t)
  <2>1. Launches(t, Followup, pending)
    BY <1>0, <1>2, TurnEndList DEF TurnEndIdle, Launches
  <2>2. UNCHANGED queue /\ pending' = None
    BY <1>2 DEF TurnEndIdle
  <2>3. UNCHANGED Waiting /\ Distinct(queue)'
    BY <2>2 DEF Waiting, ledger, MessageInv, WriteInv, PlacesDisjoint
  <2>. QED
    BY <1>0, <2>1, <2>2, <2>3, LaunchFrame DEF ledger
<1>3. CASE TurnEndNext(t)
  <2>. DEFINE m == Head(queue)
  <2>1. /\ queue # <<>> /\ queue' = Tail(queue) /\ m \in Msgs
        /\ pending' \in {m, None}
    BY <1>0, <1>3 DEF TurnEndNext, IdOf
  <2>. HIDE DEF m
  <2>2. /\ Launches(t, m, pending)
        /\ \E i \in DOMAIN todo'[t] : todo'[t][i].op \in Writes /\ todo'[t][i].msg = m
    <3>. DEFINE s == TurnEndEvents(pending) \o PtyWritePaced(m) \o <<Changed("Working", FALSE)>>
    <3>1. Then(t, s)
      BY <1>3 DEF TurnEndNext, m
    <3>2. LaunchList(s, m, pending) /\ \E i \in DOMAIN s : s[i].op \in Writes /\ s[i].msg = m
      BY <1>0, <2>1, NextList
    <3>. HIDE DEF s
    <3>. QED
      BY <1>0, <3>1, <3>2 DEF Launches
  <2>3. /\ Elements(queue) = {m} \cup Elements(queue)'
        /\ Distinct(queue)' /\ m \notin Elements(queue)'
    BY <1>0, <2>1, QueueElements, QueueDistinct
       DEF MessageInv, WriteInv, PlacesDisjoint, m
  <2>4. m \in Waiting /\ m \notin Waiting' /\ Waiting \ Waiting' \subseteq {m}
    BY <2>3 DEF Waiting, ledger, MessageInv, WriteInv, PlacesDisjoint
  <2>5. pending \in Msgs => pending' # pending
    BY <1>0, <2>1, <2>4 DEF MessageInv, CompletionInv, PendingFresh
  <2>. QED
    BY <1>0, <2>1, <2>2, <2>3, <2>4, <2>5, LaunchFrame DEF ledger
<1>. QED
  BY <1>1, <1>2, <1>3 DEF TurnEnd

\* The threads that end a turn, and the screen poll.
LEMMA IdleThreadsMessages ==
    ASSUME IInv, IInv', MessageInv, NEW v \in Verdicts,
           ReaderTurnEnd(v) \/ KiroIdle \/ PollIdle
    PROVE  MessageInv'
<1>1. CASE ReaderTurnEnd(v)
  BY <1>1, TurnEndMessages DEF ReaderTurnEnd, Observe, AtTop, Threads, world
<1>2. CASE KiroIdle
  BY <1>2, TurnEndMessages DEF KiroIdle, AtTop, Threads, world
<1>3. CASE PollIdle
  <2>. DEFINE a == Changed("Idle", FALSE)
  <2>1. a \in Step /\ a.op = "StateChanged"
    BY ChangedType DEF Changed, States
  <2>2. /\ todo["poll"] = <<>> /\ Then("poll", <<a>>) /\ "poll" \in Threads
        /\ UNCHANGED <<queue, pending, connected, ledger>>
    BY <1>3 DEF PollIdle, AtTop, world, Threads
  <2>. HIDE DEF a
  <2>3. Quiet(<<a>>)
    BY <2>1, QuietTuple DEF Writes
  <2>. QED
    BY <2>2, <2>3, QuietStep
<1>. QED
  BY <1>1, <1>2, <1>3

\* The main thread's startup loop, its queries and its way out.
LEMMA MainControlMessages ==
    ASSUME IInv, IInv', MessageInv,
           \/ MainDismissDialog \/ MainReady \/ MainReadyTimeout \/ MainStartupDead
           \/ MainQuery \/ MainShutdown \/ MainStopped \/ MainKill \/ MainJoin
    PROVE  MessageInv'
<1>0. "main" \in Threads
  BY DEF Threads
<1>1. CASE MainReady
  <2>. DEFINE a == Must("Ready", None)
  <2>1. a \in Step /\ a.op = "Ready"
    BY MustType DEF Must, Events
  <2>2. /\ todo["main"] = <<>> /\ Then("main", <<a>>)
        /\ UNCHANGED <<queue, pending, connected, ledger>>
    BY <1>1 DEF MainReady, AtTop, inner
  <2>. HIDE DEF a
  <2>3. Quiet(<<a>>)
    BY <2>1, QuietTuple DEF Writes
  <2>. QED
    BY <1>0, <2>2, <2>3, QuietStep
<1>2. CASE MainQuery
  <2>. DEFINE a == Must("Reply", None)
  <2>1. a \in Step /\ a.op = "Reply"
    BY MustType DEF Must, Events
  <2>2. /\ todo["main"] = <<>> /\ Then("main", <<a>>)
        /\ UNCHANGED <<queue, pending, connected, ledger>>
    BY <1>2 DEF MainQuery, Receive, AtTop, inner, world
  <2>. HIDE DEF a
  <2>3. Quiet(<<a>>)
    BY <2>1, QuietTuple DEF Writes
  <2>. QED
    BY <1>0, <2>2, <2>3, QuietStep
<1>3. CASE \/ MainDismissDialog \/ MainReadyTimeout \/ MainStartupDead \/ MainShutdown
           \/ MainStopped \/ MainKill \/ MainJoin
  BY <1>3, IdleStep
     DEF MainDismissDialog, MainReadyTimeout, MainStartupDead, MainShutdown, MainStopped,
         MainKill, MainJoin, inner, world
<1>. QED
  BY <1>1, <1>2, <1>3

\* The environment and stuttering.
LEMMA EnvironmentMessages ==
    ASSUME IInv, IInv', MessageInv, AgentExits \/ DaemonDisconnects \/ UNCHANGED vars
    PROVE  MessageInv'
BY IdleStep DEF AgentExits, DaemonDisconnects, vars, inner, world

\* SendMessage, in each of the three groups of states.
LEMMA MainSendMessages ==
    ASSUME IInv, IInv', MessageInv, NEW m \in Msgs, MainSendMessage(m)
    PROVE  MessageInv'
<1>0. /\ "main" \in Threads /\ todo["main"] = <<>> /\ DOMAIN todo["main"] = {}
      /\ m \in unsent /\ unsent' = unsent \ {m}
      /\ UNCHANGED <<connected, prompt, submitted, sent>>
      /\ queue \in Seq(Msgs) /\ None \notin Msgs /\ m \notin Elements(queue)
      /\ \A s : Then("main", s) =>
           todo'["main"] = s /\ \A u \in Threads \ {"main"} : todo'[u] = todo[u]
  BY ConstantsAssumption
     DEF MainSendMessage, Receive, AtTop, TypeOK, Then, Threads, world,
         MessageInv, WriteInv, PlacesDisjoint
<1>1. CASE SendWhenIdle(m)
  <2>1. UNCHANGED queue /\ pending' \in {m, None}
    BY <1>1 DEF SendWhenIdle, IdOf
  <2>2. /\ Launches("main", m, None)
        /\ \E i \in DOMAIN todo'["main"] :
             todo'["main"][i].op \in Writes /\ todo'["main"][i].msg = m
    <3>. DEFINE s == PtyWritePaced(m) \o <<Do("work", m)>>
                    \o (IF m \in Tracked THEN <<Must("MessageDelivered", m)>> ELSE <<>>)
                    \o <<Changed("Working", TRUE)>>
    <3>1. Then("main", s)
      BY <1>1 DEF SendWhenIdle
    <3>2. LaunchList(s, m, None) /\ \E i \in DOMAIN s : s[i].op \in Writes /\ s[i].msg = m
      BY SendList
    <3>. HIDE DEF s
    <3>. QED
      BY <1>0, <3>1, <3>2 DEF Launches
  <2>3. m \in Waiting /\ m \notin Waiting' /\ Waiting \ Waiting' \subseteq {m}
    BY <1>0, <2>1 DEF Waiting
  <2>4. Distinct(queue)'
    BY <2>1 DEF MessageInv, WriteInv, PlacesDisjoint
  <2>. QED
    BY <1>0, <2>1, <2>2, <2>3, <2>4, LaunchFrame
<1>2. CASE SendWhenWorking(m)
  <2>. DEFINE w == Must("Warning", None)
              e == Must("Error", Head(queue))
  <2>1. w \in Step /\ w.op = "Warning"
    BY MustType DEF Must, Events
  <2>2. queue # <<>> => e \in Step /\ e.op = "Error" /\ e.msg = Head(queue)
    BY <1>0, MustType DEF Must, Events
  <2>3. Len(queue) >= MaxQueueDepth => queue # <<>>
    BY <1>0, ConstantsAssumption
  <2>4. /\ UNCHANGED pending
        /\ \/ /\ queue # <<>> /\ queue' = Append(Tail(queue), m) /\ Then("main", <<e, w>>)
           \/ queue' = Append(queue, m) /\ Then("main", <<w>>)
    BY <1>2, <2>3 DEF SendWhenWorking
  <2>. HIDE DEF w, e
  <2>5. Steady
    <3>1. Quiet(<<w>>) /\ (queue # <<>> => Quiet(<<e, w>>))
      BY <2>1, <2>2, QuietTuple DEF Writes
    <3>. QED
      BY <1>0, <2>4, <3>1 DEF Steady
  <2>6. /\ m \in Elements(queue)'
        /\ Elements(queue)' \subseteq Elements(queue) \cup {m}
        /\ Distinct(queue)'
        /\ \A x \in Elements(queue) \ Elements(queue)' :
             queue # <<>> /\ x = Head(queue) /\ Then("main", <<e, w>>)
    <3>1. Distinct(queue)
      BY DEF MessageInv, WriteInv, PlacesDisjoint
    <3>2. CASE queue' = Append(queue, m)
      BY <1>0, <3>1, <3>2, QueueElements, QueueDistinct
    <3>3. CASE queue # <<>> /\ queue' = Append(Tail(queue), m) /\ Then("main", <<e, w>>)
      <4>. DEFINE q == Tail(queue)
      <4>1. /\ q \in Seq(Msgs) /\ Distinct(q) /\ Elements(queue) = {Head(queue)} \cup Elements(q)
        BY <1>0, <3>1, <3>3, QueueElements, QueueDistinct
      <4>2. queue' = Append(q, m)
        BY <3>3
      <4>. HIDE DEF q
      <4>3. m \notin Elements(q)
        BY <1>0, <4>1
      <4>4. Distinct(Append(q, m)) /\ Elements(Append(q, m)) = Elements(q) \cup {m}
        BY <4>1, <4>3, QueueElements, QueueDistinct
      <4>. QED
        BY <3>3, <4>1, <4>2, <4>4
    <3>. QED
      BY <2>4, <3>2, <3>3
  <2>7. Elements(queue)' \subseteq Waiting \ unsent'
    BY <1>0, <2>6 DEF Waiting, MessageInv, WriteInv, PlacesDisjoint
  <2>8. \A u \in Threads :
          todo[u] # <<>> /\ todo'[u] = Tail(todo[u]) => todo[u][1].op # "enter"
    <3>. SUFFICES ASSUME NEW u \in Threads, todo[u] # <<>>, todo'[u] = Tail(todo[u])
                  PROVE  FALSE
      OBVIOUS
    <3>1. todo'[u] = todo[u] /\ todo[u] \in Seq(Step)
      BY <1>0, <2>4 DEF TypeOK
    <3>. QED
      BY <3>1, TailDiffers
  <2>9. ASSUME connected, NEW x \in Msgs \ unsent' PROVE Kept(x)'
    <3>1. CASE x = m
      BY <2>6, <3>1 DEF Kept
    <3>2. CASE x # m
      <4>1. Kept(x)
        BY <1>0, <2>9, <3>2 DEF MessageInv, AllKept
      <4>2. x \in Elements(queue) => Kept(x)'
        <5>1. CASE x \in Elements(queue)'
          BY <5>1 DEF Kept
        <5>2. CASE x \in Elements(queue) \ Elements(queue)'
          <6>1. /\ queue # <<>> /\ x = Head(queue)
                /\ todo'["main"] = <<e, w>>
            BY <1>0, <2>6, <5>2
          <6>2. 1 \in DOMAIN todo'["main"] /\ todo'["main"][1] = e
            BY <2>1, <2>2, <6>1, TupleAt
          <6>. QED
            BY <1>0, <2>2, <6>1, <6>2 DEF Kept, Carried, Answers
        <5>. QED
          BY <5>1, <5>2
      <4>3. \A u \in Threads : u # "main" => todo'[u] = todo[u]
        BY <1>0, <2>4
      <4>. QED
        BY <1>0, <4>1, <4>2, <4>3, KeptStays
    <3>. QED
      BY <3>1, <3>2
  <2>. QED
    BY <1>0, <2>4, <2>5, <2>6, <2>7, <2>8, <2>9, SteadyFrame
<1>3. CASE SendRejected(m)
  <2>. DEFINE e == Must("Error", m)
  <2>1. e \in Step /\ e.op = "Error" /\ e.msg = m
    BY MustType DEF Must, Events
  <2>2. UNCHANGED <<queue, pending>> /\ Then("main", <<e>>)
    BY <1>3 DEF SendRejected
  <2>. HIDE DEF e
  <2>3. Steady
    <3>1. Quiet(<<e>>)
      BY <2>1, QuietTuple DEF Writes
    <3>. QED
      BY <1>0, <2>2, <3>1 DEF Steady
  <2>4. Elements(queue)' \subseteq Waiting \ unsent' /\ Distinct(queue)'
    BY <1>0, <2>2 DEF Waiting, MessageInv, WriteInv, PlacesDisjoint
  <2>5. \A u \in Threads :
          todo[u] # <<>> /\ todo'[u] = Tail(todo[u]) => todo[u][1].op # "enter"
    <3>. SUFFICES ASSUME NEW u \in Threads, todo[u] # <<>>, todo'[u] = Tail(todo[u])
                  PROVE  FALSE
      OBVIOUS
    <3>1. todo'[u] = todo[u] /\ todo[u] \in Seq(Step)
      BY <1>0, <2>2 DEF TypeOK
    <3>. QED
      BY <3>1, TailDiffers
  <2>6. ASSUME connected, NEW x \in Msgs \ unsent' PROVE Kept(x)'
    <3>1. CASE x = m
      <4>1. 1 \in DOMAIN todo'["main"] /\ todo'["main"][1] = e
        BY <1>0, <2>1, <2>2, TupleAt
      <4>. QED
        BY <1>0, <2>1, <3>1, <4>1 DEF Kept, Carried, Answers
    <3>2. CASE x # m
      <4>1. Kept(x)
        BY <1>0, <2>6, <3>2 DEF MessageInv, AllKept
      <4>2. x \in Elements(queue) => Kept(x)'
        BY <2>2 DEF Kept
      <4>3. \A u \in Threads : u # "main" => todo'[u] = todo[u]
        BY <1>0, <2>2
      <4>. QED
        BY <1>0, <4>1, <4>2, <4>3, KeptStays
    <3>. QED
      BY <3>1, <3>2
  <2>. QED
    BY <1>0, <2>2, <2>3, <2>4, <2>5, <2>6, SteadyFrame
<1>. QED
  BY <1>1, <1>2, <1>3 DEF MainSendMessage

\* The first of thread t's steps is done, the others move up.
LEMMA Advance ==
    ASSUME TypeOK, NEW t \in Threads, Running(t), Then(t, Rest(t))
    PROVE  /\ todo[t] # <<>> /\ todo'[t] = Tail(todo[t])
           /\ 1 \in DOMAIN todo[t] /\ Now(t) = todo[t][1] /\ Now(t) \in Step
           /\ \A i \in DOMAIN todo'[t] : i + 1 \in DOMAIN todo[t] /\ i + 1 > 1
                                         /\ todo'[t][i] = todo[t][i + 1]
           /\ \A i \in DOMAIN todo[t] : i = 1 \/ \E j \in DOMAIN todo'[t] : todo'[t][j] = todo[t][i]
           /\ \A u \in Threads : u # t => todo'[u] = todo[u]
           /\ Steady
<1>1. todo[t] \in Seq(Step) /\ todo[t] # <<>>
  BY DEF TypeOK, Running
<1>2. todo'[t] = Tail(todo[t]) /\ \A u \in Threads : u # t => todo'[u] = todo[u]
  BY DEF Then, Rest, TypeOK
<1>3. /\ 1 \in DOMAIN todo[t] /\ Now(t) = todo[t][1] /\ Now(t) \in Step
      /\ \A i \in DOMAIN todo'[t] : i + 1 \in DOMAIN todo[t] /\ i + 1 > 1
                                    /\ todo'[t][i] = todo[t][i + 1]
  BY <1>1, <1>2 DEF Now
<1>4. ASSUME NEW i \in DOMAIN todo[t], i # 1
      PROVE  \E j \in DOMAIN todo'[t] : todo'[t][j] = todo[t][i]
  <2>1. i - 1 \in DOMAIN todo'[t] /\ todo'[t][i - 1] = todo[t][i]
    BY <1>1, <1>2, <1>4
  <2>. QED
    BY <2>1
<1>5. Steady
  BY <1>1, <1>2 DEF Steady
<1>. QED
  BY <1>1, <1>2, <1>3, <1>4, <1>5

\* A message stays kept when the step that is done did not carry it, or put it
\* where it is kept.
LEMMA AdvanceKept ==
    ASSUME TypeOK, NEW t \in Threads, Running(t), Then(t, Rest(t)),
           NEW m, Kept(m), UNCHANGED queue,
           prompt \cup submitted \subseteq (prompt \cup submitted)', sent \subseteq sent',
           (Now(t).op \in Writes \cup Answers /\ Now(t).msg = m) => Kept(m)'
    PROVE  Kept(m)'
<1>1. m \in Elements(queue) => Kept(m)'
  BY DEF Kept
<1>2. ASSUME NEW i \in DOMAIN todo[t],
             todo[t][i].op \in Writes \cup Answers, todo[t][i].msg = m
      PROVE  Kept(m)'
  <2>1. CASE i = 1
    BY <1>2, <2>1, Advance
  <2>2. CASE i # 1
    <3>1. PICK j \in DOMAIN todo'[t] : todo'[t][j] = todo[t][i]
      BY <2>2, Advance
    <3>. QED
      BY <1>2, <3>1 DEF Kept, Carried
  <2>. QED
    BY <2>1, <2>2
<1>3. \A u \in Threads : u # t => todo'[u] = todo[u]
  BY Advance
<1>. QED
  BY <1>1, <1>2, <1>3, KeptStays

\* A write to the PTY succeeds.
LEMMA WriteOkMessages ==
    ASSUME IInv, IInv', MessageInv, NEW t \in Threads, WriteOk(t)
    PROVE  MessageInv'
<1>. DEFINE n == Now(t)
            new == {n.msg} \cap Msgs
<1>0. /\ Running(t) /\ Then(t, Rest(t))
      /\ n.op \in Writes
      /\ (prompt \cup submitted)' = prompt \cup submitted \cup new
      /\ submitted \subseteq submitted'
      /\ n.op = "enter" => new \subseteq submitted'
      /\ UNCHANGED <<queue, pending, connected, unsent, sent>>
  BY DEF WriteOk, Writes, inner, world
<1>1. /\ todo[t] # <<>> /\ todo'[t] = Tail(todo[t])
      /\ 1 \in DOMAIN todo[t] /\ n = todo[t][1]
      /\ \A i \in DOMAIN todo'[t] : i + 1 \in DOMAIN todo[t] /\ i + 1 > 1
                                    /\ todo'[t][i] = todo[t][i + 1]
      /\ \A u \in Threads : u # t => todo'[u] = todo[u]
      /\ Steady
  BY <1>0, Advance
<1>2. Waiting' = Waiting /\ Elements(queue)' = Elements(queue)
  BY <1>0 DEF Waiting
<1>. HIDE DEF n
<1>3. new \cap Waiting = {}
  BY <1>0, <1>1 DEF MessageInv, WriteInv, WritesFresh, Waiting
<1>4. PlacesDisjoint'
  BY <1>0, <1>2, <1>3 DEF MessageInv, WriteInv, PlacesDisjoint, Waiting
<1>5. WritesOrdered' /\ OneMessage'
  BY <1>0, <1>1, <1>2, SteadyWrites, SteadyOne DEF MessageInv, WriteInv
<1>6. WritesFresh'
  <2>. SUFFICES ASSUME NEW u \in Threads, NEW i \in DOMAIN todo'[u],
                       todo'[u][i].op \in Writes, todo'[u][i].msg \in Msgs
                PROVE  /\ todo'[u][i].msg \notin Waiting
                       /\ todo'[u][i].op = FirstWrite
                            => todo'[u][i].msg \notin prompt \cup submitted \cup new
    BY <1>0, <1>2 DEF WritesFresh, Waiting, FirstWrite
  <2>1. PICK x \in DOMAIN todo[u] : todo[u][x] = todo'[u][i] /\ (u = t => x > 1)
    BY <1>1
  <2>2. /\ todo[u][x].msg \notin Waiting
        /\ todo[u][x].op = FirstWrite => todo[u][x].msg \notin prompt \cup submitted
    BY <2>1 DEF MessageInv, WriteInv, WritesFresh, Waiting
  <2>3. ASSUME todo[u][x].op = FirstWrite, todo[u][x].msg \in new PROVE FALSE
    <3>1. u = t /\ x <= 1
      BY <1>0, <1>1, <2>1, <2>3 DEF MessageInv, WriteInv, WritesOrdered
    <3>2. x \in Nat
      BY DEF TypeOK
    <3>. QED
      BY <2>1, <3>1, <3>2
  <2>. QED
    BY <2>1, <2>2, <2>3
<1>7. AckInv'
  <2>1. \A u \in Threads :
           (/\ todo[u] # <<>> /\ todo'[u] = Tail(todo[u])
            /\ todo[u][1].op = "enter" /\ ~Quiet(todo'[u]))
           => {todo[u][1].msg} \cap Msgs \subseteq submitted'
    <3>. SUFFICES ASSUME NEW u \in Threads, todo[u] # <<>>, todo'[u] = Tail(todo[u]),
                         todo[u][1].op = "enter"
                  PROVE  {todo[u][1].msg} \cap Msgs \subseteq submitted'
      OBVIOUS
    <3>1. u = t
      BY <1>1, TailDiffers DEF TypeOK
    <3>. QED
      BY <1>0, <1>1, <3>1
  <2>2. AcksOrdered'
    BY <1>0, <1>1, <2>1, SteadyAcks DEF MessageInv, AckInv
  <2>3. AckMeansSubmitted'
    BY <1>0 DEF MessageInv, AckInv, AckMeansSubmitted, Reported
  <2>. QED
    BY <2>2, <2>3 DEF AckInv
<1>8. AllKept'
  <2>. SUFFICES ASSUME connected, NEW m \in Msgs \ unsent PROVE Kept(m)'
    BY <1>0 DEF AllKept
  <2>1. Kept(m)
    BY DEF MessageInv, AllKept
  <2>2. n.msg = m => Kept(m)'
    BY <1>0 DEF Kept
  <2>. QED
    BY <1>0, <2>1, <2>2, AdvanceKept DEF n
<1>9. CompletionInv'
  <2>1. \A m \in Msgs : Reported(m, {"Completion"})' <=> Reported(m, {"Completion"})
    BY <1>0 DEF Reported
  <2>2. CompletionsFresh' /\ CompletionsUnique'
    BY <1>0, <1>1, <1>2, <2>1, SteadyCompletions DEF MessageInv, CompletionInv
  <2>3. PendingFresh'
    BY <1>0, <1>2, <2>1 DEF MessageInv, CompletionInv, PendingFresh
  <2>. QED
    BY <2>2, <2>3 DEF CompletionInv
<1>. QED
  BY <1>4, <1>5, <1>6, <1>7, <1>8, <1>9 DEF MessageInv, WriteInv

\* A write fails, the lock is taken again, or an event cannot be sent.
LEMMA OtherOutsideMessages ==
    ASSUME IInv, IInv', MessageInv, NEW t \in Threads,
           WriteFails(t) \/ SetWorking(t) \/ SendEventFails(t)
    PROVE  MessageInv'
<1>0. /\ Running(t) /\ todo[t] \in Seq(Step) /\ todo[t] # <<>> /\ Now(t) \in Step
      /\ Now(t) = todo[t][1] /\ 1 \in DOMAIN todo[t]
      /\ UNCHANGED <<ledger, queue, pending, connected>>
      /\ \A s : Then(t, s) => todo'[t] = s /\ \A u \in Threads : u # t => todo'[u] = todo[u]
  BY DEF WriteFails, SetWorking, SendEventFails, Running, Now, TypeOK, Then, inner, world
<1>1. Elements(queue)' \subseteq Waiting \ unsent' /\ Distinct(queue)'
  BY <1>0 DEF MessageInv, WriteInv, PlacesDisjoint, Waiting, ledger
<1>2. CASE WriteFails(t)
  <2>. DEFINE f == AfterWriteFailure(t, Now(t).msg)
  <2>1. /\ Now(t).op \in Writes /\ Then(t, f)
        /\ Quiet(f)
        /\ \E i \in DOMAIN f : f[i].op = "Error" /\ f[i].msg = Now(t).msg
    BY <1>0, <1>2, FailureList DEF WriteFails, Writes, Step
  <2>. HIDE DEF f
  <2>2. Steady
    BY <1>0, <2>1 DEF Steady
  <2>3. \A u \in Threads :
          todo[u] # <<>> /\ todo'[u] = Tail(todo[u]) /\ ~Quiet(todo'[u])
          => todo[u][1].op # "enter"
    BY <1>0, <2>1, TailDiffers, ZenonT(40) DEF TypeOK
  <2>4. ASSUME connected, NEW m \in Msgs \ unsent PROVE Kept(m)'
    <3>1. Kept(m)
      BY <2>4 DEF MessageInv, AllKept
    <3>2. ASSUME NEW i \in DOMAIN todo[t],
                 todo[t][i].op \in Writes \cup Answers, todo[t][i].msg = m
          PROVE  Kept(m)'
      <4>1. m = Now(t).msg
        BY <1>0, <2>1, <3>2 DEF MessageInv, WriteInv, OneMessage
      <4>. QED
        BY <1>0, <2>1, <4>1 DEF Kept, Carried, Answers
    <3>3. m \in Elements(queue) => Kept(m)'
      BY <1>0 DEF Kept
    <3>4. \A u \in Threads : u # t => todo'[u] = todo[u]
      BY <1>0, <2>1
    <3>. QED
      BY <1>0, <3>1, <3>2, <3>3, <3>4, KeptStays DEF ledger
  <2>. QED
    BY <1>0, <1>1, <2>2, <2>3, <2>4, SteadyFrame DEF ledger
<1>3. CASE SetWorking(t)
  <2>1. Now(t).op = "work" /\ Then(t, Rest(t))
    BY <1>3 DEF SetWorking
  <2>2. /\ Steady
        /\ \A u \in Threads : u # t => todo'[u] = todo[u]
    BY <1>0, <2>1, Advance
  <2>3. \A u \in Threads :
          todo[u] # <<>> /\ todo'[u] = Tail(todo[u]) /\ ~Quiet(todo'[u])
          => todo[u][1].op # "enter"
    BY <1>0, <2>1, <2>2, TailDiffers DEF TypeOK
  <2>4. ASSUME connected, NEW m \in Msgs \ unsent PROVE Kept(m)'
    <3>1. Kept(m)
      BY <2>4 DEF MessageInv, AllKept
    <3>. QED
      BY <1>0, <2>1, <3>1, AdvanceKept DEF ledger, Writes, Answers
  <2>. QED
    BY <1>0, <1>1, <2>2, <2>3, <2>4, SteadyFrame DEF ledger
<1>4. CASE SendEventFails(t)
  <2>1. /\ ~connected /\ Now(t).op # "enter"
        /\ Then(t, <<>>) \/ Then(t, Rest(t))
    BY <1>4 DEF SendEventFails, Events
  <2>2. /\ Steady
        /\ \A u \in Threads : u # t => todo'[u] = todo[u]
    <3>1. CASE Then(t, <<>>)
      BY <1>0, <3>1 DEF Steady, Quiet
    <3>2. CASE Then(t, Rest(t))
      BY <1>0, <3>2, Advance
    <3>. QED
      BY <2>1, <3>1, <3>2
  <2>3. \A u \in Threads :
          todo[u] # <<>> /\ todo'[u] = Tail(todo[u]) /\ ~Quiet(todo'[u])
          => todo[u][1].op # "enter"
    BY <1>0, <2>1, <2>2, TailDiffers DEF TypeOK
  <2>. QED
    BY <1>0, <1>1, <2>1, <2>2, <2>3, SteadyFrame DEF ledger
<1>. QED
  BY <1>2, <1>3, <1>4

\* An event is sent.
LEMMA SendEventMessages ==
    ASSUME IInv, IInv', MessageInv, NEW t \in Threads, SendEvent(t)
    PROVE  MessageInv'
<1>. DEFINE n == Now(t)
            ev == [op |-> n.op, msg |-> n.msg]
<1>0. /\ Running(t) /\ Then(t, Rest(t))
      /\ n.op \in Events
      /\ sent \subseteq sent' /\ sent' \subseteq sent \cup {ev}
      /\ n.msg \in Msgs => ev \in sent'
      /\ UNCHANGED <<queue, pending, connected, unsent, prompt, submitted>>
  BY DEF SendEvent, inner, world
<1>1. /\ todo[t] # <<>> /\ todo'[t] = Tail(todo[t])
      /\ 1 \in DOMAIN todo[t] /\ n = todo[t][1]
      /\ \A i \in DOMAIN todo'[t] : i + 1 \in DOMAIN todo[t] /\ i + 1 > 1
                                    /\ todo'[t][i] = todo[t][i + 1]
      /\ \A u \in Threads : u # t => todo'[u] = todo[u]
      /\ Steady
  BY <1>0, Advance
<1>2. Waiting' = Waiting /\ Elements(queue)' = Elements(queue)
  BY <1>0 DEF Waiting
<1>3. \A m, op : [op |-> op, msg |-> m] \in sent' =>
        [op |-> op, msg |-> m] \in sent \/ (n.op = op /\ n.msg = m)
  BY <1>0
<1>. HIDE DEF n
<1>4. WriteInv'
  <2>1. PlacesDisjoint'
    BY <1>0, <1>2 DEF MessageInv, WriteInv, PlacesDisjoint
  <2>. QED
    BY <1>0, <1>1, <1>2, <2>1, SteadyWrites, SteadyOne DEF MessageInv, WriteInv
<1>5. AckInv'
  <2>1. AcksOrdered'
    <3>1. \A u \in Threads :
            todo[u] # <<>> /\ todo'[u] = Tail(todo[u]) => todo[u][1].op # "enter"
      <4>. SUFFICES ASSUME NEW u \in Threads, todo[u] # <<>>, todo'[u] = Tail(todo[u])
                    PROVE  todo[u][1].op # "enter"
        OBVIOUS
      <4>1. u = t
        BY <1>1, TailDiffers DEF TypeOK
      <4>. QED
        BY <1>0, <1>1, <4>1 DEF Events
    <3>. QED
      BY <1>0, <1>1, <3>1, SteadyAcks DEF MessageInv, AckInv
  <2>2. ASSUME n.op = "MessageDelivered", n.msg \in Msgs PROVE n.msg \in submitted
    <3>1. ~ \E j \in DOMAIN todo[t] : j < 1
      BY DEF TypeOK
    <3>. QED
      BY <1>1, <2>2, <3>1 DEF MessageInv, AckInv, AcksOrdered
  <2>3. AckMeansSubmitted'
    BY <1>0, <1>3, <2>2 DEF MessageInv, AckInv, AckMeansSubmitted, Reported
  <2>. QED
    BY <2>1, <2>3 DEF AckInv
<1>6. AllKept'
  <2>. SUFFICES ASSUME connected, NEW m \in Msgs \ unsent PROVE Kept(m)'
    BY <1>0 DEF AllKept
  <2>1. Kept(m)
    BY DEF MessageInv, AllKept
  <2>2. (n.op \in Writes \cup Answers /\ n.msg = m) => Kept(m)'
    BY <1>0 DEF Kept, Reported, Events, Writes
  <2>. QED
    BY <1>0, <2>1, <2>2, AdvanceKept DEF n
<1>7. CompletionInv'
  <2>1. \A m : Reported(m, {"Completion"})' =>
          Reported(m, {"Completion"}) \/ (n.op = "Completion" /\ n.msg = m)
    BY <1>3 DEF Reported
  <2>2. CompletionsUnique'
    BY <1>0, <1>1, <1>2, SteadyCompletions DEF MessageInv, CompletionInv
  <2>3. CompletionsFresh'
    <3>. SUFFICES ASSUME NEW u \in Threads, NEW i \in DOMAIN todo'[u],
                         todo'[u][i].op = "Completion", todo'[u][i].msg \in Msgs
                  PROVE  /\ todo'[u][i].msg \notin Waiting
                         /\ todo'[u][i].msg # pending
                         /\ [op |-> "Completion", msg |-> todo'[u][i].msg] \notin sent'
      BY <1>0, <1>2 DEF CompletionsFresh, Reported
    <3>1. PICK x \in DOMAIN todo[u] : todo[u][x] = todo'[u][i] /\ (u = t => x > 1)
      BY <1>1
    <3>2. /\ todo[u][x].msg \notin Waiting
          /\ todo[u][x].msg # pending
          /\ ~Reported(todo[u][x].msg, {"Completion"})
      BY <3>1 DEF MessageInv, CompletionInv, CompletionsFresh
    <3>3. ASSUME n.op = "Completion", n.msg = todo[u][x].msg PROVE FALSE
      <4>1. u = t /\ x = 1
        BY <1>1, <3>1, <3>3 DEF MessageInv, CompletionInv, CompletionsUnique
      <4>. QED
        BY <3>1, <4>1
    <3>. QED
      BY <1>3, <3>1, <3>2, <3>3 DEF Reported
  <2>4. ASSUME n.op = "Completion", n.msg \in Msgs
        PROVE  n.msg # pending /\ n.msg \notin Waiting
    BY <1>1, <2>4 DEF MessageInv, CompletionInv, CompletionsFresh
  <2>5. PendingFresh'
    BY <1>0, <1>2, <2>1, <2>4 DEF MessageInv, CompletionInv, PendingFresh
  <2>. QED
    BY <2>2, <2>3, <2>5 DEF CompletionInv
<1>. QED
  BY <1>4, <1>5, <1>6, <1>7 DEF MessageInv

\* Every step of the shim keeps the invariant.
LEMMA NextMessageInv == IInv /\ IInv' /\ MessageInv /\ [Next]_vars => MessageInv'
<1>. SUFFICES ASSUME IInv, IInv', MessageInv, [Next]_vars PROVE MessageInv'
  OBVIOUS
<1>0. "Unknown" \in Verdicts
  BY DEF Verdicts
<1>1. CASE Reader
  BY <1>0, <1>1, ReaderScreenMessages, IdleThreadsMessages DEF Reader
<1>2. CASE KiroIdle \/ PollIdle
  BY <1>0, <1>2, IdleThreadsMessages
<1>3. CASE Main
  BY <1>3, MainControlMessages, MainSendMessages DEF Main
<1>4. CASE \E t \in Threads : Outside(t)
  BY <1>4, WriteOkMessages, OtherOutsideMessages, SendEventMessages DEF Outside
<1>5. CASE AgentExits \/ DaemonDisconnects \/ UNCHANGED vars
  BY <1>5, EnvironmentMessages
<1>. QED
  BY <1>1, <1>2, <1>3, <1>4, <1>5 DEF Next

\* The types, the queue discipline and where the messages are, together.
LEMMA MessagesInvariant == Spec => [](IInv /\ MessageInv)
BY InitIInv, NextIInv, InitMessageInv, NextMessageInv, PTL DEF Spec

-----------------------------------------------------------------------------
\* No interleaving of the four threads writes a message to the agent twice,
\* whether it is injected from Idle or popped from the queue at the end of a
\* turn, and whatever fails in between.
THEOREM WrittenOnce == Spec => []NotWrittenTwice
<1>1. IInv /\ MessageInv => NotWrittenTwice
  <2>. SUFFICES ASSUME IInv, MessageInv PROVE NotWrittenTwice
    OBVIOUS
  <2>1. Elements(queue) \cap (prompt \cup submitted) = {}
    BY DEF MessageInv, WriteInv, PlacesDisjoint
  <2>2. ASSUME NEW t \in Threads, NEW i \in DOMAIN todo[t],
               todo[t][i].op = FirstWrite, todo[t][i].msg \in Msgs
        PROVE  todo[t][i].msg \notin prompt \cup submitted
    BY <2>2 DEF MessageInv, WriteInv, WritesFresh, Writes, FirstWrite
  <2>. QED
    BY <2>1, <2>2 DEF NotWrittenTwice, FirstWrite
<1>. QED
  BY <1>1, MessagesInvariant, PTL

\* MessageDelivered is sent only for a message that Enter submitted: the daemon
\* may drop the message from the inbox on it.
THEOREM AcknowledgedIsSubmitted == Spec => []AckMeansSubmitted
<1>1. MessageInv => AckMeansSubmitted
  BY DEF MessageInv, AckInv
<1>. QED
  BY <1>1, MessagesInvariant, PTL

\* While the daemon listens, no message it sent vanishes: overflow, context
\* exhaustion, the agent's death and a failed write all leave an event that
\* says so, sent or about to be.
THEOREM NothingLost == Spec => []NoSilentLoss
<1>1. IInv /\ MessageInv => NoSilentLoss
  <2>. SUFFICES ASSUME MessageInv, connected, NEW m \in Msgs \ unsent
                PROVE  \/ m \in Elements(queue)
                       \/ \E t \in Threads : InHand(t, m)
                       \/ m \in prompt \cup submitted
                       \/ Reported(m, {"Error", "DeliveryFailed"})
    BY DEF NoSilentLoss
  <2>1. Kept(m)
    BY DEF MessageInv, AllKept
  <2>. QED
    BY <2>1 DEF Kept, Carried, InHand, Answers
<1>. QED
  BY <1>1, MessagesInvariant, PTL

\* The turn of a message is reported complete at most once, whichever thread
\* sees it end.
THEOREM CompletesOnce == Spec => CompletedOnce
<1>1. IInv /\ MessageInv /\ [Next]_vars =>
        [\A t \in Threads :
            (SendEvent(t) /\ Now(t).op = "Completion" /\ Now(t).msg \in Msgs)
            => ~Reported(Now(t).msg, {"Completion"})]_vars
  <2>. SUFFICES ASSUME IInv, MessageInv, NEW t \in Threads, SendEvent(t),
                       Now(t).op = "Completion", Now(t).msg \in Msgs
                PROVE  ~Reported(Now(t).msg, {"Completion"})
    OBVIOUS
  <2>1. 1 \in DOMAIN todo[t] /\ Now(t) = todo[t][1]
    BY Advance DEF SendEvent
  <2>. QED
    BY <2>1 DEF MessageInv, CompletionInv, CompletionsFresh
<1>. QED
  BY <1>1, MessagesInvariant, PTL DEF Spec, CompletedOnce
=============================================================================
