--------------------------- MODULE DeliveryProofs ---------------------------
(***************************************************************************)
(* The delivery code implements MessageLedger, for every set of messages,  *)
(* every bound on faults, refusals, restarts and batches, every cap and    *)
(* threshold, with and without tiered inboxes: a message leaves the place  *)
(* where it is only in the ways the ledger allows, and it is lost only     *)
(* with the trouble the ledger names.                                      *)
(*                                                                         *)
(* The routing code is proved once, as a relation between the records it   *)
(* starts and ends with (Moved), and its loops by induction over their     *)
(* rounds; every handler that routes is then a use of RoutesDone.          *)
(***************************************************************************)
EXTENDS Delivery, FiniteSetTheorems, SequenceTheorems, WellFoundedInduction, TLAPS

-----------------------------------------------------------------------------
(* Loops. *)

\* Induction up to n: the library's theorem with a set in the place of a predicate.
LEMMA UpTo ==
    ASSUME NEW n \in Nat, NEW P, 0 \in P, \A i \in 1 .. n : i - 1 \in P => i \in P
    PROVE  \A i \in 0 .. n : i \in P
<1>. DEFINE T == {i \in 0 .. n : i \notin P}
            R == OpToRel(<, Nat)
<1>1. SUFFICES ASSUME T # {} PROVE FALSE
  OBVIOUS
<1>2. T \subseteq Nat
  OBVIOUS
<1>2a. IsWellFoundedOn(R, Nat)
  BY NatLessThanWellFounded
<1>. HIDE DEF R, T
<1>3. PICK t \in T : \A y \in T : ~ (<<y, t>> \in R)
  BY <1>1, <1>2, <1>2a, WFMin
<1>4. \A y \in T : ~ (y < t)
  BY <1>2, <1>3 DEF R, OpToRel
<1>5. t \in 0 .. n /\ t \notin P /\ t # 0
  BY DEF T
<1>6. t - 1 \in 0 .. n /\ t - 1 < t /\ t \in 1 .. n
  BY <1>5
<1>7. t - 1 \notin T
  BY <1>4, <1>6
<1>8. t - 1 \in P
  BY <1>6, <1>7 DEF T
<1>. QED
  BY <1>5, <1>6, <1>8

\* A loop has a run: the states after its rounds, each made of the one before it.
Runs(S, b, n, g) ==
    {run \in [0 .. n -> S] : run[0] = b /\ \A i \in 1 .. n : run[i] = g[i][run[i - 1]]}

\* Every loop has one.
LEMMA RunExists ==
    ASSUME NEW S, NEW b \in S, NEW n \in Nat, NEW g \in [1 .. n -> [S -> S]]
    PROVE  Runs(S, b, n, g) # {}
<1>. DEFINE Run(k, run) == /\ run \in [0 .. k -> S]
                           /\ run[0] = b
                           /\ \A i \in 1 .. k : run[i] = g[i][run[i - 1]]
            P == {k \in 0 .. n : \E run : Run(k, run)}
<1>1. 0 \in P
  <2>1. Run(0, [i \in 0 .. 0 |-> b])
    OBVIOUS
  <2>2. 0 \in 0 .. n
    OBVIOUS
  <2>. HIDE DEF Run
  <2>. QED
    BY <2>1, <2>2
<1>2. ASSUME NEW k \in 1 .. n, k - 1 \in P PROVE k \in P
  <2>1. PICK run : Run(k - 1, run)
    BY <1>2
  <2>2. k - 1 \in 0 .. k - 1 /\ k - 1 \in Nat /\ k \in Nat
    OBVIOUS
  <2>. DEFINE next == [i \in 0 .. k |-> IF i = k THEN g[k][run[k - 1]] ELSE run[i]]
  <2>3. g[k][run[k - 1]] \in S
    BY <2>1, <2>2
  <2>4. next \in [0 .. k -> S]
    BY <2>1, <2>3
  <2>5. next[0] = b
    BY <2>1, <2>2
  <2>6. ASSUME NEW i \in 1 .. k PROVE next[i] = g[i][next[i - 1]]
    <3>1. CASE i = k
      BY <3>1, <2>2
    <3>2. CASE i # k
      <4>1. i \in 1 .. k - 1 /\ i - 1 \in 0 .. k /\ i - 1 # k /\ i \in 0 .. k
        BY <3>2
      <4>. QED
        BY <2>1, <4>1
    <3>. QED
      BY <3>1, <3>2
  <2>7. Run(k, next)
    BY <2>4, <2>5, <2>6
  <2>8. k \in 0 .. n
    OBVIOUS
  <2>. HIDE DEF Run, next
  <2>. QED
    BY <2>7, <2>8
<1>. HIDE DEF P
<1>3. \A i \in 0 .. n : i \in P
  BY <1>1, <1>2, UpTo
<1>4. n \in P
  BY <1>3
<1>5. PICK run : Run(n, run)
  BY <1>4 DEF P
<1>. QED
  BY <1>5 DEF Runs

\* A loop whose rounds keep S stays in S.
LEMMA LoopStays ==
    ASSUME NEW n \in Nat, NEW S, NEW f, f = [i \in 0 .. n |-> f[i]],
           f[0] \in S, \A i \in 1 .. n : f[i - 1] \in S => f[i] \in S
    PROVE  f \in [0 .. n -> S]
<1>. DEFINE P == {i \in 0 .. n : f[i] \in S}
<1>1. 0 \in P
  OBVIOUS
<1>2. ASSUME NEW i \in 1 .. n, i - 1 \in P PROVE i \in P
  <2>1. i \in 0 .. n /\ f[i - 1] \in S
    BY <1>2
  <2>. QED
    BY <2>1
<1>. HIDE DEF P
<1>3. \A i \in 0 .. n : i \in P
  BY <1>1, <1>2, UpTo
<1>. QED
  BY <1>3 DEF P

KeepRun(run, q, S) ==
    /\ run[0] = <<>>
    /\ \A i \in 1 .. Len(q) : run[i] = IF i \in S THEN run[i - 1] ELSE Append(run[i - 1], q[i])

\* The run of the loop that leaves out the positions S of a queue.
LEMMA WithoutRun ==
    ASSUME NEW F, NEW q \in Seq(F), NEW S
    PROVE  \E run \in [0 .. Len(q) -> Seq(F)] :
             KeepRun(run, q, S) /\ Without(q, S) = run[Len(q)]
<1>. DEFINE n == Len(q)
            T == Seq(F)
            b == <<>>
            Step(s, i) == IF i \in S THEN s ELSE Append(s, q[i])
            f == CHOOSE f : f = [i \in 0 .. n |-> IF i = 0 THEN b ELSE Step(f[i - 1], i)]
            g == [i \in 1 .. n |-> [s \in T |-> Step(s, i)]]
<1>1. Without(q, S) = f[n]
  BY DEF Without, Rounds
<1>2. n \in Nat /\ b \in T
  OBVIOUS
<1>3. ASSUME NEW i \in 1 .. n, NEW s \in T PROVE Step(s, i) \in T
  OBVIOUS
<1>4. SUFFICES /\ f \in [0 .. n -> T]
               /\ f[0] = b
               /\ \A i \in 1 .. n : f[i] = Step(f[i - 1], i)
  BY <1>1 DEF KeepRun
<1>. HIDE DEF n, T, b, Step
<1>5. g \in [1 .. n -> [T -> T]]
  BY <1>3
<1>6. \A i \in 1 .. n, s \in T : g[i][s] = Step(s, i)
  OBVIOUS
<1>. HIDE DEF g
<1>7. PICK run \in [0 .. n -> T] : run[0] = b /\ \A i \in 1 .. n : run[i] = g[i][run[i - 1]]
  <2>1. Runs(T, b, n, g) # {}
    BY <1>2, <1>5, RunExists
  <2>. QED
    BY <2>1 DEF Runs
<1>8. \A i \in 0 .. n : run[i] = IF i = 0 THEN b ELSE Step(run[i - 1], i)
  <2>1. \A i \in 1 .. n : i - 1 \in 0 .. n
    BY <1>2
  <2>2. \A i \in 1 .. n : run[i] = Step(run[i - 1], i)
    BY <1>6, <1>7, <2>1
  <2>3. \A i \in 0 .. n : i = 0 \/ i \in 1 .. n
    BY <1>2
  <2>. QED
    BY <1>7, <2>2, <2>3
<1>9. run = [i \in 0 .. n |-> IF i = 0 THEN b ELSE Step(run[i - 1], i)]
  BY <1>7, <1>8
<1>10. f = [i \in 0 .. n |-> IF i = 0 THEN b ELSE Step(f[i - 1], i)]
  BY <1>9
<1>. HIDE DEF f
<1>11. f = [i \in 0 .. n |-> f[i]] /\ f[0] = b /\ \A i \in 1 .. n : f[i] = Step(f[i - 1], i)
  <2>1. 0 \in 0 .. n /\ \A i \in 1 .. n : i \in 0 .. n /\ i # 0
    BY <1>2
  <2>2. \A i \in 0 .. n : f[i] = IF i = 0 THEN b ELSE Step(f[i - 1], i)
    BY <1>10
  <2>3. f = [i \in 0 .. n |-> f[i]]
    BY <1>10
  <2>. QED
    BY <2>1, <2>2, <2>3
<1>12. f[0] \in T /\ \A i \in 1 .. n : f[i - 1] \in T => f[i] \in T
  BY <1>2, <1>3, <1>11
<1>13. f \in [0 .. n -> T]
  BY <1>2, <1>11, <1>12, LoopStays
<1>. QED
  BY <1>11, <1>13

-----------------------------------------------------------------------------
(* Types. *)

Records == [handle : Handles, inflight : Frame \cup {NoFrame}, pending : Seq(Frame),
            failed : Seq(Failures), acks : SUBSET Acks, box : [Msgs -> Boxes],
            wire : Seq(Frame \cup {NoFrame}), fate : [Msgs -> Fates], ok : BOOLEAN]

\* The frames the daemon makes.
LEMMA FrameTypes ==
    /\ \A m \in Msgs : Live(m) \in Frame /\ Filed(m) \in Frame
    /\ batches \in 0 .. MaxBatches => \A S \in SUBSET Msgs : Batch(S) \in Frame
    /\ NoFrame \notin Frame
    /\ \A f \in Frame : f.id \in FrameIds /\ f.body \subseteq Msgs
<1>1. ASSUME NEW m \in Msgs PROVE Live(m) \in Frame /\ Filed(m) \in Frame
  BY DEF Live, Filed, Frame, FrameIds
<1>2. ASSUME batches \in 0 .. MaxBatches, NEW S \in SUBSET Msgs PROVE Batch(S) \in Frame
  BY <1>2 DEF Batch, Frame, FrameIds
<1>3. NoFrame \notin Frame
  BY DEF NoFrame, Frame, FrameIds
<1>4. \A f \in Frame : f.id \in FrameIds /\ f.body \subseteq Msgs
  BY DEF Frame
<1>. QED
  BY <1>1, <1>2, <1>3, <1>4

\* A record of the state that routing changes stays one when a frame is sent.
LEMMA SendCommandType ==
    ASSUME NEW r \in Records, NEW f \in Frame
    PROVE  SendCommand(r, f) \in Records
<1>. DEFINE w == IF shim = "gone" THEN r.wire ELSE Append(r.wire, f)
<1>1. w \in Seq(Frame \cup {NoFrame})
  BY DEF Records
<1>2. SendCommand(r, f) = [r EXCEPT !.inflight = f, !.wire = w, !.ok = (shim # "gone")]
  BY DEF SendCommand, Records
<1>. HIDE DEF w
<1>. QED
  BY <1>1, <1>2 DEF Records

\* Likewise when the answer to the frame is awaited.
LEMMA SendLiveType ==
    ASSUME NEW r \in Records, NEW f \in Frame, NEW files \in SUBSET Msgs
    PROVE  SendLive(r, f, files) \in Records
<1>1. SendCommand(r, f) \in Records
  BY SendCommandType
<1>2. f.id \in FrameIds
  BY DEF Frame
<1>3. [id |-> f.id, files |-> files] \in Acks
  BY <1>2 DEF Acks
<1>. QED
  BY <1>1, <1>3 DEF SendLive, Records

\* Likewise when messages are given up on.
LEMMA ClosedType ==
    ASSUME NEW r \in Records, NEW S, NEW why \in Fates
    PROVE  Closed(r, S, why) \in Records
BY DEF Closed, Records

\* Likewise when messages fall back to the inbox.
LEMMA InboxFallbackType ==
    ASSUME NEW r \in Records, NEW S, NEW io \in BOOLEAN
    PROVE  InboxFallback(r, S, io) \in Records
BY DEF InboxFallback, Records, Boxes

\* What is left of a queue is a queue of the same kind.
LEMMA WithoutType ==
    ASSUME NEW F, NEW q \in Seq(F), NEW S
    PROVE  Without(q, S) \in Seq(F)
<1>1. PICK run \in [0 .. Len(q) -> Seq(F)] : Without(q, S) = run[Len(q)]
  BY WithoutRun
<1>2. Len(q) \in 0 .. Len(q)
  BY LenProperties
<1>. QED
  BY <1>1, <1>2

\* A record stays one when a frame is queued.
LEMMA QueueCappedType ==
    ASSUME NEW r \in Records, NEW f \in Frame
    PROVE  QueueCapped(r, f) \in Records
<1>. DEFINE old == {i \in DOMAIN r.pending : KeyOf(f) # None /\ KeyOf(r.pending[i]) = KeyOf(f)}
            s == [r EXCEPT !.pending = Append(Without(@, old), f)]
            S == (UNION {r.pending[i].body : i \in old}) \ f.body
<1>1. r.pending \in Seq(Frame)
  BY DEF Records
<1>2. Append(Without(r.pending, old), f) \in Seq(Frame)
  BY <1>1, WithoutType
<1>3. s \in Records
  BY <1>2 DEF Records
<1>4. [r EXCEPT !.pending = Append(@, f)] \in Records
  <2>. DEFINE p == Append(r.pending, f)
  <2>1. p \in Seq(Frame)
    BY <1>1
  <2>2. [r EXCEPT !.pending = Append(@, f)] = [r EXCEPT !.pending = p]
    BY DEF Records
  <2>. HIDE DEF p
  <2>. QED
    BY <2>1, <2>2 DEF Records
<1>5. "superseded" \in Fates
  BY DEF Fates
<1>. HIDE DEF s, S
<1>6. Closed(s, S, "superseded") \in Records
  BY <1>3, <1>5, ClosedType
<1>7. QueueCapped(r, f) \in {Closed(s, S, "superseded"), [r EXCEPT !.pending = Append(@, f)]}
  BY DEF QueueCapped, s, S
<1>. QED
  BY <1>4, <1>6, <1>7

\* Likewise when a frame is routed, whichever way it takes.
LEMMA RouteType ==
    ASSUME NEW r \in Records, NEW f \in Frame, NEW io \in BOOLEAN
    PROVE  Route(r, f, io) \in Records
<1>. DEFINE s == SendLive(r, f, {})
<1>1. Closed(r, f.body, "logged") \in Records
  BY ClosedType DEF Fates
<1>2. s \in Records
  BY SendLiveType
<1>. HIDE DEF s
<1>3. InboxFallback(s, f.body, io) \in Records /\ InboxFallback(r, f.body, io) \in Records
  BY <1>2, InboxFallbackType
<1>4. QueueCapped(r, f) \in Records
  BY QueueCappedType
<1>. QED
  BY <1>1, <1>2, <1>3, <1>4 DEF Route, s

DrainSteps(run, r, io) ==
    /\ run[0] = [r EXCEPT !.pending = <<>>]
    /\ \A i \in 1 .. Len(r.pending) :
         run[i] = IF run[i - 1].ok THEN Route(run[i - 1], r.pending[i], io) ELSE run[i - 1]

\* drain_pending_queue: the states between the messages.
LEMMA DrainRun ==
    ASSUME NEW r \in Records, NEW io \in BOOLEAN
    PROVE  /\ Drain(r, io) \in Records
           /\ \E run \in [0 .. Len(r.pending) -> Records] :
                DrainSteps(run, r, io) /\ Drain(r, io) = run[Len(r.pending)]
<1>. DEFINE n == Len(r.pending)
            T == Records
            b == [r EXCEPT !.pending = <<>>]
            Step(s, i) == IF s.ok THEN Route(s, r.pending[i], io) ELSE s
            f == CHOOSE f : f = [i \in 0 .. n |-> IF i = 0 THEN b ELSE Step(f[i - 1], i)]
            g == [i \in 1 .. n |-> [s \in T |-> Step(s, i)]]
<1>1. Drain(r, io) = f[n]
  BY DEF Drain, Rounds
<1>2. n \in Nat /\ b \in T
  <2>1. n \in Nat /\ <<>> \in Seq(Frame) /\ <<>> \in Seq(Failures)
    BY DEF Records
  <2>2. b \in T
    BY <2>1 DEF Records
  <2>. QED
    BY <2>1, <2>2
<1>3. ASSUME NEW i \in 1 .. n, NEW s \in T PROVE Step(s, i) \in T
  <2>1. r.pending[i] \in Frame
    BY DEF Records
  <2>. QED
    BY <2>1, RouteType
<1>4. SUFFICES /\ f \in [0 .. n -> T] /\ f[n] \in T
               /\ f[0] = b
               /\ \A i \in 1 .. n : f[i] = Step(f[i - 1], i)
  BY <1>1 DEF DrainSteps
<1>. HIDE DEF n, T, b, Step
<1>5. g \in [1 .. n -> [T -> T]]
  BY <1>3
<1>6. \A i \in 1 .. n, s \in T : g[i][s] = Step(s, i)
  OBVIOUS
<1>. HIDE DEF g
<1>7. PICK run \in [0 .. n -> T] : run[0] = b /\ \A i \in 1 .. n : run[i] = g[i][run[i - 1]]
  <2>1. Runs(T, b, n, g) # {}
    BY <1>2, <1>5, RunExists
  <2>. QED
    BY <2>1 DEF Runs
<1>8. \A i \in 0 .. n : run[i] = IF i = 0 THEN b ELSE Step(run[i - 1], i)
  <2>1. \A i \in 1 .. n : i - 1 \in 0 .. n
    BY <1>2
  <2>2. \A i \in 1 .. n : run[i] = Step(run[i - 1], i)
    BY <1>6, <1>7, <2>1
  <2>3. \A i \in 0 .. n : i = 0 \/ i \in 1 .. n
    BY <1>2
  <2>. QED
    BY <1>7, <2>2, <2>3
<1>9. run = [i \in 0 .. n |-> IF i = 0 THEN b ELSE Step(run[i - 1], i)]
  BY <1>7, <1>8
<1>10. f = [i \in 0 .. n |-> IF i = 0 THEN b ELSE Step(f[i - 1], i)]
  BY <1>9
<1>. HIDE DEF f
<1>11. f = [i \in 0 .. n |-> f[i]] /\ f[0] = b /\ \A i \in 1 .. n : f[i] = Step(f[i - 1], i)
  <2>1. 0 \in 0 .. n /\ \A i \in 1 .. n : i \in 0 .. n /\ i # 0
    BY <1>2
  <2>2. \A i \in 0 .. n : f[i] = IF i = 0 THEN b ELSE Step(f[i - 1], i)
    BY <1>10
  <2>3. f = [i \in 0 .. n |-> f[i]]
    BY <1>10
  <2>. QED
    BY <2>1, <2>2, <2>3
<1>12. f[0] \in T /\ \A i \in 1 .. n : f[i - 1] \in T => f[i] \in T
  BY <1>2, <1>3, <1>11
<1>13. f \in [0 .. n -> T]
  BY <1>2, <1>11, <1>12, LoopStays
<1>14. n \in 0 .. n
  BY <1>2
<1>. QED
  BY <1>11, <1>13, <1>14

\* Likewise when messages are kept from the agent.
LEMMA SuppressType ==
    ASSUME NEW r \in Records
    PROVE  Suppress(r) \in Records
<1>. DEFINE s == [r EXCEPT !.box = [m \in Msgs |-> IF m \in Mail \cap stale THEN "cur" ELSE @[m]]]
<1>1. s \in Records
  BY DEF Records, Boxes
<1>2. Suppress(r) = Closed(s, Mail \cap stale, "logged")
  BY DEF Suppress
<1>. HIDE DEF s
<1>. QED
  BY <1>1, <1>2, ClosedType DEF Fates

\* Likewise when a message of the inbox is sent.
LEMMA SendFiledType ==
    ASSUME NEW r \in Records, NEW m \in Msgs
    PROVE  SendFiled(r, m) \in Records
<1>1. SendLive(r, Filed(m), {m}) \in Records
  BY FrameTypes, SendLiveType
<1>. QED
  BY <1>1 DEF SendFiled, Records, Handles

SendSteps(run, r, order) ==
    /\ run[0] = r
    /\ \A i \in 1 .. Len(order) : run[i] = SendFiled(run[i - 1], order[i])

\* deliver_inbox_messages: the states between the messages.
LEMMA SendEachRun ==
    ASSUME NEW r \in Records, NEW order \in Seq(Msgs)
    PROVE  /\ SendEach(r, order) \in Records
           /\ \E run \in [0 .. Len(order) -> Records] :
                SendSteps(run, r, order) /\ SendEach(r, order) = run[Len(order)]
<1>. DEFINE n == Len(order)
            T == Records
            b == r
            Step(s, i) == SendFiled(s, order[i])
            f == CHOOSE f : f = [i \in 0 .. n |-> IF i = 0 THEN b ELSE Step(f[i - 1], i)]
            g == [i \in 1 .. n |-> [s \in T |-> Step(s, i)]]
<1>1. SendEach(r, order) = f[n]
  BY DEF SendEach, Rounds
<1>2. n \in Nat /\ b \in T
  OBVIOUS
<1>3. ASSUME NEW i \in 1 .. n, NEW s \in T PROVE Step(s, i) \in T
  <2>1. order[i] \in Msgs
    OBVIOUS
  <2>. QED
    BY <2>1, SendFiledType
<1>4. SUFFICES /\ f \in [0 .. n -> T] /\ f[n] \in T
               /\ f[0] = b
               /\ \A i \in 1 .. n : f[i] = Step(f[i - 1], i)
  BY <1>1 DEF SendSteps
<1>. HIDE DEF n, T, b, Step
<1>5. g \in [1 .. n -> [T -> T]]
  BY <1>3
<1>6. \A i \in 1 .. n, s \in T : g[i][s] = Step(s, i)
  OBVIOUS
<1>. HIDE DEF g
<1>7. PICK run \in [0 .. n -> T] : run[0] = b /\ \A i \in 1 .. n : run[i] = g[i][run[i - 1]]
  <2>1. Runs(T, b, n, g) # {}
    BY <1>2, <1>5, RunExists
  <2>. QED
    BY <2>1 DEF Runs
<1>8. \A i \in 0 .. n : run[i] = IF i = 0 THEN b ELSE Step(run[i - 1], i)
  <2>1. \A i \in 1 .. n : i - 1 \in 0 .. n
    BY <1>2
  <2>2. \A i \in 1 .. n : run[i] = Step(run[i - 1], i)
    BY <1>6, <1>7, <2>1
  <2>3. \A i \in 0 .. n : i = 0 \/ i \in 1 .. n
    BY <1>2
  <2>. QED
    BY <1>7, <2>2, <2>3
<1>9. run = [i \in 0 .. n |-> IF i = 0 THEN b ELSE Step(run[i - 1], i)]
  BY <1>7, <1>8
<1>10. f = [i \in 0 .. n |-> IF i = 0 THEN b ELSE Step(f[i - 1], i)]
  BY <1>9
<1>. HIDE DEF f
<1>11. f = [i \in 0 .. n |-> f[i]] /\ f[0] = b /\ \A i \in 1 .. n : f[i] = Step(f[i - 1], i)
  <2>1. 0 \in 0 .. n /\ \A i \in 1 .. n : i \in 0 .. n /\ i # 0
    BY <1>2
  <2>2. \A i \in 0 .. n : f[i] = IF i = 0 THEN b ELSE Step(f[i - 1], i)
    BY <1>10
  <2>3. f = [i \in 0 .. n |-> f[i]]
    BY <1>10
  <2>. QED
    BY <2>1, <2>2, <2>3
<1>12. f[0] \in T /\ \A i \in 1 .. n : f[i - 1] \in T => f[i] \in T
  BY <1>2, <1>3, <1>11
<1>13. f \in [0 .. n -> T]
  BY <1>2, <1>11, <1>12, LoopStays
<1>14. n \in 0 .. n
  BY <1>2
<1>. QED
  BY <1>11, <1>13, <1>14

\* A retry that is not the last is kept with one attempt more.
LEMMA RetryOneType ==
    ASSUME NEW r \in Records, NEW e \in Failures, NEW io \in BOOLEAN
    PROVE  /\ RetryOne(r, e, io) \in Records
           /\ [r EXCEPT !.failed = Append(@, e)] \in Records
<1>. DEFINE s == SendCommand(r, e.frame)
            n == e.attempts + 1
            d == [e EXCEPT !.attempts = n]
<1>1. e.frame \in Frame /\ e.attempts \in 1 .. (MaxAttempts - 1)
  BY DEF Failures
<1>2. s \in Records
  BY <1>1, SendCommandType
<1>3. ASSUME NEW x \in Failures, NEW t \in Records PROVE [t EXCEPT !.failed = Append(@, x)] \in Records
  <2>. DEFINE q == Append(t.failed, x)
  <2>1. q \in Seq(Failures)
    BY DEF Records
  <2>2. [t EXCEPT !.failed = Append(@, x)] = [t EXCEPT !.failed = q]
    BY DEF Records
  <2>. HIDE DEF q
  <2>. QED
    BY <2>1, <2>2 DEF Records
<1>4. n < MaxAttempts => d \in Failures
  BY <1>1, DeliveryAssumption DEF Failures
<1>. HIDE DEF s, d
<1>5. [s EXCEPT !.handle = "Working"] \in Records /\ [s EXCEPT !.ok = TRUE] \in Records
  BY <1>2 DEF Records, Handles
<1>6. n < MaxAttempts => [s EXCEPT !.failed = Append(@, d), !.ok = TRUE] \in Records
  <2>1. SUFFICES ASSUME n < MaxAttempts PROVE [s EXCEPT !.failed = Append(@, d), !.ok = TRUE] \in Records
    OBVIOUS
  <2>. DEFINE t == [s EXCEPT !.failed = Append(@, d)]
  <2>2. t \in Records
    BY <1>2, <1>3, <1>4, <2>1
  <2>3. [s EXCEPT !.failed = Append(@, d), !.ok = TRUE] = [t EXCEPT !.ok = TRUE]
    BY <1>2 DEF Records
  <2>. HIDE DEF t
  <2>. QED
    BY <2>2, <2>3 DEF Records
<1>7. Closed([s EXCEPT !.ok = TRUE], e.frame.body, "escalated") \in Records
  BY <1>5, ClosedType DEF Fates
<1>8. [r EXCEPT !.failed = Append(@, e)] \in Records
  BY <1>3
<1>9. RetryOne(r, e, io) =
        IF ~MemberReady(r.handle) THEN [r EXCEPT !.failed = Append(@, e)]
        ELSE IF s.ok THEN [s EXCEPT !.handle = "Working"]
        ELSE IF n < MaxAttempts THEN [s EXCEPT !.failed = Append(@, d), !.ok = TRUE]
        ELSE IF io THEN s
        ELSE Closed([s EXCEPT !.ok = TRUE], e.frame.body, "escalated")
  BY DEF RetryOne, s, d
<1>10. RetryOne(r, e, io) \in Records
  <2>1. CASE ~MemberReady(r.handle)
    BY <1>8, <1>9, <2>1
  <2>2. CASE MemberReady(r.handle) /\ s.ok
    BY <1>5, <1>9, <2>2
  <2>3. CASE MemberReady(r.handle) /\ ~s.ok /\ n < MaxAttempts
    BY <1>6, <1>9, <2>3
  <2>4. CASE MemberReady(r.handle) /\ ~s.ok /\ ~(n < MaxAttempts)
    BY <1>2, <1>7, <1>9, <2>4
  <2>. QED
    BY <2>1, <2>2, <2>3, <2>4
<1>. QED
  BY <1>8, <1>10

RetrySteps(run, r, due, io) ==
    /\ run[0] = [r EXCEPT !.failed = <<>>]
    /\ \A i \in 1 .. Len(r.failed) :
         run[i] = IF ~run[i - 1].ok THEN run[i - 1]
                  ELSE IF i \in due THEN RetryOne(run[i - 1], r.failed[i], io)
                  ELSE [run[i - 1] EXCEPT !.failed = Append(@, r.failed[i])]

\* retry_failed_deliveries: the states between the deliveries.
LEMMA RetryRun ==
    ASSUME NEW r \in Records, NEW due, NEW io \in BOOLEAN
    PROVE  /\ RetryEach(r, due, io) \in Records
           /\ \E run \in [0 .. Len(r.failed) -> Records] :
                RetrySteps(run, r, due, io) /\ RetryEach(r, due, io) = run[Len(r.failed)]
<1>. DEFINE n == Len(r.failed)
            T == Records
            b == [r EXCEPT !.failed = <<>>]
            Step(s, i) == IF ~s.ok THEN s
                          ELSE IF i \in due THEN RetryOne(s, r.failed[i], io)
                          ELSE [s EXCEPT !.failed = Append(@, r.failed[i])]
            f == CHOOSE f : f = [i \in 0 .. n |-> IF i = 0 THEN b ELSE Step(f[i - 1], i)]
            g == [i \in 1 .. n |-> [s \in T |-> Step(s, i)]]
<1>1. RetryEach(r, due, io) = f[n]
  BY DEF RetryEach, Rounds
<1>2. n \in Nat /\ b \in T
  <2>1. n \in Nat /\ <<>> \in Seq(Frame) /\ <<>> \in Seq(Failures)
    BY DEF Records
  <2>2. b \in T
    BY <2>1 DEF Records
  <2>. QED
    BY <2>1, <2>2
<1>3. ASSUME NEW i \in 1 .. n, NEW s \in T PROVE Step(s, i) \in T
  <2>1. r.failed[i] \in Failures
    BY DEF Records
  <2>. QED
    BY <2>1, RetryOneType
<1>4. SUFFICES /\ f \in [0 .. n -> T] /\ f[n] \in T
               /\ f[0] = b
               /\ \A i \in 1 .. n : f[i] = Step(f[i - 1], i)
  BY <1>1 DEF RetrySteps
<1>. HIDE DEF n, T, b, Step
<1>5. g \in [1 .. n -> [T -> T]]
  BY <1>3
<1>6. \A i \in 1 .. n, s \in T : g[i][s] = Step(s, i)
  OBVIOUS
<1>. HIDE DEF g
<1>7. PICK run \in [0 .. n -> T] : run[0] = b /\ \A i \in 1 .. n : run[i] = g[i][run[i - 1]]
  <2>1. Runs(T, b, n, g) # {}
    BY <1>2, <1>5, RunExists
  <2>. QED
    BY <2>1 DEF Runs
<1>8. \A i \in 0 .. n : run[i] = IF i = 0 THEN b ELSE Step(run[i - 1], i)
  <2>1. \A i \in 1 .. n : i - 1 \in 0 .. n
    BY <1>2
  <2>2. \A i \in 1 .. n : run[i] = Step(run[i - 1], i)
    BY <1>6, <1>7, <2>1
  <2>3. \A i \in 0 .. n : i = 0 \/ i \in 1 .. n
    BY <1>2
  <2>. QED
    BY <1>7, <2>2, <2>3
<1>9. run = [i \in 0 .. n |-> IF i = 0 THEN b ELSE Step(run[i - 1], i)]
  BY <1>7, <1>8
<1>10. f = [i \in 0 .. n |-> IF i = 0 THEN b ELSE Step(f[i - 1], i)]
  BY <1>9
<1>. HIDE DEF f
<1>11. f = [i \in 0 .. n |-> f[i]] /\ f[0] = b /\ \A i \in 1 .. n : f[i] = Step(f[i - 1], i)
  <2>1. 0 \in 0 .. n /\ \A i \in 1 .. n : i \in 0 .. n /\ i # 0
    BY <1>2
  <2>2. \A i \in 0 .. n : f[i] = IF i = 0 THEN b ELSE Step(f[i - 1], i)
    BY <1>10
  <2>3. f = [i \in 0 .. n |-> f[i]]
    BY <1>10
  <2>. QED
    BY <2>1, <2>2, <2>3
<1>12. f[0] \in T /\ \A i \in 1 .. n : f[i - 1] \in T => f[i] \in T
  BY <1>2, <1>3, <1>11
<1>13. f \in [0 .. n -> T]
  BY <1>2, <1>11, <1>12, LoopStays
<1>14. n \in 0 .. n
  BY <1>2
<1>. QED
  BY <1>11, <1>13, <1>14

-----------------------------------------------------------------------------
(* Type correctness. *)

Notices == [op : {"Ready", "Completion", "ContextExhausted", "Died"}, arg : {None}]
             \cup [op : {"StateChanged"}, arg : Handles]
             \cup [op : {"MessageDelivered"}, arg : FrameIds]
             \cup [op : {"DeliveryFailed"}, arg : Frame]

\* TypeOK, and the events are a sequence.
Typed == TypeOK /\ events \in Seq(Notices)

\* The events the shim sends, and what their arguments are.
LEMMA NoticeTypes ==
    /\ \A op \in {"Ready", "Completion", "ContextExhausted", "Died"} : Event(op, None) \in Notices
    /\ \A h \in Handles : Event("StateChanged", h) \in Notices
    /\ \A x \in FrameIds : Event("MessageDelivered", x) \in Notices
    /\ \A f \in Frame : Event("DeliveryFailed", f) \in Notices
    /\ \A e \in Notices : IsEvent(e)
    /\ \A e \in Notices : /\ e.op = "StateChanged" => e.arg \in Handles
                          /\ e.op = "MessageDelivered" => e.arg \in FrameIds
                          /\ e.op = "DeliveryFailed" => e.arg \in Frame
BY DEF Notices, Event, IsEvent

\* The events keep their type when some are read and some are sent.
LEMMA EventsTyped ==
    ASSUME NEW es \in Seq(Notices)
    PROVE  \A i \in DOMAIN es : IsEvent(es[i])
BY NoticeTypes

\* The state that routing starts from is such a record.
LEMMA NowType ==
    ASSUME Typed PROVE Now \in Records
BY DEF Typed, TypeOK, Now, Records

\* The variables that routing sets have their types.
LEMMA BecomesType ==
    ASSUME NEW r \in Records, Becomes(r)
    PROVE  /\ handle' \in Handles /\ inflight' \in Frame \cup {NoFrame} /\ pending' \in Seq(Frame)
           /\ failed' \in Seq(Failures) /\ acks' \subseteq Acks /\ box' \in [Msgs -> Boxes]
           /\ wire' \in Seq(Frame \cup {NoFrame}) /\ fate' \in [Msgs -> Fates]
BY DEF Becomes, Records

\* A handler reads the first event.
LEMMA PollType ==
    ASSUME Typed, NEW op, Poll(op)
    PROVE  /\ events' \in Seq(Notices)
           /\ Head(events) \in Notices /\ Head(events).op = op
           /\ op = "StateChanged" => Arg \in Handles
           /\ op = "MessageDelivered" => Arg \in FrameIds
           /\ op = "DeliveryFailed" => Arg \in Frame
<1>1. events \in Seq(Notices) /\ events # <<>> /\ events' = Tail(events) /\ Head(events).op = op
  BY DEF Typed, Poll
<1>2. Tail(events) \in Seq(Notices) /\ Head(events) \in Notices
  BY <1>1
<1>. QED
  BY <1>1, <1>2, NoticeTypes DEF Arg

\* Faults are counted up to their bound.
LEMMA ErrsType ==
    ASSUME Typed, NEW io \in BOOLEAN, NEW r, Errs(io, r)
    PROVE  faults' \in 0 .. MaxFaults
<1>1. faults \in 0 .. MaxFaults /\ MaxFaults \in Nat
  BY DeliveryAssumption DEF Typed, TypeOK
<1>2. faults' = faults \/ (faults < MaxFaults /\ faults' = faults + 1)
  BY DEF Errs, Fault
<1>. QED
  BY <1>1, <1>2

\* The initial state is typed.
LEMMA InitTyped == Init => Typed
<1>. SUFFICES ASSUME Init PROVE Typed
  OBVIOUS
<1>2. /\ pending \in Seq(Frame) /\ failed \in Seq(Failures) /\ shimq \in Seq(Frame)
      /\ wire \in Seq(Frame \cup {NoFrame}) /\ events \in Seq(Notices)
  BY DEF Init
<1>3. \A i \in DOMAIN events : IsEvent(events[i])
  BY <1>2, EventsTyped
<1>4. /\ kind \in Kinds /\ phase \in Phases /\ handle \in Handles /\ member \in {"Idle", "Working"}
      /\ inflight \in Frame \cup {NoFrame} /\ acks \subseteq Acks /\ stale \subseteq Filtered
      /\ shim \in {"starting", "idle", "working", "dead", "exhausted", "gone"}
  BY DEF Init, Phases, Handles
<1>5. /\ box \in [Msgs -> Boxes] /\ given \in [Msgs -> 0..2] /\ fate \in [Msgs -> Fates]
      /\ refusals \in [Msgs -> 0..MaxRefusals]
  BY DeliveryAssumption DEF Init, Boxes, Fates
<1>6. faults \in 0 .. MaxFaults /\ restarts \in 0 .. MaxRestarts /\ batches \in 0 .. MaxBatches
  BY DeliveryAssumption DEF Init
<1>. QED
  BY <1>2, <1>3, <1>4, <1>5, <1>6 DEF Typed, TypeOK

\* The types of the variables that a handler sets through a record.
LEMMA BecomesTyped ==
    ASSUME Typed, NEW r \in Records, Becomes(r),
           events' \in Seq(Notices), faults' \in 0 .. MaxFaults, phase' \in Phases,
           member' \in {"Idle", "Working"}, batches' \in 0 .. MaxBatches,
           UNCHANGED <<kind, stale, shim, shimq, given, refusals, restarts>>
    PROVE  Typed'
<1>1. \A i \in DOMAIN events' : IsEvent(events'[i])
  BY EventsTyped
<1>2. /\ handle' \in Handles /\ inflight' \in Frame \cup {NoFrame} /\ pending' \in Seq(Frame)
      /\ failed' \in Seq(Failures) /\ acks' \subseteq Acks /\ box' \in [Msgs -> Boxes]
      /\ wire' \in Seq(Frame \cup {NoFrame}) /\ fate' \in [Msgs -> Fates]
  BY BecomesType
<1>. QED
  BY <1>1, <1>2 DEF Typed, TypeOK

\* Records with some fields replaced.
LEMMA RecordTypes ==
    ASSUME NEW r \in Records
    PROVE  /\ \A h \in Handles : [r EXCEPT !.handle = h] \in Records
           /\ \A h \in Handles : [r EXCEPT !.handle = h, !.inflight = NoFrame] \in Records
           /\ \A q \in Seq(Frame) : [r EXCEPT !.pending = q] \in Records
           /\ \A m \in Msgs : [r EXCEPT !.fate[m] = "none"] \in Records
<1>1. \A h \in Handles : [r EXCEPT !.handle = h] \in Records
  BY DEF Records
<1>2. \A h \in Handles : [r EXCEPT !.handle = h, !.inflight = NoFrame] \in Records
  BY DEF Records
<1>3. \A q \in Seq(Frame) : [r EXCEPT !.pending = q] \in Records
  BY DEF Records
<1>4. ASSUME NEW m \in Msgs PROVE [r EXCEPT !.fate[m] = "none"] \in Records
  <2>1. [r.fate EXCEPT ![m] = "none"] \in [Msgs -> Fates]
    BY DEF Records, Fates
  <2>. QED
    BY <2>1 DEF Records
<1>. QED
  BY <1>1, <1>2, <1>3, <1>4

\* Draining the queue of a shim that reports itself ready keeps the types.
LEMMA OnReadyTyped ==
    ASSUME Typed, OnReady PROVE Typed'
<1>. DEFINE r == IF handle = "Working" THEN Now
                 ELSE [Now EXCEPT !.handle = "Idle", !.inflight = NoFrame]
<1>1. PICK io \in BOOLEAN : Errs(io, Drain(r, io)) /\ Becomes(Drain(r, io))
  BY DEF OnReady
<1>2. r \in Records
  BY NowType, RecordTypes DEF Handles
<1>. HIDE DEF r
<1>3. Drain(r, io) \in Records
  BY <1>2, DrainRun
<1>4. events' \in Seq(Notices) /\ faults' \in 0 .. MaxFaults
  BY <1>1, PollType, ErrsType DEF OnReady
<1>5. /\ phase' \in Phases /\ member' \in {"Idle", "Working"} /\ batches' \in 0 .. MaxBatches
      /\ UNCHANGED <<kind, stale, shim, shimq, given, refusals, restarts>>
  BY DEF OnReady, Poll, Typed, TypeOK
<1>. QED
  BY <1>1, <1>3, <1>4, <1>5, BecomesTyped

\* So does a reported state.
LEMMA OnStateChangedTyped ==
    ASSUME Typed, OnStateChanged PROVE Typed'
<1>. DEFINE r == [Now EXCEPT !.handle = Arg]
            d(io) == IF Arg = "Idle" THEN Drain(r, io) ELSE r
<1>1. PICK io \in BOOLEAN : Errs(io, d(io)) /\ Becomes(d(io))
  BY DEF OnStateChanged
<1>2. Arg \in Handles /\ events' \in Seq(Notices)
  BY PollType DEF OnStateChanged
<1>3. r \in Records
  BY <1>2, NowType, RecordTypes
<1>. HIDE DEF r
<1>4. d(io) \in Records
  BY <1>3, DrainRun
<1>. HIDE DEF d
<1>5. faults' \in 0 .. MaxFaults
  BY <1>1, ErrsType
<1>6. /\ phase' \in Phases /\ member' \in {"Idle", "Working"} /\ batches' \in 0 .. MaxBatches
      /\ UNCHANGED <<kind, stale, shim, shimq, given, refusals, restarts>>
  BY DEF OnStateChanged, Poll, Typed, TypeOK
<1>. QED
  BY <1>1, <1>2, <1>4, <1>5, <1>6, BecomesTyped

\* So does taking a stuck engineer for idle.
LEMMA ForceIdleTyped ==
    ASSUME Typed, ForceIdle PROVE Typed'
<1>. DEFINE r == [Now EXCEPT !.handle = "Idle"]
<1>1. PICK io \in BOOLEAN : Errs(io, Drain(r, io)) /\ Becomes(Drain(r, io))
  BY DEF ForceIdle
<1>2. r \in Records
  BY NowType, RecordTypes DEF Handles
<1>. HIDE DEF r
<1>3. Drain(r, io) \in Records
  BY <1>2, DrainRun
<1>4. faults' \in 0 .. MaxFaults
  BY <1>1, ErrsType
<1>5. /\ phase' \in Phases /\ member' \in {"Idle", "Working"} /\ batches' \in 0 .. MaxBatches
      /\ events' \in Seq(Notices)
      /\ UNCHANGED <<kind, stale, shim, shimq, given, refusals, restarts>>
  BY DEF ForceIdle, Typed, TypeOK, Phases
<1>. QED
  BY <1>1, <1>3, <1>4, <1>5, BecomesTyped

\* So does a message of the daemon itself.
LEMMA DaemonMessageTyped ==
    ASSUME Typed, NEW m \in Msgs, DaemonMessage(m) PROVE Typed'
<1>. DEFINE r == [Now EXCEPT !.fate[m] = "none"]
<1>1. PICK io \in BOOLEAN : Errs(io, Route(r, Live(m), io)) /\ Becomes(Route(r, Live(m), io))
  BY DEF DaemonMessage
<1>2. r \in Records
  BY NowType, RecordTypes
<1>. HIDE DEF r
<1>3. Route(r, Live(m), io) \in Records
  BY <1>2, RouteType, FrameTypes
<1>4. faults' \in 0 .. MaxFaults
  BY <1>1, ErrsType
<1>5. /\ phase' \in Phases /\ member' \in {"Idle", "Working"} /\ batches' \in 0 .. MaxBatches
      /\ events' \in Seq(Notices)
      /\ UNCHANGED <<kind, stale, shim, shimq, given, refusals, restarts>>
  BY DEF DaemonMessage, Typed, TypeOK
<1>. QED
  BY <1>1, <1>3, <1>4, <1>5, BecomesTyped

\* So do the retries: an entry is kept with attempts left.
LEMMA RetryTyped ==
    ASSUME Typed, NEW due, Retry(due) PROVE Typed'
<1>1. PICK io \in BOOLEAN : /\ Errs(io, RetryEach(Now, due, io)) /\ Becomes(RetryEach(Now, due, io))
                            /\ phase' = PastRetry(RetryEach(Now, due, io))
  BY DEF Retry
<1>2. RetryEach(Now, due, io) \in Records
  BY NowType, RetryRun
<1>3. faults' \in 0 .. MaxFaults
  BY <1>1, ErrsType
<1>4. /\ member' \in {"Idle", "Working"} /\ batches' \in 0 .. MaxBatches
      /\ events' \in Seq(Notices)
      /\ UNCHANGED <<kind, stale, shim, shimq, given, refusals, restarts>>
  BY DEF Retry, Typed, TypeOK
<1>5. phase' \in Phases
  BY <1>1 DEF PastRetry, Phases
<1>. QED
  BY <1>1, <1>2, <1>3, <1>4, <1>5, BecomesTyped

\* So does the expiry of queued messages.
LEMMA ExpireTyped ==
    ASSUME Typed, NEW old, Expire(old) PROVE Typed'
<1>. DEFINE newest == CHOOSE i \in old : \A j \in old : j <= i
            put == IF Cardinality(old) <= DigestThreshold THEN old ELSE {newest}
            filed == UNION {pending[i].body : i \in put}
            dropped == (UNION {pending[i].body : i \in old \ put}) \ filed
            kept == [Now EXCEPT !.pending = Without(@, old)]
            r(io) == InboxFallback(Closed(kept, dropped, "superseded"), filed, io)
<1>1. PICK io \in BOOLEAN : Errs(io, r(io)) /\ Becomes(r(io))
  BY DEF Expire
<1>2. Now.pending \in Seq(Frame)
  BY NowType DEF Records
<1>3. Without(Now.pending, old) \in Seq(Frame)
  BY <1>2, WithoutType
<1>4. kept \in Records
  BY <1>3, NowType, RecordTypes
<1>. HIDE DEF kept, filed, dropped
<1>5. r(io) \in Records
  BY <1>4, ClosedType, InboxFallbackType DEF Fates
<1>. HIDE DEF r
<1>6. faults' \in 0 .. MaxFaults
  BY <1>1, ErrsType
<1>7. /\ member' \in {"Idle", "Working"} /\ batches' \in 0 .. MaxBatches /\ phase' \in Phases
      /\ events' \in Seq(Notices)
      /\ UNCHANGED <<kind, stale, shim, shimq, given, refusals, restarts>>
  BY DEF Expire, Typed, TypeOK, Phases
<1>. QED
  BY <1>1, <1>5, <1>6, <1>7, BecomesTyped

\* The order in which the inbox is read has every message once.
LEMMA OrderType ==
    ASSUME NEW S \in SUBSET Msgs, NEW order \in SetToSeqs(S)
    PROVE  /\ order \in Seq(Msgs)
           /\ \A i \in 1 .. Len(order) : order[i] \in S
           /\ \A i, j \in 1 .. Len(order) : order[i] = order[j] => i = j
<1>1. IsFiniteSet(S)
  BY DeliveryAssumption, FS_Subset
<1>2. Cardinality(S) \in Nat
  BY <1>1, FS_CardinalityType
<1>. DEFINE n == Cardinality(S)
<1>3. order \in [1 .. n -> S] /\ \A i, j \in 1 .. n : i # j => order[i] # order[j]
  BY DEF SetToSeqs
<1>. HIDE DEF n
<1>4. order \in Seq(Msgs) /\ Len(order) = n
  <2>1. n \in Nat
    BY <1>2 DEF n
  <2>2. order \in [1 .. n -> Msgs]
    BY <1>3
  <2>. QED
    BY <2>1, <2>2
<1>. QED
  BY <1>3, <1>4

\* So does the delivery of the inbox, as single messages, a batch or a digest.
LEMMA DeliverInboxTyped ==
    ASSUME Typed, DeliverInbox PROVE Typed'
<1>1. /\ member' \in {"Idle", "Working"} /\ events' \in Seq(Notices) /\ faults' \in 0 .. MaxFaults
      /\ UNCHANGED <<kind, stale, shim, shimq, given, refusals, restarts>>
  BY DEF DeliverInbox, Typed, TypeOK
<1>2. Suppress(Now) \in Records /\ Mail \in SUBSET Msgs /\ DigestOf \in SUBSET Msgs /\ batches \in 0 .. MaxBatches
  BY NowType, SuppressType DEF Mail, DigestOf, Typed, TypeOK
<1>3. \A t : PastInbox(t) \in Phases
  BY DEF PastInbox, PastRetry, Phases
<1>4. CASE Batches /\ batches < MaxBatches /\ Becomes(SendLive(Suppress(Now), Batch(Mail), Mail))
           /\ phase' = PastInbox(Now) /\ batches' = batches + 1
  <2>1. SendLive(Suppress(Now), Batch(Mail), Mail) \in Records
    BY <1>2, FrameTypes, SendLiveType
  <2>2. batches' \in 0 .. MaxBatches
    BY <1>2, <1>4, DeliveryAssumption
  <2>3. phase' \in Phases
    BY <1>3, <1>4
  <2>. QED
    BY <1>1, <1>4, <2>1, <2>2, <2>3, BecomesTyped
<1>5. ASSUME NEW digest \in SUBSET Msgs, InboxPass(Suppress(Now), digest) PROVE Typed'
  <2>. DEFINE r == Suppress(Now)
              S == {m \in Mail \ (stale \cup digest) : ~PendingAck(r, m)}
  <2>1. PICK order \in SetToSeqs(S) :
          LET s == SendEach(r, order)
              flush == /\ digest # {}
                       /\ order = <<>> \/ shim = "gone"
                       /\ IsReady(s.handle)
                       /\ batches < MaxBatches
              t == IF flush THEN SendLive(s, Batch(digest), digest) ELSE s
          IN Becomes(t) /\ phase' = PastInbox(t) /\ batches' = IF flush THEN batches + 1 ELSE batches
    BY <1>5 DEF InboxPass
  <2>. DEFINE s == SendEach(r, order)
              flush == digest # {} /\ (order = <<>> \/ shim = "gone") /\ IsReady(s.handle) /\ batches < MaxBatches
              t == IF flush THEN SendLive(s, Batch(digest), digest) ELSE s
  <2>2. Becomes(t) /\ phase' = PastInbox(t) /\ batches' = IF flush THEN batches + 1 ELSE batches
    BY <2>1
  <2>3. S \in SUBSET Msgs
    BY <1>2
  <2>. HIDE DEF r, S
  <2>4. s \in Records
    BY <1>2, <2>3, OrderType, SendEachRun DEF r
  <2>. HIDE DEF s
  <2>5. t \in Records
    BY <1>2, <2>4, FrameTypes, SendLiveType
  <2>6. batches' \in 0 .. MaxBatches
    BY <1>2, <2>2, DeliveryAssumption
  <2>. HIDE DEF t, flush
  <2>7. phase' \in Phases
    BY <1>3, <2>2
  <2>. QED
    BY <1>1, <2>2, <2>5, <2>6, <2>7, BecomesTyped
<1>. QED
  BY <1>2, <1>4, <1>5 DEF DeliverInbox

\* So do the handlers that route nothing.
LEMMA HandlersTyped ==
    ASSUME Typed, OnMessageDelivered \/ OnCompletion \/ OnDeliveryFailed \/ OnContextExhausted
    PROVE  Typed'
<1>1. CASE OnMessageDelivered
  <2>1. events' \in Seq(Notices)
    BY <1>1, PollType DEF OnMessageDelivered
  <2>2. \A i \in DOMAIN events' : IsEvent(events'[i])
    BY <2>1, EventsTyped
  <2>3. box' \in [Msgs -> Boxes] /\ acks' \subseteq Acks
    BY <1>1 DEF OnMessageDelivered, Typed, TypeOK, Boxes
  <2>. QED
    BY <1>1, <2>1, <2>2, <2>3 DEF OnMessageDelivered, Poll, Typed, TypeOK
<1>2. CASE OnCompletion
  <2>1. events' \in Seq(Notices)
    BY <1>2, PollType DEF OnCompletion
  <2>2. \A i \in DOMAIN events' : IsEvent(events'[i])
    BY <2>1, EventsTyped
  <2>. QED
    BY <1>2, <2>1, <2>2 DEF OnCompletion, Poll, Typed, TypeOK, Handles
<1>3. CASE OnDeliveryFailed
  <2>1. events' \in Seq(Notices) /\ Arg \in Frame
    BY <1>3, PollType DEF OnDeliveryFailed
  <2>2. \A i \in DOMAIN events' : IsEvent(events'[i])
    BY <2>1, EventsTyped
  <2>3. [frame |-> Arg, attempts |-> 1] \in Failures
    BY <2>1, DeliveryAssumption DEF Failures
  <2>4. Append(failed, [frame |-> Arg, attempts |-> 1]) \in Seq(Failures)
    BY <2>3 DEF Typed, TypeOK
  <2>5. failed' \in Seq(Failures)
    BY <1>3, <2>4 DEF OnDeliveryFailed, Typed, TypeOK
  <2>6. handle' \in Handles /\ inflight' \in Frame \cup {NoFrame} /\ acks' \subseteq Acks
    BY <1>3 DEF OnDeliveryFailed, Typed, TypeOK, Handles
  <2>. QED
    BY <1>3, <2>1, <2>2, <2>5, <2>6 DEF OnDeliveryFailed, Poll, Typed, TypeOK
<1>4. CASE OnContextExhausted
  <2>1. events' \in Seq(Notices)
    BY <1>4, PollType DEF OnContextExhausted
  <2>2. \A i \in DOMAIN events' : IsEvent(events'[i])
    BY <2>1, EventsTyped
  <2>3. Append(wire, NoFrame) \in Seq(Frame \cup {NoFrame})
    BY DEF Typed, TypeOK
  <2>4. wire' \in Seq(Frame \cup {NoFrame})
    BY <1>4, <2>3 DEF OnContextExhausted
  <2>. QED
    BY <1>4, <2>1, <2>2, <2>4 DEF OnContextExhausted, Poll, Typed, TypeOK, Handles, Terminal
<1>. QED
  BY <1>1, <1>2, <1>3, <1>4

\* A new shim has its types.
LEMMA RespawnType ==
    ASSUME Typed, NEW requeue \in BOOLEAN, Respawn(requeue)
    PROVE  /\ handle' \in Handles /\ inflight' \in Frame \cup {NoFrame} /\ pending' \in Seq(Frame)
           /\ shim' \in {"starting", "idle", "working", "dead", "exhausted", "gone"}
           /\ wire' \in Seq(Frame \cup {NoFrame}) /\ shimq' \in Seq(Frame) /\ events' \in Seq(Notices)
<1>1. inflight # NoFrame => <<inflight>> \o pending \in Seq(Frame)
  BY DEF Typed, TypeOK
<1>. QED
  BY <1>1 DEF Respawn, Typed, TypeOK, Handles

\* The restarts keep the types.
LEMMA RestartsTyped ==
    ASSUME Typed, OnDied \/ ColdRespawn \/ DaemonRestart
    PROVE  Typed'
<1>1. CASE OnDied
  <2>1. CASE Respawn(FALSE) /\ UNCHANGED faults
    <3>1. \A i \in DOMAIN events' : IsEvent(events'[i])
      BY <2>1, RespawnType, EventsTyped
    <3>. QED
      BY <1>1, <2>1, <3>1, RespawnType DEF OnDied, Typed, TypeOK
  <2>2. CASE /\ Fault("park") /\ handle' = "Dead" /\ events' = Tail(events) /\ events # <<>>
             /\ UNCHANGED <<inflight, pending, shim, wire, shimq>>
    <3>1. events' \in Seq(Notices)
      BY <2>2 DEF Typed
    <3>2. \A i \in DOMAIN events' : IsEvent(events'[i])
      BY <3>1, EventsTyped
    <3>3. faults' \in 0 .. MaxFaults
      BY <2>2, DeliveryAssumption DEF Fault, Typed, TypeOK
    <3>. QED
      BY <1>1, <2>2, <3>1, <3>2, <3>3 DEF OnDied, Typed, TypeOK, Handles, Terminal
  <2>. QED
    BY <1>1, <2>1, <2>2 DEF OnDied
<1>2. CASE ColdRespawn
  <2>1. \A i \in DOMAIN events' : IsEvent(events'[i])
    BY <1>2, RespawnType, EventsTyped DEF ColdRespawn
  <2>2. restarts' \in 0 .. MaxRestarts
    BY <1>2, DeliveryAssumption DEF ColdRespawn, Typed, TypeOK
  <2>. QED
    BY <1>2, <2>1, <2>2, RespawnType DEF ColdRespawn, Typed, TypeOK, Phases
<1>3. CASE DaemonRestart
  <2>1. /\ pending' \in Seq(Frame) /\ failed' \in Seq(Failures) /\ shimq' \in Seq(Frame)
        /\ wire' \in Seq(Frame \cup {NoFrame}) /\ events' \in Seq(Notices)
    BY <1>3 DEF DaemonRestart
  <2>2. \A i \in DOMAIN events' : IsEvent(events'[i])
    BY <2>1, EventsTyped
  <2>3. faults' \in 0 .. MaxFaults
    BY <1>3, DeliveryAssumption DEF DaemonRestart, Fault, Typed, TypeOK
  <2>. QED
    BY <1>3, <2>1, <2>2, <2>3 DEF DaemonRestart, Typed, TypeOK, Phases, Handles
<1>. QED
  BY <1>1, <1>2, <1>3

\* So do the steps of the tick that only pass, the sweep of the tiers and the senders.
LEMMA QuietTyped ==
    ASSUME Typed,
           \/ PollDone \/ NotStuck \/ SkipInbox \/ SweepTiers
           \/ \E m \in Msgs : InboxMessage(m) \/ BecomesStale(m)
    PROVE  Typed'
<1>. USE DEF memory, channel, count
<1>1. CASE PollDone \/ NotStuck \/ SkipInbox
  BY <1>1 DEF PollDone, NotStuck, SkipInbox, PastPoll, PastInbox, PastRetry, Typed, TypeOK, Phases
<1>2. CASE SweepTiers
  BY <1>2 DEF SweepTiers, Typed, TypeOK, Boxes, Fates
<1>3. ASSUME NEW m \in Msgs, InboxMessage(m) PROVE Typed'
  BY <1>3 DEF InboxMessage, Typed, TypeOK, Boxes, Fates
<1>4. ASSUME NEW m \in Msgs, BecomesStale(m) PROVE Typed'
  BY <1>4 DEF BecomesStale, Typed, TypeOK
<1>. QED
  BY <1>1, <1>2, <1>3, <1>4

\* What the shim sends are events.
LEMMA EmitType ==
    ASSUME Typed, NEW es \in Seq(Notices), Emit(es)
    PROVE  events' \in Seq(Notices) /\ \A i \in DOMAIN events' : IsEvent(events'[i])
<1>1. events \o es \in Seq(Notices)
  BY DEF Typed
<1>. QED
  BY <1>1, EventsTyped DEF Emit

\* What is given is counted up to two.
LEMMA GiveType ==
    ASSUME Typed, NEW f, Give(f)
    PROVE  given' \in [Msgs -> 0..2]
BY DEF Give, Typed, TypeOK

\* The steps of the shim keep the types.
LEMMA ShimTyped ==
    ASSUME Typed, Shim PROVE Typed'
<1>. USE DEF memory, channel, count
<1>1. CASE ShimReady
  <2>1. <<Event("Ready", None)>> \in Seq(Notices)
    BY NoticeTypes
  <2>2. events' \in Seq(Notices) /\ \A i \in DOMAIN events' : IsEvent(events'[i])
    BY <1>1, <2>1, EmitType DEF ShimReady
  <2>. QED
    BY <1>1, <2>2 DEF ShimReady, ShimStep, Typed, TypeOK
<1>2. CASE ShimWrites
  <2>1. Head(wire) \in Frame /\ wire' \in Seq(Frame \cup {NoFrame})
    BY <1>2 DEF ShimWrites, Typed, TypeOK
  <2>2. <<Event("MessageDelivered", Head(wire).id), Event("StateChanged", "Working")>> \in Seq(Notices)
    <3>1. Event("MessageDelivered", Head(wire).id) \in Notices
      BY <2>1, FrameTypes, NoticeTypes
    <3>2. Event("StateChanged", "Working") \in Notices
      BY NoticeTypes DEF Handles
    <3>. QED
      BY <3>1, <3>2
  <2>3. events' \in Seq(Notices) /\ \A i \in DOMAIN events' : IsEvent(events'[i])
    BY <1>2, <2>2, EmitType DEF ShimWrites
  <2>4. given' \in [Msgs -> 0..2]
    BY <1>2, GiveType DEF ShimWrites
  <2>. QED
    BY <1>2, <2>1, <2>3, <2>4 DEF ShimWrites, ShimStep, Typed, TypeOK
<1>3. CASE ShimWriteFails
  <2>1. Head(wire) \in Frame /\ wire' \in Seq(Frame \cup {NoFrame})
    BY <1>3 DEF ShimWriteFails, Typed, TypeOK
  <2>2. <<Event("DeliveryFailed", Head(wire))>> \in Seq(Notices)
    BY <2>1, NoticeTypes
  <2>3. events' \in Seq(Notices) /\ \A i \in DOMAIN events' : IsEvent(events'[i])
    BY <1>3, <2>2, EmitType DEF ShimWriteFails
  <2>4. refusals' \in [Msgs -> 0..MaxRefusals]
    <3>1. MaxRefusals \in Nat /\ refusals \in [Msgs -> 0 .. MaxRefusals]
      BY DeliveryAssumption DEF Typed, TypeOK
    <3>2. \A x \in 0 .. MaxRefusals : x < MaxRefusals => x + 1 \in 0 .. MaxRefusals
      BY <3>1
    <3>3. /\ \A m \in Head(wire).body : refusals[m] < MaxRefusals
          /\ refusals' = [m \in Msgs |-> IF m \in Head(wire).body THEN refusals[m] + 1 ELSE refusals[m]]
      BY <1>3 DEF ShimWriteFails
    <3>. QED
      BY <3>1, <3>2, <3>3
  <2>. QED
    BY <1>3, <2>1, <2>3, <2>4 DEF ShimWriteFails, Typed, TypeOK
<1>4. CASE ShimQueues
  <2>1. Head(wire) \in Frame /\ wire' \in Seq(Frame \cup {NoFrame})
    BY <1>4 DEF ShimQueues, Typed, TypeOK
  <2>2. shimq' \in Seq(Frame)
    BY <1>4, <2>1 DEF ShimQueues, Typed, TypeOK
  <2>. QED
    BY <1>4, <2>1, <2>2 DEF ShimQueues, ShimStep, Typed, TypeOK
<1>5. CASE ShimDiscards
  <2>1. wire' \in Seq(Frame \cup {NoFrame})
    BY <1>5 DEF ShimDiscards, Typed, TypeOK
  <2>. QED
    BY <1>5, <2>1 DEF ShimDiscards, ShimStep, Typed, TypeOK
<1>6. CASE ShimTurnEnds
  <2>1. /\ Event("StateChanged", "Idle") \in Notices /\ Event("Completion", None) \in Notices
        /\ Event("StateChanged", "Working") \in Notices
    BY NoticeTypes DEF Handles
  <2>2. /\ <<Event("StateChanged", "Idle"), Event("Completion", None)>> \in Seq(Notices)
        /\ <<Event("StateChanged", "Idle"), Event("Completion", None),
             Event("StateChanged", "Working")>> \in Seq(Notices)
    BY <2>1
  <2>3. events' \in Seq(Notices) /\ \A i \in DOMAIN events' : IsEvent(events'[i])
    BY <1>6, <2>2, EmitType DEF ShimTurnEnds
  <2>4. given' \in [Msgs -> 0..2]
    BY <1>6, GiveType DEF ShimTurnEnds, Typed, TypeOK
  <2>5. shimq' \in Seq(Frame)
    <3>1. shimq \in Seq(Frame)
      BY DEF Typed, TypeOK
    <3>2. shimq' = shimq \/ (shimq # <<>> /\ shimq' = Tail(shimq))
      BY <1>6 DEF ShimTurnEnds
    <3>. QED
      BY <3>1, <3>2
  <2>6. shim' \in {"starting", "idle", "working", "dead", "exhausted", "gone"}
    BY <1>6 DEF ShimTurnEnds, Typed, TypeOK
  <2>. QED
    BY <1>6, <2>3, <2>4, <2>5, <2>6 DEF ShimTurnEnds, ShimStep, Typed, TypeOK
<1>7. CASE AgentDies \/ ContextFull
  <2>1. /\ Event("StateChanged", "Dead") \in Notices /\ Event("Died", None) \in Notices
        /\ Event("StateChanged", "ContextExhausted") \in Notices /\ Event("ContextExhausted", None) \in Notices
    BY NoticeTypes DEF Handles, Terminal
  <2>2. /\ <<Event("StateChanged", "Dead"), Event("Died", None)>> \in Seq(Notices)
        /\ <<Event("StateChanged", "ContextExhausted"), Event("ContextExhausted", None)>> \in Seq(Notices)
    BY <2>1
  <2>3. events' \in Seq(Notices) /\ \A i \in DOMAIN events' : IsEvent(events'[i])
    BY <1>7, <2>2, EmitType DEF AgentDies, ContextFull
  <2>4. faults' \in 0 .. MaxFaults /\ shimq' \in Seq(Frame)
    <3>1. MaxFaults \in Nat /\ faults \in 0 .. MaxFaults
      BY DeliveryAssumption DEF Typed, TypeOK
    <3>2. faults < MaxFaults /\ faults' = faults + 1 /\ shimq' = <<>>
      BY <1>7 DEF AgentDies, ContextFull, Fault
    <3>3. <<>> \in Seq(Frame)
      OBVIOUS
    <3>. QED
      BY <3>1, <3>2, <3>3
  <2>. QED
    BY <1>7, <2>3, <2>4 DEF AgentDies, ContextFull, ShimStep, Typed, TypeOK
<1>8. CASE ShimShutdown
  <2>1. /\ Event("StateChanged", "Dead") \in Notices /\ Event("Died", None) \in Notices
    BY NoticeTypes DEF Handles, Terminal
  <2>2. <<Event("StateChanged", "Dead"), Event("Died", None)>> \in Seq(Notices) /\ <<>> \in Seq(Notices)
    BY <2>1
  <2>3. events' \in Seq(Notices) /\ \A i \in DOMAIN events' : IsEvent(events'[i])
    BY <1>8, <2>2, EmitType DEF ShimShutdown
  <2>4. wire' \in Seq(Frame \cup {NoFrame})
    BY <1>8 DEF ShimShutdown
  <2>. QED
    BY <1>8, <2>3, <2>4 DEF ShimShutdown, ShimStep, Typed, TypeOK
<1>9. CASE ShimKilled
  <2>1. wire' \in Seq(Frame \cup {NoFrame}) /\ shimq' \in Seq(Frame)
    BY <1>9 DEF ShimKilled
  <2>2. faults' \in 0 .. MaxFaults
    BY <1>9, DeliveryAssumption DEF ShimKilled, Fault, Typed, TypeOK
  <2>. QED
    BY <1>9, <2>1, <2>2 DEF ShimKilled, ShimStep, Typed, TypeOK
<1>. QED
  BY <1>1, <1>2, <1>3, <1>4, <1>5, <1>6, <1>7, <1>8, <1>9 DEF Shim

\* Every step keeps the types.
LEMMA NextTyped ==
    ASSUME Typed, [Next]_vars PROVE Typed'
<1>1. CASE UNCHANGED vars
  BY <1>1 DEF vars, memory, channel, count, Typed, TypeOK
<1>2. CASE Handler
  BY <1>2, OnReadyTyped, OnStateChangedTyped, HandlersTyped, RestartsTyped DEF Handler
<1>3. CASE Tick
  BY <1>2, <1>3, QuietTyped, RestartsTyped, ForceIdleTyped, DeliverInboxTyped, RetryTyped,
     ExpireTyped, DaemonMessageTyped DEF Tick, RetryFailed, ExpirePending
<1>4. CASE DaemonRestart \/ \E m \in Msgs : InboxMessage(m) \/ BecomesStale(m)
  BY <1>4, QuietTyped, RestartsTyped
<1>. QED
  BY <1>1, <1>3, <1>4, ShimTyped DEF Next

\* Every variable keeps its type, the argument of every event is one of its kind,
\* and a failed delivery that is kept for another retry has attempts left
\* (retry_failed_deliveries, record_failed_delivery_with_id).
THEOREM DeliveryTypeCorrect == Spec => []TypeOK
<1>1. Init => Typed
  BY InitTyped
<1>2. Typed /\ [Next]_vars => Typed'
  BY NextTyped
<1>3. Typed => TypeOK
  BY DEF Typed
<1>. QED
  BY <1>1, <1>2, <1>3, PTL DEF Spec

-----------------------------------------------------------------------------
(* What a queue holds. *)

Queued(q) == {q[i] : i \in DOMAIN q}
Fails(q)  == {e.frame : e \in Queued(q)}

\* Appending, joining and taking the head, as operations on what a queue holds.
LEMMA QueuedFacts ==
    ASSUME NEW F, NEW q \in Seq(F)
    PROVE  /\ Queued(q) \subseteq F
           /\ \A x \in F : Queued(Append(q, x)) = Queued(q) \cup {x}
           /\ q # <<>> => Head(q) \in F /\ Tail(q) \in Seq(F) /\ Queued(q) = {Head(q)} \cup Queued(Tail(q))
<1>1. Queued(q) \subseteq F
  BY DEF Queued
<1>2. ASSUME NEW x \in F PROVE Queued(Append(q, x)) = Queued(q) \cup {x}
  <2>1. /\ DOMAIN Append(q, x) = 1 .. Len(q) + 1 /\ DOMAIN q = 1 .. Len(q) /\ Len(q) \in Nat
        /\ \A i \in 1 .. Len(q) : Append(q, x)[i] = q[i]
        /\ Append(q, x)[Len(q) + 1] = x
    OBVIOUS
  <2>2. \A i \in 1 .. Len(q) + 1 : i \in 1 .. Len(q) \/ i = Len(q) + 1
    BY <2>1
  <2>3. 1 .. Len(q) \subseteq 1 .. Len(q) + 1 /\ Len(q) + 1 \in 1 .. Len(q) + 1
    BY <2>1
  <2>. QED
    BY <2>1, <2>2, <2>3 DEF Queued
<1>3. ASSUME q # <<>> PROVE Head(q) \in F /\ Tail(q) \in Seq(F) /\ Queued(q) = {Head(q)} \cup Queued(Tail(q))
  <2>1. /\ Len(q) \in Nat \ {0} /\ Tail(q) \in Seq(F) /\ Head(q) = q[1] /\ Head(q) \in F
        /\ DOMAIN q = 1 .. Len(q) /\ DOMAIN Tail(q) = 1 .. Len(q) - 1
        /\ \A i \in 1 .. Len(q) - 1 : Tail(q)[i] = q[i + 1]
    BY <1>3, EmptySeq
  <2>2. \A i \in 1 .. Len(q) : i = 1 \/ (i - 1 \in 1 .. Len(q) - 1 /\ q[i] = Tail(q)[i - 1])
    BY <2>1
  <2>3. 1 \in 1 .. Len(q) /\ \A i \in 1 .. Len(q) - 1 : i + 1 \in 1 .. Len(q)
    BY <2>1
  <2>4. ASSUME NEW i \in 1 .. Len(q) PROVE q[i] \in {Head(q)} \cup Queued(Tail(q))
    <3>1. CASE i = 1
      BY <2>1, <3>1
    <3>2. CASE i - 1 \in 1 .. Len(q) - 1 /\ q[i] = Tail(q)[i - 1]
      BY <2>1, <3>2 DEF Queued
    <3>. QED
      BY <2>2, <3>1, <3>2
  <2>5. {Head(q)} \cup Queued(Tail(q)) \subseteq Queued(q)
    BY <2>1, <2>3 DEF Queued
  <2>6. Queued(q) \subseteq {Head(q)} \cup Queued(Tail(q))
    BY <2>1, <2>4 DEF Queued
  <2>. QED
    BY <2>1, <2>5, <2>6
<1>. QED
  BY <1>1, <1>2, <1>3

\* Joining two queues.
LEMMA QueuedJoin ==
    ASSUME NEW F, NEW q \in Seq(F), NEW s \in Seq(F)
    PROVE  Queued(q \o s) = Queued(q) \cup Queued(s)
<1>1. /\ Len(q) \in Nat /\ Len(s) \in Nat /\ DOMAIN q = 1 .. Len(q) /\ DOMAIN s = 1 .. Len(s)
      /\ DOMAIN (q \o s) = 1 .. Len(q) + Len(s)
      /\ \A i \in 1 .. Len(q) + Len(s) : (q \o s)[i] = IF i <= Len(q) THEN q[i] ELSE s[i - Len(q)]
  OBVIOUS
<1>2. \A i \in 1 .. Len(q) + Len(s) : i \in 1 .. Len(q) \/ (~ (i <= Len(q)) /\ i - Len(q) \in 1 .. Len(s))
  BY <1>1
<1>3. Queued(q \o s) \subseteq Queued(q) \cup Queued(s)
  BY <1>1, <1>2 DEF Queued
<1>4. ASSUME NEW i \in 1 .. Len(q) PROVE q[i] \in Queued(q \o s)
  <2>1. i \in 1 .. Len(q) + Len(s) /\ i <= Len(q)
    BY <1>1
  <2>. QED
    BY <1>1, <2>1 DEF Queued
<1>5. ASSUME NEW i \in 1 .. Len(s) PROVE s[i] \in Queued(q \o s)
  <2>1. i + Len(q) \in 1 .. Len(q) + Len(s) /\ ~ (i + Len(q) <= Len(q)) /\ (i + Len(q)) - Len(q) = i
    BY <1>1
  <2>2. (q \o s)[i + Len(q)] = s[i]
    BY <1>1, <2>1
  <2>. QED
    BY <1>1, <2>1, <2>2 DEF Queued
<1>. QED
  BY <1>1, <1>3, <1>4, <1>5 DEF Queued

\* Small queues.
LEMMA QueuedSmall ==
    /\ Queued(<<>>) = {} /\ Fails(<<>>) = {}
    /\ \A x : Queued(<<x>>) = {x}
    /\ \A x, y : Queued(<<x, y>>) = {x, y}
    /\ \A x, y, z : Queued(<<x, y, z>>) = {x, y, z}
BY DEF Queued, Fails

\* The loop that leaves out the positions S keeps the others.
LEMMA QueuedWithout ==
    ASSUME NEW F, NEW q \in Seq(F), NEW S
    PROVE  Queued(Without(q, S)) = {q[i] : i \in DOMAIN q \ S}
<1>0. PICK run \in [0 .. Len(q) -> Seq(F)] : KeepRun(run, q, S) /\ Without(q, S) = run[Len(q)]
  BY WithoutRun
<1>1. /\ run[0] = <<>>
      /\ \A i \in 1 .. Len(q) : run[i] = IF i \in S THEN run[i - 1] ELSE Append(run[i - 1], q[i])
      /\ Without(q, S) = run[Len(q)]
  BY <1>0 DEF KeepRun
<1>2. Len(q) \in Nat /\ DOMAIN q = 1 .. Len(q)
  OBVIOUS
<1>. DEFINE P == {i \in 0 .. Len(q) : Queued(run[i]) = {q[j] : j \in 1 .. i \ S}}
<1>3. 0 \in P
  <2>1. 1 .. 0 = {}
    OBVIOUS
  <2>. QED
    BY <1>1, <1>2, <2>1, QueuedSmall
<1>4. ASSUME NEW i \in 1 .. Len(q), i - 1 \in P PROVE i \in P
  <2>1. i \in 0 .. Len(q) /\ i - 1 \in 0 .. Len(q) /\ run[i - 1] \in Seq(F) /\ q[i] \in F
    BY <1>1, <1>2
  <2>2. 1 .. i = 1 .. (i - 1) \cup {i}
    OBVIOUS
  <2>3. Queued(run[i - 1]) = {q[j] : j \in 1 .. (i - 1) \ S}
    BY <1>4
  <2>4. CASE i \in S
    <3>1. 1 .. i \ S = 1 .. (i - 1) \ S
      BY <2>2, <2>4
    <3>2. run[i] = run[i - 1]
      BY <1>1, <2>4
    <3>. QED
      BY <2>1, <2>3, <3>1, <3>2
  <2>5. CASE i \notin S
    <3>1. 1 .. i \ S = (1 .. (i - 1) \ S) \cup {i}
      BY <2>2, <2>5
    <3>2. run[i] = Append(run[i - 1], q[i])
      BY <1>1, <2>5
    <3>3. Queued(run[i]) = Queued(run[i - 1]) \cup {q[i]}
      BY <2>1, <3>2, QueuedFacts
    <3>. QED
      BY <2>1, <2>3, <3>1, <3>3
  <2>. QED
    BY <2>4, <2>5
<1>. HIDE DEF P
<1>5. \A i \in 0 .. Len(q) : i \in P
  BY <1>2, <1>3, <1>4, UpTo
<1>6. Len(q) \in P
  BY <1>2, <1>5
<1>. QED
  BY <1>1, <1>2, <1>6 DEF P

-----------------------------------------------------------------------------
(* What routing does, whatever the order of its steps. *)

Stored(r) == Queued(r.pending) \cup Fails(r.failed)
Shut(x)   == x \notin {"unsent", "none"}

\* An entry for the answer to one of the frames G: it stands for no inbox file, or
\* for those of an inbox message or of a batch that is new.
NewAck(a, G) ==
    \E g \in G : /\ a.id = g.id
                 /\ \/ a.files = {}
                    \/ /\ a.files = g.body
                       /\ g.id.of # "live"
                       /\ g.id.of = "batch" => g.id.key = batches

Untouched(r, G, m) == \A f \in Stored(r) \cup G : m \notin f.body

\* The message is stored, in the socket, in the inbox or closed, or in one of the
\* frames G that is not its own.
Safe(r, m, G) ==
    \/ Live(m) \in Stored(r) \cup Queued(r.wire)
    \/ r.box[m] \in {"new", "tierNew"}
    \/ Shut(r.fate[m])
    \/ \E g \in G : g # Live(m) /\ m \in g.body

\* Files stay in the inbox unless their message is closed; nothing happens to a
\* message that is neither handled nor stored nor in the inbox.
MovedOne(r, t, G, m) ==
    /\ t.fate[m] = r.fate[m] \/ Shut(t.fate[m])
    /\ r.box[m] = "new" => t.box[m] = "new" \/ Shut(t.fate[m])
    /\ r.box[m] = "tierNew" => t.box[m] \in {"new", "tierNew"} \/ Shut(t.fate[m])
    /\ Untouched(r, G, m) /\ r.box[m] # "new" => t.box[m] = r.box[m] /\ t.fate[m] = r.fate[m]
    /\ Safe(r, m, G) => Safe(t, m, G)

\* From r to t the frames G were handled, those in R as retries.
Moved(r, t, G, R) ==
    /\ Queued(t.pending) \subseteq Stored(r) \cup G
    /\ Fails(t.failed) \subseteq Fails(r.failed) \cup R
    /\ Queued(r.wire) \subseteq Queued(t.wire)
    /\ Queued(t.wire) \subseteq Queued(r.wire) \cup G
    /\ \/ t.inflight = r.inflight
       \/ t.inflight \in G /\ (shim = "gone" \/ t.inflight \in Queued(t.wire))
    /\ \A a \in t.acks : a \in r.acks \/ NewAck(a, G)
    /\ \A a \in r.acks : \E b \in t.acks : b.id = a.id
    /\ \A f \in Queued(t.wire) : f \in Queued(r.wire) \cup R \/ \E a \in t.acks : a.id = f.id
    /\ \A m \in Msgs : MovedOne(r, t, G, m)

\* Two pieces of routing code, one after the other, are one.
LEMMA MovedAgain ==
    ASSUME NEW r, NEW s, NEW t, NEW G, NEW R \in SUBSET G, Moved(r, s, G, R), Moved(s, t, G, R)
    PROVE  Moved(r, t, G, R)
<1>1. Stored(s) \subseteq Stored(r) \cup G /\ Stored(t) \subseteq Stored(s) \cup G
  BY DEF Moved, Stored
<1>2. \A m \in Msgs : Untouched(r, G, m) => Untouched(s, G, m)
  BY <1>1 DEF Untouched
<1>3. ASSUME NEW m \in Msgs PROVE MovedOne(r, t, G, m)
  <2>1. MovedOne(r, s, G, m) /\ MovedOne(s, t, G, m)
    BY DEF Moved
  <2>. QED
    BY <1>2, <2>1 DEF MovedOne, Shut
<1>4. \A a \in t.acks : a \in r.acks \/ NewAck(a, G)
  BY DEF Moved
<1>5. \A a \in r.acks : \E b \in t.acks : b.id = a.id
  <2>1. /\ \A a \in r.acks : \E b \in s.acks : b.id = a.id
        /\ \A a \in s.acks : \E b \in t.acks : b.id = a.id
    BY DEF Moved
  <2>. QED
    BY <2>1
<1>6. \A f \in Queued(t.wire) : f \in Queued(r.wire) \cup R \/ \E a \in t.acks : a.id = f.id
  <2>1. /\ \A f \in Queued(s.wire) : f \in Queued(r.wire) \cup R \/ \E a \in s.acks : a.id = f.id
        /\ \A f \in Queued(t.wire) : f \in Queued(s.wire) \cup R \/ \E a \in t.acks : a.id = f.id
        /\ \A a \in s.acks : \E b \in t.acks : b.id = a.id
    BY DEF Moved
  <2>. QED
    BY <2>1
<1>7. /\ Queued(t.pending) \subseteq Stored(r) \cup G
      /\ Fails(t.failed) \subseteq Fails(r.failed) \cup R
      /\ Queued(r.wire) \subseteq Queued(t.wire)
      /\ Queued(t.wire) \subseteq Queued(r.wire) \cup G
      /\ \/ t.inflight = r.inflight
         \/ t.inflight \in G /\ (shim = "gone" \/ t.inflight \in Queued(t.wire))
  BY <1>1 DEF Moved
<1>. QED
  BY <1>3, <1>4, <1>5, <1>6, <1>7 DEF Moved

\* The frame rule: what does not depend on the fields that changed.
LEMMA MovedSame ==
    ASSUME NEW r, NEW s, NEW t, NEW G, NEW R, Moved(r, s, G, R),
           t.pending = s.pending, t.failed = s.failed, t.wire = s.wire, t.inflight = s.inflight,
           t.acks = s.acks, t.box = s.box, t.fate = s.fate
    PROVE  Moved(r, t, G, R)
BY DEF Moved, MovedOne, Safe, Stored

\* Routing code that changes no frame, entry or message does nothing.
LEMMA MovedNot ==
    ASSUME NEW r, NEW t, NEW G, NEW R,
           t.pending = r.pending, t.failed = r.failed, t.wire = r.wire, t.inflight = r.inflight,
           t.acks = r.acks, t.box = r.box, t.fate = r.fate
    PROVE  Moved(r, t, G, R)
BY DEF Moved, MovedOne, Safe, Stored

\* send_message_with_id, of a retry or to a shim that is gone.
LEMMA SendCommandMoved ==
    ASSUME NEW r \in Records, NEW G \in SUBSET Frame, NEW R \in SUBSET G, NEW f \in G,
           f \in R \/ shim = "gone"
    PROVE  LET t == SendCommand(r, f)
           IN  Moved(r, t, G, R) /\ (t.ok => f \in Queued(t.wire))
<1>. DEFINE t == SendCommand(r, f)
<1>1. /\ t.pending = r.pending /\ t.failed = r.failed /\ t.acks = r.acks /\ t.box = r.box
      /\ t.fate = r.fate /\ t.inflight = f /\ t.ok = (shim # "gone")
      /\ t.wire = IF shim = "gone" THEN r.wire ELSE Append(r.wire, f)
  BY DEF SendCommand, Records
<1>2. r.wire \in Seq(Frame \cup {NoFrame}) /\ f \in Frame \cup {NoFrame}
  BY DEF Records
<1>. HIDE DEF t
<1>3. shim # "gone" => Queued(t.wire) = Queued(r.wire) \cup {f}
  BY <1>1, <1>2, QueuedFacts
<1>4. Moved(r, t, G, R)
  BY <1>1, <1>3 DEF Moved, MovedOne, Safe, Stored
<1>. QED
  BY <1>1, <1>3, <1>4 DEF t

\* send_live_shim_message.
LEMMA SendLiveMoved ==
    ASSUME NEW r \in Records, NEW G \in SUBSET Frame, NEW R \in SUBSET G, NEW f \in G, NEW files,
           \/ files = {}
           \/ files = f.body /\ f.id.of # "live" /\ (f.id.of = "batch" => f.id.key = batches)
    PROVE  LET t == SendLive(r, f, files)
           IN  /\ Moved(r, t, G, R)
               /\ t.ok = (shim # "gone")
               /\ t.ok => f \in Queued(t.wire)
<1>. DEFINE t == SendLive(r, f, files)
            a == [id |-> f.id, files |-> files]
<1>1. /\ t.pending = r.pending /\ t.failed = r.failed /\ t.box = r.box
      /\ t.fate = r.fate /\ t.inflight = f /\ t.ok = (shim # "gone")
      /\ t.wire = IF shim = "gone" THEN r.wire ELSE Append(r.wire, f)
      /\ t.acks = IF shim = "gone" THEN r.acks ELSE {b \in r.acks : b.id # f.id} \cup {a}
  BY DEF SendLive, SendCommand, Records
<1>2. r.wire \in Seq(Frame \cup {NoFrame}) /\ f \in Frame \cup {NoFrame}
  BY DEF Records
<1>3. a.id = f.id /\ NewAck(a, G)
  BY DEF NewAck
<1>. HIDE DEF t, a
<1>4. shim # "gone" => Queued(t.wire) = Queued(r.wire) \cup {f}
  BY <1>1, <1>2, QueuedFacts
<1>5. \A b \in t.acks : b \in r.acks \/ NewAck(b, G)
  BY <1>1, <1>3
<1>6. \A b \in r.acks : \E c \in t.acks : c.id = b.id
  BY <1>1, <1>3
<1>7. \A g \in Queued(t.wire) : g \in Queued(r.wire) \cup R \/ \E b \in t.acks : b.id = g.id
  BY <1>1, <1>3, <1>4
<1>8. \A m \in Msgs : MovedOne(r, t, G, m)
  BY <1>1, <1>4 DEF MovedOne, Safe, Stored
<1>9. Moved(r, t, G, R)
  BY <1>1, <1>4, <1>5, <1>6, <1>7, <1>8 DEF Moved, Stored
<1>. QED
  BY <1>1, <1>4, <1>9 DEF t

\* Closing messages that are handled, stored or in the inbox.
LEMMA ClosedMoved ==
    ASSUME NEW r \in Records, NEW G, NEW R, NEW S, NEW why \in Fates, Shut(why),
           \A m \in S \cap Msgs : ~ Untouched(r, G, m) \/ r.box[m] = "new"
    PROVE  LET t == Closed(r, S, why)
           IN  /\ Moved(r, t, G, R)
               /\ t.ok = r.ok
               /\ \A m \in S \cap Msgs : Shut(t.fate[m])
<1>. DEFINE t == Closed(r, S, why)
<1>1. /\ t.pending = r.pending /\ t.failed = r.failed /\ t.acks = r.acks /\ t.box = r.box
      /\ t.inflight = r.inflight /\ t.ok = r.ok /\ t.wire = r.wire
      /\ t.fate = [m \in Msgs |-> IF m \in S /\ r.fate[m] # "logged" THEN why ELSE r.fate[m]]
  BY DEF Closed, Records
<1>. HIDE DEF t
<1>2. \A m \in Msgs : t.fate[m] = r.fate[m] \/ Shut(t.fate[m])
  BY <1>1
<1>3. \A m \in Msgs : m \notin S => t.fate[m] = r.fate[m]
  BY <1>1
<1>4. \A m \in S \cap Msgs : Shut(t.fate[m])
  BY <1>1 DEF Shut
<1>5. \A m \in Msgs : MovedOne(r, t, G, m)
  BY <1>1, <1>2, <1>3 DEF MovedOne, Safe, Stored
<1>6. Moved(r, t, G, R)
  BY <1>1, <1>5 DEF Moved, Stored
<1>. QED
  BY <1>1, <1>4, <1>6 DEF t

\* deliver_flag_aware, of messages that are handled.
LEMMA InboxFallbackMoved ==
    ASSUME NEW r \in Records, NEW G, NEW R, NEW S, NEW io \in BOOLEAN,
           \A m \in S \cap Msgs : ~ Untouched(r, G, m)
    PROVE  LET t == InboxFallback(r, S, io)
           IN  /\ Moved(r, t, G, R)
               /\ t.ok = ~io
               /\ t.ok => \A m \in S \cap Msgs : t.box[m] \in {"new", "tierNew"}
<1>. DEFINE t == InboxFallback(r, S, io)
<1>1. /\ t.pending = r.pending /\ t.failed = r.failed /\ t.acks = r.acks /\ t.fate = r.fate
      /\ t.inflight = r.inflight /\ t.ok = ~io /\ t.wire = r.wire
      /\ t.box = [m \in Msgs |-> IF m \in S /\ ~io /\ r.box[m] # "new"
                                   THEN IF Tiered THEN "tierNew" ELSE "new" ELSE r.box[m]]
  BY DEF InboxFallback, Records
<1>. HIDE DEF t
<1>2. \A m \in Msgs : t.box[m] = r.box[m] \/ (m \in S /\ r.box[m] # "new" /\ t.box[m] \in {"new", "tierNew"})
  BY <1>1
<1>3. ~io => \A m \in S \cap Msgs : t.box[m] \in {"new", "tierNew"}
  BY <1>1
<1>4. ASSUME NEW m \in Msgs PROVE MovedOne(r, t, G, m)
  BY <1>1, <1>2 DEF MovedOne, Safe, Stored
<1>5. Moved(r, t, G, R)
  BY <1>1, <1>4 DEF Moved, Stored
<1>. QED
  BY <1>1, <1>3, <1>5 DEF t

\* queue_pending_message_capped: what it replaces is closed.
LEMMA QueueCappedMoved ==
    ASSUME NEW r \in Records, NEW G \in SUBSET Frame, NEW R, NEW f \in G
    PROVE  LET t == QueueCapped(r, f)
           IN  Moved(r, t, G, R) /\ t.ok = r.ok /\ f \in Stored(t)
<1>. DEFINE old == {i \in DOMAIN r.pending : KeyOf(f) # None /\ KeyOf(r.pending[i]) = KeyOf(f)}
            S == (UNION {r.pending[i].body : i \in old}) \ f.body
            t == QueueCapped(r, f)
<1>1. r.pending \in Seq(Frame) /\ f \in Frame
  BY DEF Records
<1>2. CASE Cardinality(old) >= SameTaskCap
  <2>1. t = Closed([r EXCEPT !.pending = Append(Without(r.pending, old), f)], S, "superseded")
    BY <1>2 DEF QueueCapped, Records
  <2>2. /\ t.pending = Append(Without(r.pending, old), f) /\ t.failed = r.failed /\ t.acks = r.acks
        /\ t.box = r.box /\ t.inflight = r.inflight /\ t.ok = r.ok /\ t.wire = r.wire
        /\ t.fate = [m \in Msgs |-> IF m \in S /\ r.fate[m] # "logged" THEN "superseded" ELSE r.fate[m]]
    BY <2>1 DEF Closed, Records
  <2>3. Queued(t.pending) = {r.pending[i] : i \in DOMAIN r.pending \ old} \cup {f}
    <3>1. Without(r.pending, old) \in Seq(Frame)
      BY <1>1, WithoutType
    <3>2. Queued(Without(r.pending, old)) = {r.pending[i] : i \in DOMAIN r.pending \ old}
      BY <1>1, QueuedWithout
    <3>. HIDE DEF old, t
    <3>. QED
      BY <1>1, <2>2, <3>1, <3>2, QueuedFacts
  <2>4. Queued(r.pending) = {r.pending[i] : i \in DOMAIN r.pending}
    BY DEF Queued
  <2>5. Queued(t.pending) \subseteq Queued(r.pending) \cup G /\ f \in Queued(t.pending)
    BY <2>3, <2>4
  <2>. HIDE DEF t
  <2>6. ASSUME NEW m \in Msgs, Live(m) \in Stored(r)
        PROVE  Live(m) \in Stored(t) \/ Shut(t.fate[m]) \/ (f # Live(m) /\ m \in f.body)
    <3>1. CASE Live(m) \in Fails(r.failed)
      BY <2>2, <3>1 DEF Stored
    <3>2. CASE \E i \in DOMAIN r.pending \ old : Live(m) = r.pending[i]
      BY <2>3, <3>2 DEF Stored
    <3>3. CASE \E i \in old : Live(m) = r.pending[i]
      <4>1. m \in Live(m).body
        BY DEF Live
      <4>2. CASE m \in f.body
        BY <2>5, <4>2 DEF Stored
      <4>3. CASE m \notin f.body
        <5>0. PICK i \in old : Live(m) = r.pending[i]
          BY <3>3
        <5>1. m \in r.pending[i].body
          BY <4>1, <5>0
        <5>. HIDE DEF old
        <5>2. m \in S
          <6>1. r.pending[i].body \in {r.pending[j].body : j \in old}
            BY <5>0
          <6>2. m \in UNION {r.pending[j].body : j \in old}
            BY <5>1, <6>1
          <6>. QED
            BY <4>3, <6>2
        <5>. HIDE DEF S
        <5>. QED
          BY <2>2, <5>2 DEF Shut
      <4>. QED
        BY <4>2, <4>3
    <3>. QED
      BY <2>4, <2>6, <3>1, <3>2, <3>3 DEF Stored
  <2>7. \A m \in S : ~ Untouched(r, G, m)
    BY <2>4 DEF Untouched, Stored
  <2>. HIDE DEF S
  <2>8. ASSUME NEW m \in Msgs PROVE MovedOne(r, t, G, m)
    <3>1. t.fate[m] = r.fate[m] \/ Shut(t.fate[m])
      BY <2>2 DEF Shut
    <3>2. Untouched(r, G, m) => t.fate[m] = r.fate[m]
      BY <2>2, <2>7
    <3>3. Safe(r, m, G) => Safe(t, m, G)
      BY <2>2, <2>6, <3>1 DEF Safe, Shut
    <3>. QED
      BY <2>2, <3>1, <3>2, <3>3 DEF MovedOne
  <2>9. Moved(r, t, G, R)
    BY <2>2, <2>5, <2>8 DEF Moved, Stored
  <2>. QED
    BY <2>2, <2>5, <2>9 DEF Stored, t
<1>3. CASE ~ (Cardinality(old) >= SameTaskCap)
  <2>1. t = [r EXCEPT !.pending = Append(r.pending, f)]
    BY <1>3 DEF QueueCapped, Records
  <2>2. /\ t.pending = Append(r.pending, f) /\ t.failed = r.failed /\ t.acks = r.acks
        /\ t.box = r.box /\ t.inflight = r.inflight /\ t.ok = r.ok /\ t.wire = r.wire
        /\ t.fate = r.fate
    BY <2>1 DEF Records
  <2>. HIDE DEF t
  <2>3. Queued(t.pending) = Queued(r.pending) \cup {f}
    BY <1>1, <2>2, QueuedFacts
  <2>4. \A m \in Msgs : MovedOne(r, t, G, m)
    BY <2>2, <2>3 DEF MovedOne, Safe, Stored
  <2>5. Moved(r, t, G, R)
    BY <2>2, <2>3, <2>4 DEF Moved, Stored
  <2>. QED
    BY <2>2, <2>3, <2>5 DEF Stored, t
<1>. QED
  BY <1>2, <1>3

\* deliver_message_with_id: unless an I/O error ends it, the message is somewhere.
LEMMA RouteMoved ==
    ASSUME NEW r \in Records, NEW G \in SUBSET Frame, NEW R \in SUBSET G, NEW f \in G, NEW io \in BOOLEAN
    PROVE  LET t == Route(r, f, io)
           IN  /\ Moved(r, t, G, R)
               /\ r.ok /\ ~io => t.ok
               /\ t.ok => \A m \in f.body : Safe(t, m, G)
<1>. DEFINE t == Route(r, f, io)
            s == SendLive(r, f, {})
<1>1. f \in Frame /\ f.body \subseteq Msgs
  BY FrameTypes
<1>2. \A x \in Records : \A m \in f.body : ~ Untouched(x, G, m)
  BY DEF Untouched
<1>3. \A x : \A m \in f.body : f # Live(m) => Safe(x, m, G)
  BY DEF Safe
<1>4. CASE f.id.of # "batch" /\ f.body \subseteq stale
  <2>1. t = Closed(r, f.body, "logged")
    BY <1>4 DEF Route
  <2>. HIDE DEF t
  <2>2. "logged" \in Fates /\ Shut("logged")
    BY DEF Fates, Shut
  <2>3. Moved(r, t, G, R) /\ t.ok = r.ok /\ \A m \in f.body \cap Msgs : Shut(t.fate[m])
    BY <1>2, <2>1, <2>2, ClosedMoved
  <2>. QED
    BY <1>1, <2>3 DEF Safe, t
<1>5. CASE ~ (f.id.of # "batch" /\ f.body \subseteq stale) /\ IsReady(r.handle)
  <2>1. t = IF s.ok THEN s ELSE InboxFallback(s, f.body, io)
    BY <1>5 DEF Route
  <2>2. s \in Records
    BY <1>1, SendLiveType
  <2>3. Moved(r, s, G, R) /\ (s.ok => f \in Queued(s.wire))
    BY SendLiveMoved
  <2>. HIDE DEF s, t
  <2>4. CASE s.ok
    BY <1>3, <2>1, <2>3, <2>4 DEF Safe, t
  <2>5. CASE ~ s.ok
    <3>1. /\ Moved(s, t, G, R) /\ t.ok = ~io
          /\ t.ok => \A m \in f.body \cap Msgs : t.box[m] \in {"new", "tierNew"}
      BY <1>2, <2>1, <2>2, <2>5, InboxFallbackMoved
    <3>2. Moved(r, t, G, R)
      BY <2>3, <3>1, MovedAgain
    <3>. QED
      BY <1>1, <3>1, <3>2 DEF Safe, t
  <2>. QED
    BY <2>4, <2>5
<1>6. CASE ~ (f.id.of # "batch" /\ f.body \subseteq stale) /\ ~ IsReady(r.handle) /\ r.handle \notin Terminal
  <2>1. t = QueueCapped(r, f)
    BY <1>6 DEF Route
  <2>. HIDE DEF t
  <2>2. Moved(r, t, G, R) /\ t.ok = r.ok /\ f \in Stored(t)
    BY <2>1, QueueCappedMoved
  <2>. QED
    BY <1>3, <2>2 DEF Safe, t
<1>7. CASE ~ (f.id.of # "batch" /\ f.body \subseteq stale) /\ ~ IsReady(r.handle) /\ r.handle \in Terminal
  <2>1. t = InboxFallback(r, f.body, io)
    BY <1>7 DEF Route
  <2>. HIDE DEF t
  <2>2. /\ Moved(r, t, G, R) /\ t.ok = ~io
        /\ t.ok => \A m \in f.body \cap Msgs : t.box[m] \in {"new", "tierNew"}
    BY <1>2, <2>1, InboxFallbackMoved
  <2>. QED
    BY <1>1, <2>2 DEF Safe, t
<1>. QED
  BY <1>4, <1>5, <1>6, <1>7

\* drain_pending_queue: unless an I/O error ends it, what was stored is still
\* somewhere.
LEMMA DrainMoved ==
    ASSUME NEW r \in Records, r.ok, NEW io \in BOOLEAN
    PROVE  LET t == Drain(r, io)
               G == Queued(r.pending)
           IN  /\ Moved([r EXCEPT !.pending = <<>>], t, G, {})
               /\ ~io => t.ok
               /\ t.ok => \A m \in Msgs : Live(m) \in Stored(r) => Safe(t, m, G)
<1>. DEFINE t == Drain(r, io)
            G == Queued(r.pending)
            b == [r EXCEPT !.pending = <<>>]
            n == Len(r.pending)
<1>1. PICK run \in [0 .. n -> Records] : DrainSteps(run, r, io) /\ t = run[n]
  BY DrainRun
<1>2. /\ run[0] = b
      /\ \A i \in 1 .. n : run[i] = IF run[i - 1].ok THEN Route(run[i - 1], r.pending[i], io) ELSE run[i - 1]
  BY <1>1 DEF DrainSteps
<1>3. /\ n \in Nat /\ r.pending \in Seq(Frame) /\ G \in SUBSET Frame /\ {} \in SUBSET G
      /\ G = {r.pending[i] : i \in 1 .. n} /\ \A i \in 1 .. n : r.pending[i] \in G
  <2>1. r.pending \in Seq(Frame)
    BY DEF Records
  <2>2. n \in Nat /\ DOMAIN r.pending = 1 .. n
    BY <2>1
  <2>. QED
    BY <2>1, <2>2, QueuedFacts DEF Queued
<1>4. b.ok /\ b.failed = r.failed
  BY DEF Records
<1>. DEFINE Kept(i) == run[i].ok => \A j \in 1 .. i, m \in Msgs : Live(m) = r.pending[j] => Safe(run[i], m, G)
            P == {i \in 0 .. n : Moved(b, run[i], G, {}) /\ (~io => run[i].ok) /\ Kept(i)}
<1>. HIDE DEF t, G, b, n
<1>5. 0 \in P
  <2>1. Moved(b, b, G, {})
    BY MovedNot
  <2>2. 0 \in 0 .. n /\ \A j \in 1 .. 0 : FALSE
    BY <1>3
  <2>. QED
    BY <1>2, <1>4, <2>1, <2>2
<1>6. ASSUME NEW i \in 1 .. n, i - 1 \in P PROVE i \in P
  <2>1. /\ i \in 0 .. n /\ i - 1 \in 0 .. n /\ run[i - 1] \in Records
        /\ \A j \in 1 .. i : j \in 1 .. (i - 1) \/ j = i
    BY <1>1, <1>3
  <2>2. Moved(b, run[i - 1], G, {}) /\ (~io => run[i - 1].ok) /\ Kept(i - 1)
    BY <1>6
  <2>3. CASE ~ run[i - 1].ok
    BY <1>2, <2>1, <2>2, <2>3
  <2>4. CASE run[i - 1].ok
    <3>1. run[i] = Route(run[i - 1], r.pending[i], io)
      BY <1>2, <2>4
    <3>2. /\ Moved(run[i - 1], run[i], G, {})
          /\ run[i - 1].ok /\ ~io => run[i].ok
          /\ run[i].ok => \A m \in r.pending[i].body : Safe(run[i], m, G)
      <4>1. /\ run[i - 1] \in Records /\ G \in SUBSET Frame /\ {} \in SUBSET G
            /\ r.pending[i] \in G /\ io \in BOOLEAN
        BY <1>3, <2>1
      <4>. QED
        BY <3>1, <4>1, RouteMoved
    <3>3. Moved(b, run[i], G, {})
      BY <1>3, <2>2, <3>2, MovedAgain
    <3>4. \A m \in Msgs : Safe(run[i - 1], m, G) => Safe(run[i], m, G)
      BY <3>2 DEF Moved, MovedOne
    <3>5. \A m \in Msgs : m \in Live(m).body
      BY DEF Live
    <3>6. Kept(i)
      BY <2>1, <2>2, <2>4, <3>2, <3>4, <3>5
    <3>. HIDE DEF Kept
    <3>. QED
      BY <2>1, <2>4, <3>2, <3>3, <3>6
  <2>. QED
    BY <2>3, <2>4
<1>. HIDE DEF P
<1>7. \A i \in 0 .. n : i \in P
  BY <1>3, <1>5, <1>6, UpTo
<1>8. n \in P /\ n \in 0 .. n
  BY <1>3, <1>7
<1>9. Moved(b, t, G, {}) /\ (~io => t.ok) /\ Kept(n)
  BY <1>1, <1>8 DEF P
<1>10. ASSUME t.ok, NEW m \in Msgs, Live(m) \in Stored(r) PROVE Safe(t, m, G)
  <2>1. CASE Live(m) \in G
    BY <1>1, <1>3, <1>9, <1>10, <2>1
  <2>2. CASE Live(m) \in Fails(r.failed)
    <3>1. Safe(b, m, G)
      BY <1>4, <2>2 DEF Safe, Stored
    <3>. QED
      BY <1>9, <3>1 DEF Moved, MovedOne
  <2>. QED
    BY <1>10, <2>1, <2>2 DEF Stored, G
<1>. QED
  BY <1>9, <1>10 DEF t, G, b

\* retry_failed_deliveries, for one delivery.
LEMMA RetryOneMoved ==
    ASSUME NEW r \in Records, NEW G \in SUBSET Frame, NEW e \in Failures, e.frame \in G, NEW io \in BOOLEAN
    PROVE  LET t == RetryOne(r, e, io)
           IN  /\ Moved(r, t, G, G)
               /\ r.ok /\ ~io => t.ok
               /\ t.ok => \A m \in e.frame.body : Safe(t, m, G)
<1>. DEFINE t == RetryOne(r, e, io)
            s == SendCommand(r, e.frame)
            d == [e EXCEPT !.attempts = e.attempts + 1]
            s1 == [s EXCEPT !.failed = Append(@, d), !.ok = TRUE]
<1>1. e.frame \in Frame /\ e.frame.body \subseteq Msgs /\ d.frame = e.frame
  BY FrameTypes DEF Failures
<1>2. s \in Records
  BY <1>1, SendCommandType
<1>3. Moved(r, s, G, G) /\ (s.ok => e.frame \in Queued(s.wire))
  <2>1. G \in SUBSET G
    OBVIOUS
  <2>. QED
    BY <1>1, <2>1, SendCommandMoved
<1>4. \A x : \A m \in e.frame.body : e.frame # Live(m) => Safe(x, m, G)
  BY DEF Safe
<1>5. ASSUME NEW x \in Records, NEW y, NEW z, z.frame = e.frame, y.pending = x.pending, y.wire = x.wire,
             y.inflight = x.inflight, y.acks = x.acks, y.box = x.box, y.fate = x.fate,
             y.failed = Append(x.failed, z)
      PROVE  Moved(x, y, G, G) /\ e.frame \in Stored(y)
  <2>. DEFINE U == Failures \cup {z}
  <2>1. x.failed \in Seq(Failures)
    BY DEF Records
  <2>2. x.failed \in Seq(U) /\ z \in U
    BY <2>1
  <2>. HIDE DEF U
  <2>3. Queued(y.failed) = Queued(x.failed) \cup {z}
    BY <1>5, <2>2, QueuedFacts
  <2>4. Fails(y.failed) = Fails(x.failed) \cup {e.frame}
    BY <1>5, <2>3 DEF Fails
  <2>5. \A m \in Msgs : MovedOne(x, y, G, m)
    BY <1>5, <2>4 DEF MovedOne, Safe, Stored
  <2>. QED
    BY <1>5, <2>4, <2>5 DEF Moved, Stored
<1>6. CASE ~ MemberReady(r.handle)
  <2>1. t = [r EXCEPT !.failed = Append(r.failed, e)]
    BY <1>6 DEF RetryOne, Records
  <2>2. /\ t.pending = r.pending /\ t.failed = Append(r.failed, e) /\ t.acks = r.acks /\ t.fate = r.fate
        /\ t.inflight = r.inflight /\ t.ok = r.ok /\ t.wire = r.wire /\ t.box = r.box
    BY <2>1 DEF Records
  <2>. HIDE DEF t
  <2>3. Moved(r, t, G, G) /\ e.frame \in Stored(t)
    BY <1>5, <2>2
  <2>. QED
    BY <1>4, <2>2, <2>3 DEF Safe, t
<1>7. CASE MemberReady(r.handle) /\ s.ok
  <2>1. t = [s EXCEPT !.handle = "Working"]
    BY <1>7 DEF RetryOne
  <2>. HIDE DEF s
  <2>2. /\ t.pending = s.pending /\ t.failed = s.failed /\ t.acks = s.acks /\ t.fate = s.fate
        /\ t.inflight = s.inflight /\ t.ok = s.ok /\ t.wire = s.wire /\ t.box = s.box
    BY <1>2, <2>1 DEF Records
  <2>. HIDE DEF t
  <2>3. Moved(r, t, G, G)
    BY <1>3, <2>2, MovedSame
  <2>. QED
    BY <1>3, <1>4, <1>7, <2>2, <2>3 DEF Safe, t
<1>8. CASE MemberReady(r.handle) /\ ~ s.ok /\ e.attempts + 1 < MaxAttempts
  <2>1. t = [s EXCEPT !.failed = Append(s.failed, d), !.ok = TRUE]
    BY <1>2, <1>8 DEF RetryOne, Records
  <2>. HIDE DEF s, d
  <2>2. /\ t.pending = s.pending /\ t.failed = Append(s.failed, d) /\ t.acks = s.acks /\ t.fate = s.fate
        /\ t.inflight = s.inflight /\ t.ok /\ t.wire = s.wire /\ t.box = s.box
    BY <1>2, <2>1 DEF Records
  <2>. HIDE DEF t
  <2>3. Moved(s, t, G, G) /\ e.frame \in Stored(t)
    BY <1>1, <1>2, <1>5, <2>2
  <2>4. Moved(r, t, G, G)
    BY <1>3, <2>3, MovedAgain
  <2>. QED
    BY <1>4, <2>2, <2>3, <2>4 DEF Safe, t
<1>9. CASE MemberReady(r.handle) /\ ~ s.ok /\ ~ (e.attempts + 1 < MaxAttempts) /\ io
  <2>1. t = s
    BY <1>9 DEF RetryOne
  <2>. HIDE DEF s, t
  <2>. QED
    BY <1>3, <1>9, <2>1 DEF t
<1>10. CASE MemberReady(r.handle) /\ ~ s.ok /\ ~ (e.attempts + 1 < MaxAttempts) /\ ~ io
  <2>. DEFINE s2 == [s EXCEPT !.ok = TRUE]
  <2>1. t = Closed(s2, e.frame.body, "escalated")
    BY <1>10 DEF RetryOne
  <2>. HIDE DEF s
  <2>2. /\ s2 \in Records /\ s2.pending = s.pending /\ s2.failed = s.failed /\ s2.acks = s.acks
        /\ s2.fate = s.fate /\ s2.inflight = s.inflight /\ s2.ok /\ s2.wire = s.wire /\ s2.box = s.box
    BY <1>2 DEF Records
  <2>. HIDE DEF s2, t
  <2>3. Moved(r, s2, G, G)
    BY <1>3, <2>2, MovedSame
  <2>4. "escalated" \in Fates /\ Shut("escalated") /\ \A m \in e.frame.body : ~ Untouched(s2, G, m)
    BY DEF Fates, Shut, Untouched
  <2>5. Moved(s2, t, G, G) /\ t.ok = s2.ok /\ \A m \in e.frame.body \cap Msgs : Shut(t.fate[m])
    BY <2>1, <2>2, <2>4, ClosedMoved
  <2>6. Moved(r, t, G, G)
    BY <2>3, <2>5, MovedAgain
  <2>. QED
    BY <1>1, <2>2, <2>5, <2>6 DEF Safe, t
<1>. QED
  BY <1>6, <1>7, <1>8, <1>9, <1>10

\* retry_failed_deliveries: unless an I/O error ends it, what was stored is still
\* somewhere.
LEMMA RetryMoved ==
    ASSUME NEW r \in Records, r.ok, NEW due, NEW io \in BOOLEAN
    PROVE  LET t == RetryEach(r, due, io)
               G == Fails(r.failed)
           IN  /\ Moved([r EXCEPT !.failed = <<>>], t, G, G)
               /\ ~io => t.ok
               /\ t.ok => \A m \in Msgs : Live(m) \in Stored(r) => Safe(t, m, G)
<1>. DEFINE t == RetryEach(r, due, io)
            G == Fails(r.failed)
            b == [r EXCEPT !.failed = <<>>]
            n == Len(r.failed)
<1>1. PICK run \in [0 .. n -> Records] : RetrySteps(run, r, due, io) /\ t = run[n]
  BY RetryRun
<1>2. /\ run[0] = b
      /\ \A i \in 1 .. n : run[i] = IF ~run[i - 1].ok THEN run[i - 1]
                                    ELSE IF i \in due THEN RetryOne(run[i - 1], r.failed[i], io)
                                    ELSE [run[i - 1] EXCEPT !.failed = Append(@, r.failed[i])]
  BY <1>1 DEF RetrySteps
<1>3. /\ n \in Nat /\ r.failed \in Seq(Failures) /\ G \in SUBSET Frame
      /\ G = {r.failed[i].frame : i \in 1 .. n}
      /\ \A i \in 1 .. n : r.failed[i] \in Failures /\ r.failed[i].frame \in G
  <2>1. r.failed \in Seq(Failures)
    BY DEF Records
  <2>2. n \in Nat /\ DOMAIN r.failed = 1 .. n /\ \A i \in 1 .. n : r.failed[i] \in Failures
    BY <2>1
  <2>3. G = {r.failed[i].frame : i \in 1 .. n}
    BY <2>2 DEF Queued, Fails
  <2>4. \A e \in Failures : e.frame \in Frame
    BY DEF Failures
  <2>. HIDE DEF G, n
  <2>. QED
    BY <2>1, <2>2, <2>3, <2>4
<1>4. b.ok /\ b.pending = r.pending
  BY DEF Records
<1>. DEFINE Kept(i) == run[i].ok => \A j \in 1 .. i, m \in Msgs : Live(m) = r.failed[j].frame => Safe(run[i], m, G)
            P == {i \in 0 .. n : Moved(b, run[i], G, G) /\ (~io => run[i].ok) /\ Kept(i)}
<1>. HIDE DEF t, G, b, n
<1>5. 0 \in P
  <2>1. Moved(b, b, G, G)
    BY MovedNot
  <2>2. 0 \in 0 .. n /\ \A j \in 1 .. 0 : FALSE
    BY <1>3
  <2>. QED
    BY <1>2, <1>4, <2>1, <2>2
<1>6. ASSUME NEW i \in 1 .. n, i - 1 \in P PROVE i \in P
  <2>1. /\ i \in 0 .. n /\ i - 1 \in 0 .. n /\ run[i - 1] \in Records
        /\ \A j \in 1 .. i : j \in 1 .. (i - 1) \/ j = i
    BY <1>1, <1>3
  <2>2. Moved(b, run[i - 1], G, G) /\ (~io => run[i - 1].ok) /\ Kept(i - 1)
    BY <1>6
  <2>3. CASE ~ run[i - 1].ok
    BY <1>2, <2>1, <2>2, <2>3
  <2>4. CASE run[i - 1].ok
    <3>1. /\ run[i - 1] \in Records /\ G \in SUBSET Frame /\ G \in SUBSET G
          /\ r.failed[i] \in Failures /\ r.failed[i].frame \in G
      BY <1>3, <2>1
    <3>2. /\ Moved(run[i - 1], run[i], G, G)
          /\ ~io => run[i].ok
          /\ run[i].ok => \A m \in r.failed[i].frame.body : Safe(run[i], m, G)
      <4>1. CASE i \in due
        <5>1. run[i] = RetryOne(run[i - 1], r.failed[i], io)
          BY <1>2, <2>4, <4>1
        <5>. QED
          BY <2>4, <3>1, <5>1, RetryOneMoved
      <4>2. CASE i \notin due
        <5>. DEFINE x == run[i - 1]
                    y == run[i]
                    z == r.failed[i]
        <5>1. y = [x EXCEPT !.failed = Append(@, z)]
          BY <1>2, <2>4, <4>2
        <5>2. x \in Records /\ z \in Failures /\ z.frame \in G /\ x.ok
          BY <2>4, <3>1
        <5>. HIDE DEF x, y, z
        <5>3. /\ y.pending = x.pending /\ y.wire = x.wire /\ y.inflight = x.inflight /\ y.acks = x.acks
              /\ y.box = x.box /\ y.fate = x.fate /\ y.failed = Append(x.failed, z) /\ y.ok
          BY <5>1, <5>2 DEF Records
        <5>4. x.failed \in Seq(Failures)
          BY <5>2 DEF Records
        <5>5. Queued(y.failed) = Queued(x.failed) \cup {z}
          BY <5>2, <5>3, <5>4, QueuedFacts
        <5>6. Fails(y.failed) = Fails(x.failed) \cup {z.frame}
          BY <5>5 DEF Fails
        <5>7. \A m \in Msgs : MovedOne(x, y, G, m)
          BY <5>3, <5>6 DEF MovedOne, Safe, Stored
        <5>8. Moved(x, y, G, G)
          BY <5>2, <5>3, <5>6, <5>7 DEF Moved, Stored
        <5>9. \A m \in z.frame.body : Safe(y, m, G)
          BY <5>2, <5>6 DEF Safe, Stored
        <5>. QED
          BY <5>3, <5>8, <5>9 DEF x, y, z
      <4>. QED
        BY <4>1, <4>2
    <3>3. Moved(b, run[i], G, G)
      BY <2>2, <3>1, <3>2, MovedAgain
    <3>4. \A m \in Msgs : Safe(run[i - 1], m, G) => Safe(run[i], m, G)
      BY <3>2 DEF Moved, MovedOne
    <3>5. \A m \in Msgs : m \in Live(m).body
      BY DEF Live
    <3>6. Kept(i)
      BY <2>1, <2>2, <2>4, <3>2, <3>4, <3>5
    <3>. HIDE DEF Kept
    <3>. QED
      BY <2>1, <3>2, <3>3, <3>6
  <2>. QED
    BY <2>3, <2>4
<1>. HIDE DEF P
<1>7. \A i \in 0 .. n : i \in P
  BY <1>3, <1>5, <1>6, UpTo
<1>8. n \in P /\ n \in 0 .. n
  BY <1>3, <1>7
<1>9. Moved(b, t, G, G) /\ (~io => t.ok) /\ Kept(n)
  BY <1>1, <1>8 DEF P
<1>10. ASSUME t.ok, NEW m \in Msgs, Live(m) \in Stored(r) PROVE Safe(t, m, G)
  <2>1. CASE Live(m) \in G
    BY <1>1, <1>3, <1>9, <1>10, <2>1
  <2>2. CASE Live(m) \in Queued(r.pending)
    <3>1. Safe(b, m, G)
      BY <1>4, <2>2 DEF Safe, Stored
    <3>. QED
      BY <1>9, <3>1 DEF Moved, MovedOne
  <2>. QED
    BY <1>10, <2>1, <2>2 DEF Stored, G
<1>. QED
  BY <1>9, <1>10 DEF t, G, b

\* deliver_inbox_messages: the messages it keeps, and those it sends.
LEMMA SendEachMoved ==
    ASSUME NEW r \in Records, NEW order \in Seq(Msgs), NEW G \in SUBSET Frame,
           \A i \in 1 .. Len(order) : Filed(order[i]) \in G
    PROVE  LET t == SendEach(r, order)
           IN  Moved(r, t, G, {}) /\ Stored(t) = Stored(r)
<1>. DEFINE t == SendEach(r, order)
            n == Len(order)
<1>1. PICK run \in [0 .. n -> Records] : SendSteps(run, r, order) /\ t = run[n]
  BY SendEachRun
<1>2. run[0] = r /\ \A i \in 1 .. n : run[i] = SendFiled(run[i - 1], order[i])
  BY <1>1 DEF SendSteps
<1>3. n \in Nat /\ \A i \in 1 .. n : order[i] \in Msgs /\ Filed(order[i]) \in G
  OBVIOUS
<1>. DEFINE P == {i \in 0 .. n : Moved(r, run[i], G, {}) /\ Stored(run[i]) = Stored(r)}
<1>. HIDE DEF t, n
<1>5. 0 \in P
  <2>1. Moved(r, r, G, {}) /\ 0 \in 0 .. n
    BY <1>3, MovedNot
  <2>. QED
    BY <1>2, <2>1
<1>6. ASSUME NEW i \in 1 .. n, i - 1 \in P PROVE i \in P
  <2>. DEFINE f == Filed(order[i])
              x == run[i - 1]
              y == SendLive(x, f, {order[i]})
              z == run[i]
  <2>1. i \in 0 .. n /\ i - 1 \in 0 .. n /\ x \in Records /\ f \in G /\ f \in Frame /\ {} \in SUBSET G
    BY <1>1, <1>3
  <2>2. Moved(r, x, G, {}) /\ Stored(x) = Stored(r)
    BY <1>6
  <2>3. f.body = {order[i]} /\ f.id.of = "inbox"
    BY DEF Filed
  <2>4. z = IF y.ok THEN [y EXCEPT !.handle = "Working"] ELSE y
    BY <1>2 DEF SendFiled
  <2>. HIDE DEF f, x, z
  <2>5. Moved(x, y, G, {})
    BY <2>1, <2>3, SendLiveMoved
  <2>6. y \in Records
    BY <1>3, <2>1, SendLiveType
  <2>7. y.pending = x.pending /\ y.failed = x.failed
    BY <2>1 DEF SendLive, SendCommand, Records
  <2>. HIDE DEF y
  <2>8. /\ z.pending = y.pending /\ z.failed = y.failed /\ z.wire = y.wire /\ z.inflight = y.inflight
        /\ z.acks = y.acks /\ z.box = y.box /\ z.fate = y.fate
    BY <2>4, <2>6 DEF Records
  <2>9. Moved(x, z, G, {})
    BY <2>5, <2>8, MovedSame
  <2>10. Moved(r, z, G, {}) /\ Stored(z) = Stored(r)
    BY <2>1, <2>2, <2>7, <2>8, <2>9, MovedAgain DEF Stored
  <2>. QED
    BY <2>1, <2>10 DEF z
<1>. HIDE DEF P
<1>7. \A i \in 0 .. n : i \in P
  BY <1>3, <1>5, <1>6, UpTo
<1>8. n \in P
  BY <1>3, <1>7
<1>. QED
  BY <1>1, <1>8 DEF P, t

-----------------------------------------------------------------------------
(* The invariant behind the ledger. *)

Refusals == {e.arg : e \in {x \in Queued(events) : x.op = "DeliveryFailed"}}
Answers  == {e.arg : e \in {x \in Queued(events) : x.op = "MessageDelivered"}}

\* The frames that are somewhere: queued, in flight, in the socket, in the shim, or
\* in a report that the shim could not write them.
InUse == {inflight} \cup Queued(pending) \cup Fails(failed) \cup Queued(wire) \cup Queued(shimq) \cup Refusals

Awaiting(x) == \E a \in acks : a.id = x
Covered(m)  == given[m] > 0 \/ box[m] = "new" \/ Shut(fate[m])

\* An id tells what its frame carries.
Proper ==
    \A f \in InUse : \/ f = NoFrame
                     \/ f.id.of # "batch" /\ f.body = {f.id.key}
                     \/ f.id.of = "batch" /\ f.id.key < batches

\* A message that nothing else covers travels alone, under its own id.
Carried == \A f \in InUse : \A m \in f.body : f = Live(m) \/ Covered(m)

\* An entry of pending_shim_acks stands for files of the frame with its id.
AckFits ==
    \A a \in acks :
      /\ a.id.of = "live" => a.files = {}
      /\ a.id.of = "inbox" => a.files \subseteq {a.id.key}
      /\ a.id.of = "batch" => a.id.key < batches /\ \A f \in InUse : f.id = a.id => a.files \subseteq f.body

Sent ==
    /\ \A f \in InUse : \A m \in f.body : fate[m] # "unsent"
    /\ \A m \in Msgs : box[m] # "none" => fate[m] # "unsent"

\* What the shim acknowledges has been given to the agent.
Delivered ==
    \A x \in Answers :
      /\ x.of # "batch" => given[x.key] > 0
      /\ x.of = "batch" => x.key < batches /\ \A a \in acks : a.id = x => \A m \in a.files : given[m] > 0

\* The daemon waits for the answer to a message that was not refused yet.
Awaited ==
    \A m \in Msgs : given[m] = 0 /\ refusals[m] = 0 /\ Live(m) \in Queued(wire) => Awaiting(Live(m).id)

IsRefusal(i, m) == events[i].op = "DeliveryFailed" /\ events[i].arg = Live(m)

Once(m) == \A i, j \in DOMAIN events : IsRefusal(i, m) /\ IsRefusal(j, m) => i = j

\* As many reports as failed writes, as far as the first one.
OneRefusal ==
    \A m \in Msgs :
      /\ refusals[m] = 0 => Live(m) \notin Refusals \cup Fails(failed)
      /\ refusals[m] = 1 => Once(m)

RefusedAwaited ==
    \A m \in Msgs : given[m] = 0 /\ refusals[m] <= 1 /\ Live(m) \in Refusals => Awaiting(Live(m).id)

\* A supervisor's message in flight is on its way while the shim is there.
Replayable ==
    Supervisor /\ shim \in {"starting", "idle", "working"} =>
      \A m \in Msgs :
        inflight = Live(m) /\ refusals[m] <= 1 /\ ~Covered(m) /\ box[m] # "tierNew" =>
          Live(m) \in Queued(wire) \cup Queued(shimq) \cup Refusals

Tracked ==
    /\ Proper /\ Carried /\ AckFits /\ Sent /\ Delivered
    /\ Awaited /\ OneRefusal /\ RefusedAwaited /\ Replayable

Inv == Typed /\ Tracked

-----------------------------------------------------------------------------
(* The step of the ledger, message by message. *)

Exposed(m) == given[m] = 0 /\ box[m] \notin {"new", "tierNew"} /\ ~Shut(fate[m])

LedgerOne(m) ==
    /\ given[m] > 0 => given'[m] > 0
    /\ box[m] \in {"new", "tierNew"} =>
         given'[m] > 0 \/ box'[m] \in {"new", "tierNew"} \/ Shut(fate'[m])
    /\ Shut(fate[m]) => Shut(fate'[m])
    /\ fate[m] # "unsent" => fate'[m] # "unsent"
    /\ Exposed(m) /\ InMemory(m) =>
         ~Exposed(m)' \/ InMemory(m)' \/ OnChannel(m)' \/ faults' > faults
    /\ Exposed(m) /\ ~InMemory(m) /\ OnChannel(m) =>
         /\ Shut(fate'[m]) => given'[m] > 0 \/ box'[m] \in {"new", "tierNew"}
         /\ ~Exposed(m)' \/ InMemory(m)' \/ OnChannel(m)' \/ Link' # "up" \/ refusals'[m] > 1
    /\ Exposed(m) /\ ~InMemory(m) /\ ~OnChannel(m) /\ fate[m] = "none" =>
         Exposed(m)' /\ ~InMemory(m)' /\ ~OnChannel(m)'
    /\ Exposed(m) /\ fate[m] = "unsent" =>
         /\ given'[m] = 0
         /\ fate'[m] = "unsent" \/ ~Exposed(m)' \/ InMemory(m)' \/ OnChannel(m)' \/ faults' > faults

\* Every frame that carries a message that is still unsent is somewhere else.
LEMMA UnsentNowhere ==
    Inv => \A m \in Msgs : fate[m] = "unsent" => ~InMemory(m) /\ ~OnChannel(m)
<1>. SUFFICES ASSUME Inv, NEW m \in Msgs, fate[m] = "unsent"
              PROVE  ~InMemory(m) /\ ~OnChannel(m)
  OBVIOUS
<1>1. \A f \in InUse : m \notin f.body
  BY DEF Inv, Tracked, Sent
<1>2. \A f \in Queued(pending) \cup Fails(failed) \cup Queued(wire) \cup Queued(shimq) \cup Refusals \cup {inflight} : m \notin f.body
  BY <1>1 DEF InUse
<1>3. ~InMemory(m)
  BY <1>2 DEF InMemory, Frames, Queued, Fails
<1>4. ~ (m \in Frames(wire) \cup Frames(shimq))
  BY <1>2 DEF Frames, Queued
<1>5. ~Refused(m)
  BY <1>2 DEF Refused, Refusals, Queued
<1>. QED
  BY <1>2, <1>3, <1>4, <1>5 DEF OnChannel

\* Message by message, a step that keeps the invariant is a step of the ledger.
LEMMA LedgerStep ==
    ASSUME Inv, Inv', faults' \in {faults, faults + 1},
           \A m \in Msgs : refusals'[m] \in {refusals[m], refusals[m] + 1},
           \A m \in Msgs : LedgerOne(m)
    PROVE  Ledger!Next
<1>0. (\A m \in Msgs : fate[m] = "unsent" => ~InMemory(m) /\ ~OnChannel(m))'
  BY UnsentNowhere, PTL
<1>1. /\ given \in [Msgs -> 0 .. 2] /\ given' \in [Msgs -> 0 .. 2]
      /\ fate \in [Msgs -> Fates] /\ fate' \in [Msgs -> Fates]
      /\ refusals' \in [Msgs -> 0 .. MaxRefusals]
  BY DEF Inv, Typed, TypeOK
<1>2. ASSUME NEW m \in Msgs
      PROVE  /\ Place(m) \in Ledger!Places /\ Place(m)' \in Ledger!Places
             /\ \/ Place(m)' = Place(m)
                \/ <<Place(m), Place(m)'>> \in Ledger!Moves
                \/ /\ Place(m)' = "lost"
                   /\ \/ Place(m) = "memory" /\ faults' > faults
                      \/ Place(m) = "channel" /\ (Link' # "up" \/ refusals'[m] > 1)
                      \/ Place(m) = "unsent" /\ faults' > faults
  <2>1. /\ given[m] \in 0 .. 2 /\ given'[m] \in 0 .. 2
        /\ fate[m] \in Fates /\ fate'[m] \in Fates
    BY <1>1
  <2>2. LedgerOne(m)
    OBVIOUS
  <2>3. fate[m] = "unsent" => ~InMemory(m) /\ ~OnChannel(m)
    BY UnsentNowhere
  <2>4. fate'[m] = "unsent" => ~InMemory(m)' /\ ~OnChannel(m)'
    BY <1>0
  <2>. QED
    BY <2>1, <2>2, <2>3, <2>4 DEF LedgerOne, Exposed, Place, Ledger!Places, Ledger!Moves, Shut
<1>3. Link' \in {"starting", "up", "down"}
  BY DEF Link
<1>4. DOMAIN refusals' = Msgs
  BY <1>1
<1>. QED
  BY <1>2, <1>3, <1>4 DEF Ledger!Next, Ledger!MayLose

-----------------------------------------------------------------------------
(* Events. *)

\* Reading an event.
LEMMA ReadEvent ==
    ASSUME Typed, events # <<>>, events' = Tail(events)
    PROVE  /\ Refusals' \subseteq Refusals
           /\ Head(events).op = "DeliveryFailed" => Refusals = Refusals' \cup {Head(events).arg}
           /\ Head(events).op # "DeliveryFailed" => Refusals' = Refusals
           /\ Answers' \subseteq Answers
           /\ Head(events).op = "MessageDelivered" => Head(events).arg \in Answers
           /\ \A m : Once(m) => Once(m)'
           /\ \A m : Once(m) /\ IsRefusal(1, m) => Live(m) \notin Refusals'
<1>1. /\ events \in Seq(Notices) /\ Len(events) \in Nat \ {0} /\ Head(events) = events[1]
      /\ DOMAIN events = 1 .. Len(events) /\ DOMAIN events' = 1 .. Len(events) - 1
      /\ \A i \in 1 .. Len(events) - 1 : events'[i] = events[i + 1]
  BY EmptySeq DEF Typed
<1>2. Queued(events) = {Head(events)} \cup Queued(events')
  BY <1>1, QueuedFacts
<1>3. \A i \in 1 .. Len(events) - 1 : i + 1 \in 1 .. Len(events) /\ i + 1 # 1
  BY <1>1
<1>4. 1 \in 1 .. Len(events)
  BY <1>1
<1>5. ASSUME NEW m, Once(m) PROVE Once(m)'
  <2>1. SUFFICES ASSUME NEW i \in 1 .. Len(events) - 1, NEW j \in 1 .. Len(events) - 1,
                        IsRefusal(i + 1, m), IsRefusal(j + 1, m)
                 PROVE  i = j
    BY <1>1 DEF Once, IsRefusal
  <2>2. i + 1 = j + 1
    BY <1>1, <1>3, <1>5, <2>1 DEF Once
  <2>. QED
    BY <1>1, <2>2
<1>6. ASSUME NEW m, Once(m), IsRefusal(1, m) PROVE Live(m) \notin Refusals'
  <2>1. SUFFICES ASSUME NEW i \in 1 .. Len(events) - 1, IsRefusal(i + 1, m) PROVE FALSE
    BY <1>1 DEF Refusals, Queued, IsRefusal
  <2>. QED
    BY <1>1, <1>3, <1>4, <1>6, <2>1 DEF Once
<1>7. /\ Refusals' \subseteq Refusals
      /\ Head(events).op = "DeliveryFailed" => Refusals = Refusals' \cup {Head(events).arg}
      /\ Head(events).op # "DeliveryFailed" => Refusals' = Refusals
  BY <1>2 DEF Refusals
<1>8. Answers' \subseteq Answers /\ (Head(events).op = "MessageDelivered" => Head(events).arg \in Answers)
  BY <1>2 DEF Answers
<1>. QED
  BY <1>5, <1>6, <1>7, <1>8

\* Adding events.
LEMMA EmitEvents ==
    ASSUME Typed, NEW s \in Seq(Notices), Emit(s)
    PROVE  /\ Refusals' = Refusals \cup {e.arg : e \in {x \in Queued(s) : x.op = "DeliveryFailed"}}
           /\ Answers' = Answers \cup {e.arg : e \in {x \in Queued(s) : x.op = "MessageDelivered"}}
           /\ \A m : (\A e \in Queued(s) : ~ (e.op = "DeliveryFailed" /\ e.arg = Live(m))) /\ Once(m) => Once(m)'
           /\ \A m : Live(m) \notin Refusals /\ Len(s) = 1 => Once(m)'
<1>1. /\ events \in Seq(Notices) /\ Len(events) \in Nat /\ Len(s) \in Nat
      /\ DOMAIN events = 1 .. Len(events) /\ DOMAIN events' = 1 .. Len(events) + Len(s)
      /\ DOMAIN s = 1 .. Len(s)
      /\ \A i \in 1 .. Len(events) + Len(s) : events'[i] = IF i <= Len(events) THEN events[i] ELSE s[i - Len(events)]
  BY DEF Typed, Emit
<1>2. Queued(events') = Queued(events) \cup Queued(s)
  BY <1>1, QueuedJoin DEF Emit
<1>3. \A i \in 1 .. Len(events) + Len(s) :
         \/ i \in 1 .. Len(events) /\ events'[i] = events[i]
         \/ i - Len(events) \in 1 .. Len(s) /\ events'[i] = s[i - Len(events)]
  BY <1>1
<1>4. ASSUME NEW m, \A e \in Queued(s) : ~ (e.op = "DeliveryFailed" /\ e.arg = Live(m)), Once(m) PROVE Once(m)'
  <2>1. ASSUME NEW i \in 1 .. Len(events) + Len(s), events'[i].op = "DeliveryFailed" /\ events'[i].arg = Live(m)
        PROVE  i \in 1 .. Len(events) /\ IsRefusal(i, m)
    BY <1>1, <1>3, <1>4, <2>1 DEF Queued, IsRefusal
  <2>. QED
    BY <1>1, <1>4, <2>1 DEF Once, IsRefusal
<1>5. ASSUME NEW m, Live(m) \notin Refusals, Len(s) = 1 PROVE Once(m)'
  <2>1. ASSUME NEW i \in 1 .. Len(events) + Len(s), events'[i].op = "DeliveryFailed" /\ events'[i].arg = Live(m)
        PROVE  i = Len(events) + 1
    <3>1. i \notin 1 .. Len(events) \/ events'[i] # events[i]
      BY <1>1, <1>5, <2>1 DEF Refusals, Queued
    <3>2. i - Len(events) \in 1 .. 1
      BY <1>3, <1>5, <3>1
    <3>. QED
      BY <1>1, <3>2
  <2>. QED
    BY <1>1, <2>1 DEF Once, IsRefusal
<1>6. Refusals' = Refusals \cup {e.arg : e \in {x \in Queued(s) : x.op = "DeliveryFailed"}}
  BY <1>2 DEF Refusals
<1>7. Answers' = Answers \cup {e.arg : e \in {x \in Queued(s) : x.op = "MessageDelivered"}}
  BY <1>2 DEF Answers
<1>. QED
  BY <1>4, <1>5, <1>6, <1>7

-----------------------------------------------------------------------------
(* Routing keeps the invariant. *)

\* What the frames are made of.
LEMMA FrameFacts ==
    /\ \A m : Live(m).id.of = "live" /\ Live(m).id.key = m /\ Live(m).body = {m} /\ Live(m) # NoFrame
    /\ \A m : Filed(m).id.of = "inbox" /\ Filed(m).id.key = m /\ Filed(m).body = {m}
    /\ \A S : Batch(S).id.of = "batch" /\ Batch(S).id.key = batches /\ Batch(S).body = S
    /\ NoFrame.id.of = "none" /\ NoFrame.body = {}
BY DEF Live, Filed, Batch, NoFrame

\* The frame with the id of a live message carries that message.
LEMMA LiveById ==
    ASSUME NEW f \in Frame, NEW m \in Msgs, f.id = Live(m).id, f.body = {f.id.key}
    PROVE  f = Live(m)
<1>1. f = [id |-> f.id, body |-> f.body]
  BY DEF Frame
<1>. QED
  BY <1>1 DEF Live

\* The frames in use and the entries of pending_shim_acks have their types.
LEMMA InUseType ==
    ASSUME Typed
    PROVE  /\ InUse \subseteq Frame \cup {NoFrame}
           /\ Queued(pending) \subseteq Frame /\ Fails(failed) \subseteq Frame /\ Refusals \subseteq Frame
           /\ Queued(shimq) \subseteq Frame /\ Answers \subseteq FrameIds
<1>1. /\ pending \in Seq(Frame) /\ failed \in Seq(Failures) /\ wire \in Seq(Frame \cup {NoFrame})
      /\ shimq \in Seq(Frame) /\ inflight \in Frame \cup {NoFrame}
      /\ \A i \in DOMAIN events : IsEvent(events[i])
  BY DEF Typed, TypeOK
<1>2. /\ Queued(pending) \subseteq Frame /\ Queued(failed) \subseteq Failures
      /\ Queued(wire) \subseteq Frame \cup {NoFrame} /\ Queued(shimq) \subseteq Frame
  BY <1>1, QueuedFacts
<1>3. Fails(failed) \subseteq Frame
  BY <1>2 DEF Fails, Failures
<1>4. \A e \in Queued(events) : IsEvent(e)
  BY <1>1 DEF Queued
<1>5. Refusals \subseteq Frame /\ Answers \subseteq FrameIds
  BY <1>4 DEF Refusals, Answers, IsEvent
<1>. QED
  BY <1>1, <1>2, <1>3, <1>5 DEF InUse

\* Where the routing code starts: the queue or the list of failed deliveries may
\* have been taken out, the message in flight forgotten, a message just sent.
Basis(b) ==
    /\ Queued(b.pending) \subseteq Queued(pending) /\ Fails(b.failed) \subseteq Fails(failed)
    /\ b.wire = wire /\ b.acks = acks /\ b.box = box
    /\ b.inflight \in {inflight, NoFrame}
    /\ \A m \in Msgs : b.fate[m] = fate[m] \/ (fate[m] = "unsent" /\ b.fate[m] = "none")

\* Where a frame comes from that is handled: it was stored, or it is made for a
\* message that the daemon sends now or for messages of the inbox.
Source(g) ==
    \/ g \in Queued(pending) \cup Fails(failed)
    \/ \E m \in Msgs : g = Live(m) /\ fate[m] = "unsent" /\ fate'[m] # "unsent"
    \/ \E m \in Mail : g = Filed(m)
    \/ \E S \in SUBSET Mail : g = Batch(S) /\ batches' = batches + 1

Sources(G) ==
    /\ \A g \in G : Source(g)
    /\ \A S, T \in SUBSET Mail : Batch(S) \in G /\ Batch(T) \in G => S = T

\* The events that routing code runs on tell nothing about a message.
Reads ==
    \/ events' = events
    \/ /\ events # <<>> /\ events' = Tail(events)
       /\ Head(events).op \notin {"DeliveryFailed", "MessageDelivered"}

Routes(b, t, G, R) ==
    /\ b \in Records /\ t \in Records /\ G \subseteq Frame /\ R \subseteq G /\ R \subseteq Fails(failed)
    /\ Basis(b) /\ Sources(G) /\ Moved(b, t, G, R) /\ Becomes(t) /\ Reads
    /\ batches' \in {batches, batches + 1}
    /\ UNCHANGED <<kind, shim, shimq, given, refusals>>

\* What holds of every routing step.
LEMMA RouteFacts ==
    ASSUME Inv, NEW b, NEW t, NEW G, NEW R, Routes(b, t, G, R)
    PROVE  /\ Refusals' = Refusals /\ Answers' \subseteq Answers
           /\ \A m : Once(m) => Once(m)'
           /\ Stored(b) \subseteq Queued(pending) \cup Fails(failed)
           /\ InUse' \subseteq InUse \cup G \cup {NoFrame}
           /\ \A m \in Msgs : Covered(m) => Covered(m)'
           /\ \A m \in Msgs : fate[m] # "unsent" => fate'[m] # "unsent"
           /\ \A m \in Msgs : box[m] = "tierNew" => box'[m] = "tierNew" \/ Covered(m)'
           /\ \A x : Awaiting(x) => Awaiting(x)'
           /\ batches \in Nat /\ batches' \in Nat
<1>. USE DEF Inv
<1>1. Refusals' = Refusals /\ Answers' \subseteq Answers /\ \A m : Once(m) => Once(m)'
  <2>1. CASE events' = events
    BY <2>1 DEF Refusals, Answers, Once, IsRefusal
  <2>2. CASE /\ events # <<>> /\ events' = Tail(events)
             /\ Head(events).op \notin {"DeliveryFailed", "MessageDelivered"}
    BY <2>2, ReadEvent
  <2>. QED
    BY <2>1, <2>2 DEF Routes, Reads
<1>2. Stored(b) \subseteq Queued(pending) \cup Fails(failed)
  BY DEF Routes, Basis, Stored
<1>3. /\ inflight' = t.inflight /\ pending' = t.pending /\ failed' = t.failed /\ acks' = t.acks
      /\ box' = t.box /\ wire' = t.wire /\ fate' = t.fate /\ shimq' = shimq /\ given' = given
  BY DEF Routes, Becomes
<1>4. InUse' \subseteq InUse \cup G \cup {NoFrame}
  <2>1. Queued(pending') \subseteq Queued(pending) \cup Fails(failed) \cup G
    BY <1>2, <1>3 DEF Routes, Moved
  <2>2. Fails(failed') \subseteq Fails(failed)
    BY <1>3 DEF Routes, Moved, Basis
  <2>3. Queued(wire') \subseteq Queued(wire) \cup G
    BY <1>3 DEF Routes, Moved, Basis
  <2>4. inflight' \in {inflight, NoFrame} \cup G
    BY <1>3 DEF Routes, Moved, Basis
  <2>5. InUse' = {inflight'} \cup Queued(pending') \cup Fails(failed') \cup Queued(wire') \cup Queued(shimq') \cup Refusals'
    BY DEF InUse, Queued, Fails
  <2>. QED
    BY <1>1, <1>3, <2>1, <2>2, <2>3, <2>4, <2>5 DEF InUse
<1>5. ASSUME NEW m \in Msgs
      PROVE  /\ Covered(m) => Covered(m)'
             /\ fate[m] # "unsent" => fate'[m] # "unsent"
             /\ box[m] = "tierNew" => box'[m] = "tierNew" \/ Covered(m)'
  <2>1. MovedOne(b, t, G, m)
    BY DEF Routes, Moved
  <2>2. b.box = box /\ (b.fate[m] = fate[m] \/ (fate[m] = "unsent" /\ b.fate[m] = "none"))
    BY DEF Routes, Basis
  <2>. QED
    BY <1>3, <2>1, <2>2 DEF MovedOne, Covered, Shut
<1>6. ASSUME NEW x, Awaiting(x) PROVE Awaiting(x)'
  <2>1. \A a \in acks : \E c \in acks' : c.id = a.id
    BY <1>3 DEF Routes, Moved, Basis
  <2>. QED
    BY <1>6, <2>1 DEF Awaiting
<1>7. batches \in Nat /\ batches' \in Nat
  BY DeliveryAssumption DEF Typed, TypeOK, Routes
<1>. QED
  BY <1>1, <1>2, <1>4, <1>5, <1>6, <1>7

\* Routing keeps the invariant.
LEMMA RoutesTracked ==
    ASSUME Inv, NEW b, NEW t, NEW G, NEW R, Routes(b, t, G, R)
    PROVE  Tracked'
<1>. USE DEF Inv
<1>1. /\ Refusals' = Refusals /\ Answers' \subseteq Answers
      /\ \A m : Once(m) => Once(m)'
      /\ Stored(b) \subseteq Queued(pending) \cup Fails(failed)
      /\ InUse' \subseteq InUse \cup G \cup {NoFrame}
      /\ \A m \in Msgs : Covered(m) => Covered(m)'
      /\ \A m \in Msgs : fate[m] # "unsent" => fate'[m] # "unsent"
      /\ \A m \in Msgs : box[m] = "tierNew" => box'[m] = "tierNew" \/ Covered(m)'
      /\ \A x : Awaiting(x) => Awaiting(x)'
      /\ batches \in Nat /\ batches' \in Nat
  BY RouteFacts
<1>2. /\ inflight' = t.inflight /\ pending' = t.pending /\ failed' = t.failed /\ acks' = t.acks
      /\ box' = t.box /\ wire' = t.wire /\ fate' = t.fate /\ shimq' = shimq /\ given' = given
      /\ refusals' = refusals /\ shim' = shim /\ kind' = kind /\ batches' \in {batches, batches + 1}
  BY DEF Routes, Becomes
<1>3. \A g \in G : Source(g)
  BY DEF Routes, Sources
<1>4. Queued(pending) \cup Fails(failed) \subseteq InUse /\ Refusals \subseteq InUse
  BY DEF InUse
<1>5. InUse \subseteq Frame \cup {NoFrame} /\ G \subseteq Frame /\ Mail \subseteq Msgs
  BY InUseType DEF Routes, Mail
<1>6. \A f \in InUse \cup G : f.body \subseteq Msgs
  BY <1>5, FrameTypes, FrameFacts
<1>7. batches <= batches' /\ \A k \in Nat : k < batches => k < batches'
  BY <1>1, <1>2
<1>8. \A f \in InUse : f.id.of = "batch" => f.id.key \in Nat /\ f.id.key < batches
  <2>1. \A f \in Frame : f.id.of = "batch" => f.id.key \in Nat
    BY FrameTypes, DeliveryAssumption DEF FrameIds
  <2>. QED
    BY <1>5, <2>1, FrameFacts DEF Tracked, Proper
<1>9. Proper'
  <2>1. ASSUME NEW f \in InUse'
        PROVE  \/ f = NoFrame
               \/ f.id.of # "batch" /\ f.body = {f.id.key}
               \/ f.id.of = "batch" /\ f.id.key < batches'
    <3>1. CASE f \in InUse \cup {NoFrame}
      BY <1>7, <1>8, <3>1 DEF Tracked, Proper
    <3>2. CASE f \in G /\ f \notin InUse
      <4>1. \/ \E m \in Msgs : f = Live(m)
            \/ \E m \in Mail : f = Filed(m)
            \/ \E S \in SUBSET Mail : f = Batch(S) /\ batches' = batches + 1
        BY <1>3, <1>4, <3>2 DEF Source
      <4>. QED
        BY <1>1, <4>1, FrameFacts
    <3>. QED
      BY <1>1, <3>1, <3>2
  <2>. QED
    BY <2>1 DEF Proper
<1>10. Carried'
  <2>1. ASSUME NEW f \in InUse', NEW m \in f.body PROVE f = Live(m) \/ Covered(m)'
    <3>1. CASE f \in InUse
      <4>1. m \in Msgs /\ (f = Live(m) \/ Covered(m))
        BY <1>6, <3>1 DEF Tracked, Carried
      <4>. QED
        BY <1>1, <4>1
    <3>2. CASE f \in G /\ f \notin InUse
      <4>1. \/ \E k \in Msgs : f = Live(k)
            \/ \E k \in Mail : f = Filed(k)
            \/ \E S \in SUBSET Mail : f = Batch(S) /\ batches' = batches + 1
        BY <1>3, <1>4, <3>2 DEF Source
      <4>2. f = Live(m) \/ m \in Mail
        BY <4>1, FrameFacts
      <4>3. m \in Mail => m \in Msgs /\ Covered(m)
        BY DEF Mail, Covered
      <4>. QED
        BY <1>1, <4>2, <4>3
    <3>. QED
      BY <1>1, <3>1, <3>2, FrameFacts
  <2>. QED
    BY <2>1 DEF Carried
<1>11. Sent'
  <2>1. ASSUME NEW f \in InUse \cup G, NEW m \in f.body PROVE m \in Msgs /\ fate'[m] # "unsent"
    <3>0. m \in Msgs
      BY <1>6
    <3>1. CASE f \in InUse
      BY <1>1, <3>0, <3>1 DEF Tracked, Sent
    <3>2. CASE f \in G /\ f \notin InUse
      <4>1. \/ \E k \in Msgs : f = Live(k) /\ fate'[k] # "unsent"
            \/ \E k \in Mail : f = Filed(k)
            \/ \E S \in SUBSET Mail : f = Batch(S) /\ batches' = batches + 1
        BY <1>3, <1>4, <3>2 DEF Source
      <4>2. fate'[m] # "unsent" \/ m \in Mail
        BY <4>1, FrameFacts
      <4>3. m \in Mail => fate[m] # "unsent"
        BY DEF Mail, Tracked, Sent
      <4>. QED
        BY <1>1, <3>0, <4>2, <4>3
    <3>. QED
      BY <3>1, <3>2
  <2>2. ASSUME NEW m \in Msgs, box'[m] # "none" PROVE fate'[m] # "unsent"
    <3>1. CASE box[m] # "none"
      BY <1>1, <3>1 DEF Tracked, Sent
    <3>2. CASE box[m] = "none" /\ Untouched(b, G, m)
      <4>1. MovedOne(b, t, G, m) /\ b.box = box
        BY DEF Routes, Moved, Basis
      <4>2. box'[m] = box[m]
        BY <1>2, <3>2, <4>1 DEF MovedOne
      <4>. QED
        BY <2>2, <3>2, <4>2
    <3>3. CASE ~ Untouched(b, G, m)
      BY <1>1, <1>4, <2>1, <3>3 DEF Untouched
    <3>. QED
      BY <3>1, <3>2, <3>3
  <2>. QED
    BY <1>1, <2>1, <2>2, FrameFacts DEF Sent
<1>12. \A a \in acks' : a \in acks \/ NewAck(a, G)
  BY <1>2 DEF Routes, Moved, Basis
<1>13. acks \subseteq Acks /\ acks' \subseteq Acks
  BY <1>2 DEF Typed, TypeOK, Routes, Records
<1>14. AckFits'
  <2>1. ASSUME NEW a \in acks'
        PROVE  /\ a.id.of = "live" => a.files = {}
               /\ a.id.of = "inbox" => a.files \subseteq {a.id.key}
               /\ a.id.of = "batch" => a.id.key < batches' /\ \A f \in InUse' : f.id = a.id => a.files \subseteq f.body
    <3>1. CASE a \in acks
      <4>1. /\ a.id.of = "live" => a.files = {}
            /\ a.id.of = "inbox" => a.files \subseteq {a.id.key}
            /\ a.id.of = "batch" => a.id.key < batches /\ \A f \in InUse : f.id = a.id => a.files \subseteq f.body
        BY <3>1 DEF Tracked, AckFits
      <4>2. a.id.of = "batch" => a.id.key \in Nat
        BY <1>13, <3>1, DeliveryAssumption DEF Acks, FrameIds
      <4>3. ASSUME a.id.of = "batch", NEW f \in InUse', f.id = a.id PROVE f \in InUse
        <5>1. f # NoFrame
          BY <4>3, FrameFacts
        <5>2. ASSUME f \in G, f \notin InUse PROVE FALSE
          <6>1. \/ \E k \in Msgs : f = Live(k)
                \/ \E k \in Mail : f = Filed(k)
                \/ \E S \in SUBSET Mail : f = Batch(S)
            BY <1>3, <1>4, <5>2 DEF Source
          <6>2. a.id.key = batches
            BY <4>3, <6>1, FrameFacts
          <6>. QED
            BY <1>1, <4>1, <4>3, <6>2
        <5>. QED
          BY <1>1, <5>1, <5>2
      <4>. QED
        BY <1>7, <4>1, <4>2, <4>3
    <3>2. CASE a \notin acks
      <4>1. PICK g \in G : /\ a.id = g.id
                           /\ \/ a.files = {}
                              \/ /\ a.files = g.body
                                 /\ g.id.of # "live"
                                 /\ g.id.of = "batch" => g.id.key = batches
        BY <1>12, <3>2 DEF NewAck
      <4>2. \/ g \in InUse
            \/ \E k \in Msgs : g = Live(k)
            \/ \E k \in Mail : g = Filed(k)
            \/ \E S \in SUBSET Mail : g = Batch(S) /\ batches' = batches + 1
        BY <1>3, <1>4 DEF Source
      <4>3. /\ g.id.of = "batch" => g.id.key < batches'
            /\ g.id.of # "batch" => g.body = {g.id.key}
        <5>1. CASE g \in InUse
          <6>1. g # NoFrame
            BY <1>5, FrameTypes
          <6>. QED
            BY <1>7, <1>8, <5>1, <6>1 DEF Tracked, Proper
        <5>2. CASE g \notin InUse
          BY <1>1, <4>2, <5>2, FrameFacts
        <5>. QED
          BY <5>1, <5>2
      <4>4. ASSUME a.id.of = "batch", a.files # {}, NEW f \in InUse', f.id = a.id PROVE f = g
        <5>1. g.id.of = "batch" /\ g.id.key = batches /\ f.id.of = "batch" /\ f.id.key = batches
          BY <4>1, <4>4
        <5>2. g \notin InUse /\ f \notin InUse
          BY <1>1, <1>8, <5>1
        <5>3. f \in G
          BY <1>1, <5>1, <5>2, FrameFacts
        <5>4. PICK S \in SUBSET Mail : g = Batch(S)
          BY <4>2, <5>1, <5>2, FrameFacts
        <5>5. PICK T \in SUBSET Mail : f = Batch(T)
          <6>1. \/ \E k \in Msgs : f = Live(k)
                \/ \E k \in Mail : f = Filed(k)
                \/ \E T \in SUBSET Mail : f = Batch(T)
            BY <1>3, <1>4, <5>2, <5>3 DEF Source
          <6>. QED
            BY <5>1, <6>1, FrameFacts
        <5>6. S = T
          BY <5>3, <5>4, <5>5 DEF Routes, Sources
        <5>. QED
          BY <5>4, <5>5, <5>6
      <4>. QED
        BY <4>1, <4>3, <4>4
    <3>. QED
      BY <3>1, <3>2
  <2>. QED
    BY <2>1 DEF AckFits
<1>15. Delivered'
  <2>1. ASSUME NEW x \in Answers'
        PROVE  /\ x.of # "batch" => given'[x.key] > 0
               /\ x.of = "batch" => x.key < batches' /\ \A a \in acks' : a.id = x => \A m \in a.files : given'[m] > 0
    <3>1. x \in Answers /\ x \in FrameIds
      BY <1>1, InUseType
    <3>2. /\ x.of # "batch" => given[x.key] > 0
          /\ x.of = "batch" => x.key < batches /\ \A a \in acks : a.id = x => \A m \in a.files : given[m] > 0
      BY <3>1 DEF Tracked, Delivered
    <3>3. x.of = "batch" => x.key \in Nat
      BY <3>1, DeliveryAssumption DEF FrameIds
    <3>4. ASSUME x.of = "batch", NEW a \in acks', a.id = x, a \notin acks PROVE a.files = {}
      BY <1>1, <1>12, <3>2, <3>4 DEF NewAck
    <3>. QED
      BY <1>2, <1>7, <3>2, <3>3, <3>4
  <2>. QED
    BY <2>1 DEF Delivered
<1>16. Awaited'
  <2>1. ASSUME NEW m \in Msgs, given[m] = 0, refusals[m] = 0, Live(m) \in Queued(wire') PROVE Awaiting(Live(m).id)'
    <3>1. \/ Live(m) \in Queued(wire) \/ Live(m) \in R
          \/ \E a \in acks' : a.id = Live(m).id
      BY <1>2, <2>1 DEF Routes, Moved, Basis
    <3>2. Live(m) \notin R
      BY <2>1 DEF Routes, Tracked, OneRefusal
    <3>3. Live(m) \in Queued(wire) => Awaiting(Live(m).id)
      BY <2>1 DEF Tracked, Awaited
    <3>4. (\E a \in acks' : a.id = Live(m).id) => Awaiting(Live(m).id)'
      BY DEF Awaiting, Live
    <3>. QED
      BY <1>1, <3>1, <3>2, <3>3, <3>4 DEF Live
  <2>. QED
    BY <1>2, <2>1 DEF Awaited, Live, Queued
<1>17. OneRefusal'
  <2>1. Fails(failed') \subseteq Fails(failed)
    BY <1>2 DEF Routes, Moved, Basis
  <2>2. ASSUME NEW m \in Msgs
        PROVE  /\ refusals[m] = 0 => Live(m) \notin Refusals' \cup Fails(failed')
               /\ refusals[m] = 1 => Once(m)'
    BY <1>1, <2>1 DEF Tracked, OneRefusal
  <2>. QED
    BY <1>2, <2>2 DEF OneRefusal, Live, Fails, Queued
<1>18. RefusedAwaited'
  <2>1. ASSUME NEW m \in Msgs, given[m] = 0, refusals[m] <= 1, Live(m) \in Refusals PROVE Awaiting(Live(m).id)'
    <3>1. Awaiting(Live(m).id)
      BY <2>1 DEF Tracked, RefusedAwaited
    <3>. QED
      BY <1>1, <3>1 DEF Live
  <2>. QED
    BY <1>1, <1>2, <2>1 DEF RefusedAwaited, Live
<1>19. Replayable'
  <2>1. ASSUME Supervisor, shim \in {"starting", "idle", "working"}, NEW m \in Msgs, inflight' = Live(m),
               refusals[m] <= 1, ~Covered(m)', box'[m] # "tierNew"
        PROVE  Live(m) \in Queued(wire') \cup Queued(shimq) \cup Refusals
    <3>1. Queued(wire) \subseteq Queued(wire')
      BY <1>2 DEF Routes, Moved, Basis
    <3>2. \/ inflight' \in {inflight, NoFrame}
          \/ inflight' \in Queued(wire')
      BY <1>2, <2>1 DEF Routes, Moved, Basis
    <3>3. CASE inflight = Live(m)
      <4>1. ~Covered(m) /\ box[m] # "tierNew"
        BY <1>1, <2>1
      <4>2. Live(m) \in Queued(wire) \cup Queued(shimq) \cup Refusals
        BY <2>1, <3>3, <4>1 DEF Tracked, Replayable
      <4>. QED
        BY <3>1, <4>2
    <3>. QED
      BY <2>1, <3>2, <3>3, FrameFacts
  <2>2. Supervisor' = Supervisor
    BY <1>2 DEF Supervisor
  <2>. QED
    BY <1>1, <1>2, <2>1, <2>2 DEF Replayable, Live, Queued
<1>. QED
  BY <1>9, <1>10, <1>11, <1>14, <1>15, <1>16, <1>17, <1>18, <1>19 DEF Tracked

-----------------------------------------------------------------------------
(* Routing implements the ledger. *)

\* Where a message is that nothing else covers, in terms of its own frame.
LEMMA Whereabouts ==
    Inv => \A m \in Msgs : Exposed(m) =>
             /\ \A f \in InUse : m \in f.body => f = Live(m)
             /\ InMemory(m) <=> Live(m) \in Queued(pending) \cup Fails(failed)
             /\ OnChannel(m) <=> \/ Live(m) \in Queued(wire) \cup Queued(shimq)
                                 \/ Live(m) \in Refusals /\ Awaiting(Live(m).id)
                                 \/ Supervisor /\ inflight = Live(m)
<1>. SUFFICES ASSUME Inv, NEW m \in Msgs, Exposed(m)
              PROVE  /\ \A f \in InUse : m \in f.body => f = Live(m)
                     /\ InMemory(m) <=> Live(m) \in Queued(pending) \cup Fails(failed)
                     /\ OnChannel(m) <=> \/ Live(m) \in Queued(wire) \cup Queued(shimq)
                                         \/ Live(m) \in Refusals /\ Awaiting(Live(m).id)
                                         \/ Supervisor /\ inflight = Live(m)
  OBVIOUS
<1>1. ~Covered(m)
  BY DEF Exposed, Covered
<1>2. \A f \in InUse : m \in f.body => f = Live(m)
  BY <1>1 DEF Inv, Tracked, Carried
<1>3. m \in Live(m).body
  BY FrameFacts
<1>4. /\ Queued(pending) \subseteq InUse /\ Fails(failed) \subseteq InUse /\ Queued(wire) \subseteq InUse
      /\ Queued(shimq) \subseteq InUse /\ Refusals \subseteq InUse /\ inflight \in InUse
  BY DEF InUse
<1>5. InMemory(m) <=> \E f \in Queued(pending) \cup Fails(failed) : m \in f.body
  BY DEF InMemory, Frames, Queued, Fails
<1>6. m \in Frames(wire) \cup Frames(shimq) <=> \E f \in Queued(wire) \cup Queued(shimq) : m \in f.body
  BY DEF Frames, Queued
<1>7. Refused(m) <=> \E f \in Refusals : m \in f.body /\ Awaiting(f.id)
  BY DEF Refused, Refusals, Queued, Awaiting
<1>8. InMemory(m) <=> Live(m) \in Queued(pending) \cup Fails(failed)
  BY <1>2, <1>3, <1>4, <1>5
<1>9. m \in Frames(wire) \cup Frames(shimq) <=> Live(m) \in Queued(wire) \cup Queued(shimq)
  BY <1>2, <1>3, <1>4, <1>6
<1>10. Refused(m) <=> Live(m) \in Refusals /\ Awaiting(Live(m).id)
  BY <1>2, <1>3, <1>4, <1>7
<1>11. m \in inflight.body <=> inflight = Live(m)
  BY <1>2, <1>3, <1>4
<1>. QED
  BY <1>2, <1>8, <1>9, <1>10, <1>11 DEF OnChannel

\* The same after the step.
LEMMA WhereaboutsNext ==
    Inv' => \A m \in Msgs : Exposed(m)' =>
             /\ InMemory(m)' <=> Live(m) \in Queued(pending') \cup Fails(failed')
             /\ OnChannel(m)' <=> \/ Live(m) \in Queued(wire') \cup Queued(shimq')
                                  \/ Live(m) \in Refusals' /\ Awaiting(Live(m).id)'
                                  \/ Supervisor' /\ inflight' = Live(m)
<1>1. Inv' => (\A m \in Msgs : Exposed(m) =>
             /\ \A f \in InUse : m \in f.body => f = Live(m)
             /\ InMemory(m) <=> Live(m) \in Queued(pending) \cup Fails(failed)
             /\ OnChannel(m) <=> \/ Live(m) \in Queued(wire) \cup Queued(shimq)
                                 \/ Live(m) \in Refusals /\ Awaiting(Live(m).id)
                                 \/ Supervisor /\ inflight = Live(m))'
  BY Whereabouts, PTL
<1>. SUFFICES ASSUME Inv', NEW m \in Msgs, Exposed(m)'
              PROVE  /\ InMemory(m)' <=> Live(m) \in Queued(pending') \cup Fails(failed')
                     /\ OnChannel(m)' <=> \/ Live(m) \in Queued(wire') \cup Queued(shimq')
                                          \/ Live(m) \in Refusals' /\ Awaiting(Live(m).id)'
                                          \/ Supervisor' /\ inflight' = Live(m)
  OBVIOUS
<1>2. /\ InMemory(m)' <=> (Live(m) \in Queued(pending) \cup Fails(failed))'
      /\ OnChannel(m)' <=> \/ (Live(m) \in Queued(wire) \cup Queued(shimq))'
                           \/ (Live(m) \in Refusals)' /\ Awaiting(Live(m).id)'
                           \/ Supervisor' /\ (inflight = Live(m))'
  BY <1>1
<1>3. /\ (Live(m) \in Queued(pending) \cup Fails(failed))' <=> Live(m) \in Queued(pending') \cup Fails(failed')
      /\ (Live(m) \in Queued(wire) \cup Queued(shimq))' <=> Live(m) \in Queued(wire') \cup Queued(shimq')
      /\ (Live(m) \in Refusals)' <=> Live(m) \in Refusals'
      /\ (inflight = Live(m))' <=> inflight' = Live(m)
  BY DEF Live, Queued, Fails
<1>. QED
  BY <1>2, <1>3

\* On the channel of a shim that is there and has refused it at most once, a message
\* is in the socket, in the shim, or in a report that is waited for.
LEMMA ReallyOnChannel ==
    ASSUME Inv, NEW m \in Msgs, Exposed(m), OnChannel(m), refusals[m] <= 1,
           shim \in {"starting", "idle", "working"}
    PROVE  \/ Live(m) \in Queued(wire) \cup Queued(shimq)
           \/ Live(m) \in Refusals /\ Awaiting(Live(m).id)
<1>1. ~Covered(m) /\ box[m] # "tierNew" /\ given[m] = 0
  BY DEF Exposed, Covered
<1>2. Live(m) \in Refusals => Awaiting(Live(m).id)
  BY <1>1 DEF Inv, Tracked, RefusedAwaited
<1>3. Supervisor /\ inflight = Live(m) => Live(m) \in Queued(wire) \cup Queued(shimq) \cup Refusals
  BY <1>1 DEF Inv, Tracked, Replayable
<1>. QED
  BY <1>2, <1>3, Whereabouts

\* A routing step moves each message as the ledger allows, if it puts the messages it
\* takes out of the memory somewhere safe, or fails.
LEMMA RoutesLedger ==
    ASSUME Inv, Inv', NEW b, NEW t, NEW G, NEW R, Routes(b, t, G, R),
           \A m \in Msgs : Live(m) \in Queued(pending) \cup Fails(failed) \/ b.fate[m] # fate[m]
                             => Safe(t, m, G) \/ faults' > faults,
           NEW m \in Msgs
    PROVE  LedgerOne(m)
<1>1. /\ Refusals' = Refusals
      /\ Stored(b) \subseteq Queued(pending) \cup Fails(failed)
      /\ Covered(m) => Covered(m)'
      /\ fate[m] # "unsent" => fate'[m] # "unsent"
      /\ box[m] = "tierNew" => box'[m] = "tierNew" \/ Covered(m)'
      /\ \A x : Awaiting(x) => Awaiting(x)'
  BY RouteFacts
<1>2. /\ inflight' = t.inflight /\ pending' = t.pending /\ failed' = t.failed /\ acks' = t.acks
      /\ box' = t.box /\ wire' = t.wire /\ fate' = t.fate /\ shimq' = shimq /\ given' = given
      /\ refusals' = refusals /\ shim' = shim /\ kind' = kind
  BY DEF Routes, Becomes
<1>3. MovedOne(b, t, G, m) /\ b.box = box /\ (b.fate[m] = fate[m] \/ (fate[m] = "unsent" /\ b.fate[m] = "none"))
  BY DEF Routes, Moved, Basis
<1>4. given[m] \in Nat /\ refusals[m] \in Nat
  <2>1. given \in [Msgs -> 0 .. 2] /\ refusals \in [Msgs -> 0 .. MaxRefusals] /\ MaxRefusals \in Nat
    BY DeliveryAssumption DEF Inv, Typed, TypeOK
  <2>. QED
    BY <2>1
<1>5. Queued(pending) \cup Fails(failed) \subseteq InUse
  BY DEF InUse
<1>7. Exposed(m)' =>
         /\ InMemory(m)' <=> Live(m) \in Queued(pending') \cup Fails(failed')
         /\ OnChannel(m)' <=> \/ Live(m) \in Queued(wire') \cup Queued(shimq)
                              \/ Live(m) \in Refusals /\ Awaiting(Live(m).id)'
                              \/ Supervisor /\ inflight' = Live(m)
  <2>1. Supervisor' <=> Supervisor
    BY <1>2 DEF Supervisor
  <2>. QED
    BY <1>1, <1>2, <2>1, WhereaboutsNext
<1>8. ASSUME Exposed(m), NEW g \in G, m \in g.body
      PROVE  g = Live(m) /\ (InMemory(m) \/ fate[m] = "unsent")
  <2>1. \A k \in Mail : box[k] = "new"
    BY DEF Mail
  <2>2. m \notin Mail
    BY <1>8, <2>1 DEF Exposed
  <2>3. \/ g \in Queued(pending) \cup Fails(failed)
        \/ \E k \in Msgs : g = Live(k) /\ fate[k] = "unsent"
        \/ \E k \in Mail : g = Filed(k)
        \/ \E S \in SUBSET Mail : g = Batch(S)
    BY DEF Routes, Sources, Source
  <2>4. CASE g \in Queued(pending) \cup Fails(failed)
    BY <1>5, <1>8, <2>4, Whereabouts
  <2>5. CASE g \notin Queued(pending) \cup Fails(failed)
    BY <1>8, <2>2, <2>3, <2>5, FrameFacts
  <2>. QED
    BY <2>4, <2>5
<1>9. ASSUME Exposed(m), Safe(t, m, G)
      PROVE  ~Exposed(m)' \/ InMemory(m)' \/ OnChannel(m)'
  <2>1. ~ \E g \in G : g # Live(m) /\ m \in g.body
    BY <1>8, <1>9
  <2>2. \/ Live(m) \in Queued(pending') \cup Fails(failed') \cup Queued(wire')
        \/ box'[m] \in {"new", "tierNew"} \/ Shut(fate'[m])
    BY <1>2, <1>9, <2>1 DEF Safe, Stored
  <2>. QED
    BY <1>7, <2>2 DEF Exposed
<1>10. ASSUME Exposed(m), ~InMemory(m), fate[m] # "unsent"
       PROVE  Untouched(b, G, m) /\ Exposed(m)' /\ fate'[m] = fate[m] /\ box'[m] = box[m]
  <2>1. \A f \in Stored(b) : m \notin f.body
    BY <1>1, <1>5, <1>10, Whereabouts
  <2>2. Untouched(b, G, m)
    BY <1>8, <1>10, <2>1 DEF Untouched
  <2>. QED
    BY <1>2, <1>3, <1>10, <2>2 DEF MovedOne, Exposed
<1>11. /\ given[m] > 0 => given'[m] > 0
       /\ box[m] \in {"new", "tierNew"} => given'[m] > 0 \/ box'[m] \in {"new", "tierNew"} \/ Shut(fate'[m])
       /\ Shut(fate[m]) => Shut(fate'[m])
  <2>1. given' = given
    BY <1>2
  <2>2. Shut(fate[m]) => Shut(fate'[m])
    BY <1>2, <1>3 DEF MovedOne, Shut
  <2>3. box[m] \in {"new", "tierNew"} => box'[m] \in {"new", "tierNew"} \/ Shut(fate'[m])
    BY <1>2, <1>3 DEF MovedOne
  <2>. QED
    BY <2>1, <2>2, <2>3
<1>12. Exposed(m) /\ InMemory(m) => ~Exposed(m)' \/ InMemory(m)' \/ OnChannel(m)' \/ faults' > faults
  <2>1. Exposed(m) /\ InMemory(m) => Live(m) \in Queued(pending) \cup Fails(failed)
    BY Whereabouts
  <2>. QED
    BY <1>9, <2>1
<1>13. ASSUME Exposed(m), ~InMemory(m), OnChannel(m)
       PROVE  /\ Shut(fate'[m]) => given'[m] > 0 \/ box'[m] \in {"new", "tierNew"}
              /\ ~Exposed(m)' \/ InMemory(m)' \/ OnChannel(m)' \/ Link' # "up" \/ refusals'[m] > 1
  <2>1. fate[m] # "unsent"
    BY <1>13, UnsentNowhere
  <2>2. ~Shut(fate'[m])
    BY <1>10, <1>13, <2>1 DEF Exposed
  <2>3. ASSUME Link' = "up", ~ (refusals'[m] > 1) PROVE ~Exposed(m)' \/ OnChannel(m)'
    <3>1. shim \in {"starting", "idle", "working"} /\ refusals[m] <= 1
      BY <1>2, <1>4, <2>3 DEF Link
    <3>2. \/ Live(m) \in Queued(wire) \cup Queued(shimq)
          \/ Live(m) \in Refusals /\ Awaiting(Live(m).id)
      BY <1>13, <3>1, ReallyOnChannel
    <3>3. Queued(wire) \subseteq Queued(wire')
      BY <1>2 DEF Routes, Moved, Basis
    <3>4. Awaiting(Live(m).id) => Awaiting(Live(m).id)'
      BY <1>1 DEF Live
    <3>. QED
      BY <1>7, <3>2, <3>3, <3>4
  <2>. QED
    BY <2>2, <2>3
<1>14. ASSUME Exposed(m), ~InMemory(m), ~OnChannel(m), fate[m] = "none"
       PROVE  Exposed(m)' /\ ~InMemory(m)' /\ ~OnChannel(m)'
  <2>1. Untouched(b, G, m) /\ Exposed(m)'
    BY <1>10, <1>14
  <2>2. Live(m) \notin Stored(b) \cup G
    BY <2>1, FrameFacts DEF Untouched
  <2>3. Live(m) \notin Queued(pending') \cup Fails(failed')
    BY <1>2, <2>2 DEF Routes, Moved, Stored
  <2>4. ~ \/ Live(m) \in Queued(wire) \cup Queued(shimq)
          \/ Live(m) \in Refusals /\ Awaiting(Live(m).id)
          \/ Supervisor /\ inflight = Live(m)
    BY <1>14, Whereabouts
  <2>5. Live(m) \notin Queued(wire')
    BY <1>2, <2>2, <2>4 DEF Routes, Moved, Basis
  <2>6. ~ (Supervisor /\ inflight' = Live(m))
    BY <1>2, <2>2, <2>4, FrameFacts DEF Routes, Moved, Basis
  <2>7. ASSUME Live(m) \in Refusals, Awaiting(Live(m).id)' PROVE FALSE
    <3>1. PICK a \in acks' : a.id = Live(m).id
      BY <2>7 DEF Awaiting, Live
    <3>2. a \notin acks
      BY <2>4, <2>7, <3>1 DEF Awaiting
    <3>3. PICK g \in G : a.id = g.id
      BY <1>2, <3>2 DEF Routes, Moved, Basis, NewAck
    <3>4. g \in Frame /\ g.id = Live(m).id
      BY <3>1, <3>3 DEF Routes
    <3>5. g.body = {g.id.key}
      <4>1. \/ g \in Queued(pending) \cup Fails(failed)
            \/ \E k \in Msgs : g = Live(k)
            \/ \E k \in Mail : g = Filed(k)
            \/ \E S \in SUBSET Mail : g = Batch(S)
        BY DEF Routes, Sources, Source
      <4>2. CASE g \in Queued(pending) \cup Fails(failed)
        BY <1>5, <3>4, <4>2, FrameFacts, FrameTypes DEF Inv, Tracked, Proper
      <4>. QED
        BY <3>4, <4>1, <4>2, FrameFacts
    <3>6. g = Live(m)
      BY <3>4, <3>5, LiveById
    <3>. QED
      BY <2>2, <3>6
  <2>. QED
    BY <1>7, <2>1, <2>3, <2>4, <2>5, <2>6, <2>7
<1>15. ASSUME Exposed(m), fate[m] = "unsent"
       PROVE  /\ given'[m] = 0
              /\ fate'[m] = "unsent" \/ ~Exposed(m)' \/ InMemory(m)' \/ OnChannel(m)' \/ faults' > faults
  <2>1. given'[m] = 0
    BY <1>2, <1>15 DEF Exposed
  <2>2. CASE b.fate[m] = fate[m]
    <3>1. fate'[m] = "unsent" \/ Shut(fate'[m])
      BY <1>2, <1>3, <1>15, <2>2 DEF MovedOne
    <3>. QED
      BY <2>1, <3>1 DEF Exposed
  <2>3. CASE b.fate[m] # fate[m]
    BY <1>9, <1>15, <2>1, <2>3
  <2>. QED
    BY <2>2, <2>3
<1>. QED
  BY <1>1, <1>11, <1>12, <1>13, <1>14, <1>15 DEF LedgerOne

-----------------------------------------------------------------------------
(* The steps that route messages. *)

\* A routing step that is safe keeps the invariant and is a step of the ledger.
LEMMA RoutesDone ==
    ASSUME Inv, Typed', NEW b, NEW t, NEW G, NEW R, Routes(b, t, G, R),
           \A m \in Msgs : Live(m) \in Queued(pending) \cup Fails(failed) \/ b.fate[m] # fate[m]
                             => Safe(t, m, G) \/ faults' > faults,
           faults' \in {faults, faults + 1}
    PROVE  Inv' /\ Ledger!Next
<1>1. Inv'
  BY RoutesTracked DEF Inv
<1>2. \A m \in Msgs : LedgerOne(m)
  BY <1>1, RoutesLedger
<1>3. \A m \in Msgs : refusals'[m] \in {refusals[m], refusals[m] + 1}
  BY DEF Routes
<1>. QED
  BY <1>1, <1>2, <1>3, LedgerStep

\* A step that moves no message.
LEMMA QuietDone ==
    ASSUME Inv, Typed', Reads, inflight' \in {inflight, NoFrame}, faults' \in {faults, faults + 1},
           UNCHANGED <<pending, failed, acks, box, wire, fate, kind, shim, shimq, given, refusals, batches>>
    PROVE  Inv' /\ Ledger!Next
<1>. DEFINE b == [handle |-> handle', inflight |-> inflight', pending |-> pending, failed |-> failed,
                  acks |-> acks, box |-> box, wire |-> wire, fate |-> fate, ok |-> TRUE]
<1>1. b \in Records
  <2>1. /\ handle' \in Handles /\ inflight' \in Frame \cup {NoFrame} /\ pending \in Seq(Frame)
        /\ failed \in Seq(Failures) /\ acks \subseteq Acks /\ box \in [Msgs -> Boxes]
        /\ wire \in Seq(Frame \cup {NoFrame}) /\ fate \in [Msgs -> Fates]
    BY DEF Inv, Typed, TypeOK
  <2>. QED
    BY <2>1 DEF Records
<1>2. Moved(b, b, {}, {})
  BY MovedNot
<1>3. /\ b.pending = pending /\ b.failed = failed /\ b.wire = wire /\ b.acks = acks /\ b.box = box
      /\ b.fate = fate /\ b.inflight = inflight' /\ b.handle = handle'
  OBVIOUS
<1>. HIDE DEF b
<1>4. Basis(b)
  BY <1>3 DEF Basis
<1>5. Sources({})
  BY DEF Sources
<1>6. Becomes(b)
  BY <1>3 DEF Becomes
<1>7. Routes(b, b, {}, {})
  BY <1>1, <1>2, <1>4, <1>5, <1>6 DEF Routes
<1>8. \A m \in Msgs : Live(m) \in Queued(pending) \cup Fails(failed) \/ b.fate[m] # fate[m] => Safe(b, m, {})
  BY <1>3 DEF Safe, Stored
<1>. QED
  BY <1>7, <1>8, RoutesDone

\* An error of a loop is an I/O error, which counts.
LEMMA ErrsFacts ==
    ASSUME Typed, NEW io \in BOOLEAN, NEW r, Errs(io, r)
    PROVE  faults' \in {faults, faults + 1} /\ (io => faults' > faults)
<1>1. faults \in Nat
  BY DeliveryAssumption DEF Typed, TypeOK
<1>. QED
  BY <1>1 DEF Errs, Fault

\* The queue is drained.
LEMMA DrainDone ==
    ASSUME Inv, Typed', Reads, NEW r \in Records, NEW io \in BOOLEAN,
           r.ok, r.pending = pending, r.failed = failed, r.wire = wire, r.acks = acks, r.box = box,
           r.fate = fate, r.inflight \in {inflight, NoFrame},
           Becomes(Drain(r, io)), Errs(io, Drain(r, io)),
           UNCHANGED <<kind, shim, shimq, given, refusals, batches>>
    PROVE  Inv' /\ Ledger!Next
<1>. DEFINE t == Drain(r, io)
            G == Queued(pending)
            b == [r EXCEPT !.pending = <<>>]
<1>1. t \in Records
  BY DrainRun
<1>2. /\ Moved(b, t, G, {})
      /\ ~io => t.ok
      /\ t.ok => \A m \in Msgs : Live(m) \in Stored(r) => Safe(t, m, G)
  BY DrainMoved
<1>3. <<>> \in Seq(Frame) /\ G \subseteq Frame
  BY InUseType DEF Inv
<1>4. b \in Records
  BY <1>3, RecordTypes
<1>5. /\ b.pending = <<>> /\ b.failed = failed /\ b.wire = wire /\ b.acks = acks /\ b.box = box
      /\ b.fate = fate /\ b.inflight = r.inflight
  BY DEF Records
<1>. HIDE DEF t, b
<1>6. Basis(b)
  BY <1>5, QueuedSmall DEF Basis
<1>7. Sources(G)
  <2>1. \A S : Batch(S) \notin G
    <3>1. \A f \in G : f.id.of = "batch" => f.id.key < batches
      <4>1. G \subseteq InUse
        BY DEF InUse
      <4>. QED
        BY <1>3, <4>1, FrameTypes DEF Inv, Tracked, Proper
    <3>2. batches \in Nat
      BY DeliveryAssumption DEF Inv, Typed, TypeOK
    <3>. QED
      BY <3>1, <3>2, FrameFacts
  <2>. QED
    BY <2>1 DEF Sources, Source
<1>8. Routes(b, t, G, {})
  BY <1>1, <1>2, <1>3, <1>4, <1>6, <1>7 DEF Routes, t
<1>9. faults' \in {faults, faults + 1} /\ (io => faults' > faults)
  BY ErrsFacts DEF Inv, t
<1>10. \A m \in Msgs : Live(m) \in Queued(pending) \cup Fails(failed) \/ b.fate[m] # fate[m]
                          => Safe(t, m, G) \/ faults' > faults
  BY <1>2, <1>5, <1>9 DEF Stored
<1>. QED
  BY <1>8, <1>9, <1>10, RoutesDone

\* A shim that is ready: the queue is drained.
LEMMA OnReadyDone ==
    ASSUME Inv, OnReady PROVE Inv' /\ Ledger!Next
<1>. DEFINE r == IF handle = "Working" THEN Now
                 ELSE [Now EXCEPT !.handle = "Idle", !.inflight = NoFrame]
<1>1. PICK io \in BOOLEAN : Errs(io, Drain(r, io)) /\ Becomes(Drain(r, io))
  BY DEF OnReady
<1>2. r \in Records
  BY NowType, RecordTypes DEF Handles, Inv
<1>3. /\ r.ok /\ r.pending = pending /\ r.failed = failed /\ r.wire = wire /\ r.acks = acks /\ r.box = box
      /\ r.fate = fate /\ r.inflight \in {inflight, NoFrame}
  BY DEF Now
<1>. HIDE DEF r
<1>4. Typed'
  BY OnReadyTyped DEF Inv
<1>5. Reads /\ UNCHANGED <<kind, shim, shimq, given, refusals, batches>>
  BY DEF OnReady, Poll, Reads
<1>. QED
  BY <1>1, <1>2, <1>3, <1>4, <1>5, DrainDone

\* A shim that is idle again: the queue is drained.
LEMMA OnStateChangedDone ==
    ASSUME Inv, OnStateChanged PROVE Inv' /\ Ledger!Next
<1>. DEFINE r == [Now EXCEPT !.handle = Arg]
            d(io) == IF Arg = "Idle" THEN Drain(r, io) ELSE r
<1>1. PICK io \in BOOLEAN : Errs(io, d(io)) /\ Becomes(d(io))
  BY DEF OnStateChanged
<1>2. r \in Records
  BY NowType, RecordTypes, PollType DEF Inv, OnStateChanged
<1>3. /\ r.ok /\ r.pending = pending /\ r.failed = failed /\ r.wire = wire /\ r.acks = acks /\ r.box = box
      /\ r.fate = fate /\ r.inflight \in {inflight, NoFrame}
  BY DEF Now
<1>. HIDE DEF r
<1>4. Typed'
  BY OnStateChangedTyped DEF Inv
<1>5. Reads /\ UNCHANGED <<kind, shim, shimq, given, refusals, batches>>
  BY DEF OnStateChanged, Poll, Reads
<1>6. CASE Arg = "Idle"
  BY <1>1, <1>2, <1>3, <1>4, <1>5, <1>6, DrainDone
<1>7. CASE Arg # "Idle"
  <2>1. Errs(io, r) /\ Becomes(r)
    BY <1>1, <1>7
  <2>2. faults' \in {faults, faults + 1}
    BY <2>1, ErrsFacts DEF Inv
  <2>3. inflight' \in {inflight, NoFrame} /\ UNCHANGED <<pending, failed, acks, box, wire, fate>>
    BY <1>3, <2>1 DEF Becomes
  <2>. QED
    BY <1>4, <1>5, <2>2, <2>3, QuietDone
<1>. QED
  BY <1>6, <1>7

\* A stuck engineer is taken for idle: the queue is drained.
LEMMA ForceIdleDone ==
    ASSUME Inv, ForceIdle PROVE Inv' /\ Ledger!Next
<1>. DEFINE r == [Now EXCEPT !.handle = "Idle"]
<1>1. PICK io \in BOOLEAN : Errs(io, Drain(r, io)) /\ Becomes(Drain(r, io))
  BY DEF ForceIdle
<1>2. r \in Records
  BY NowType, RecordTypes DEF Handles, Inv
<1>3. /\ r.ok /\ r.pending = pending /\ r.failed = failed /\ r.wire = wire /\ r.acks = acks /\ r.box = box
      /\ r.fate = fate /\ r.inflight \in {inflight, NoFrame}
  BY DEF Now
<1>. HIDE DEF r
<1>4. Typed'
  BY ForceIdleTyped DEF Inv
<1>5. Reads /\ UNCHANGED <<kind, shim, shimq, given, refusals, batches>>
  BY DEF ForceIdle, Reads
<1>. QED
  BY <1>1, <1>2, <1>3, <1>4, <1>5, DrainDone

\* A message of the daemon itself is routed.
LEMMA DaemonMessageDone ==
    ASSUME Inv, NEW m \in Msgs, DaemonMessage(m) PROVE Inv' /\ Ledger!Next
<1>. DEFINE b == [Now EXCEPT !.fate[m] = "none"]
            t(io) == Route(b, Live(m), io)
            G == {Live(m)}
<1>1. PICK io \in BOOLEAN : Errs(io, t(io)) /\ Becomes(t(io))
  BY DEF DaemonMessage
<1>2. b \in Records /\ Live(m) \in G /\ G \in SUBSET Frame /\ {} \in SUBSET G
  BY NowType, RecordTypes, FrameTypes DEF Inv
<1>3. /\ b.ok /\ b.pending = pending /\ b.failed = failed /\ b.wire = wire /\ b.acks = acks /\ b.box = box
      /\ b.inflight = inflight /\ b.fate = [fate EXCEPT ![m] = "none"]
  BY DEF Now
<1>. HIDE DEF b, G
<1>4. t(io) \in Records
  BY <1>2, RouteType
<1>5. /\ Moved(b, t(io), G, {})
      /\ ~io => t(io).ok
      /\ t(io).ok => \A k \in Live(m).body : Safe(t(io), k, G)
  BY <1>2, <1>3, RouteMoved
<1>. HIDE DEF t
<1>6. fate \in [Msgs -> Fates] /\ fate[m] = "unsent"
  BY DEF Inv, Typed, TypeOK, DaemonMessage
<1>7. b.fate[m] = "none" /\ \A k \in Msgs : k # m => b.fate[k] = fate[k]
  BY <1>3, <1>6
<1>8. Basis(b)
  BY <1>3, <1>6, <1>7 DEF Basis
<1>9. fate'[m] # "unsent"
  BY <1>1, <1>5, <1>7 DEF Becomes, Moved, MovedOne, Shut
<1>10. Sources(G)
  BY <1>6, <1>9, FrameFacts DEF G, Sources, Source
<1>11. Typed'
  BY DaemonMessageTyped DEF Inv
<1>12. Reads /\ UNCHANGED <<kind, shim, shimq, given, refusals, batches>>
  BY DEF DaemonMessage, Reads
<1>13. Routes(b, t(io), G, {})
  BY <1>1, <1>2, <1>4, <1>5, <1>8, <1>10, <1>12 DEF Routes
<1>14. faults' \in {faults, faults + 1} /\ (io => faults' > faults)
  BY <1>1, ErrsFacts DEF Inv
<1>15. ASSUME NEW k \in Msgs, Live(k) \in Queued(pending) \cup Fails(failed) \/ b.fate[k] # fate[k]
       PROVE  Safe(t(io), k, G) \/ faults' > faults
  <2>1. CASE Live(k) \in Queued(pending) \cup Fails(failed)
    <3>1. Safe(b, k, G)
      BY <1>3, <2>1 DEF Safe, Stored
    <3>. QED
      BY <1>5, <3>1 DEF Moved, MovedOne
  <2>2. CASE b.fate[k] # fate[k]
    BY <1>5, <1>7, <1>14, <2>2, FrameFacts
  <2>. QED
    BY <1>15, <2>1, <2>2
<1>. QED
  BY <1>11, <1>13, <1>14, <1>15, RoutesDone

\* Stored frames are no new batches.
LEMMA StoredSources ==
    ASSUME Inv, NEW G \in SUBSET (Queued(pending) \cup Fails(failed)) PROVE Sources(G)
<1>1. G \subseteq InUse /\ G \subseteq Frame
  BY InUseType DEF InUse, Inv
<1>2. \A f \in G : f.id.of = "batch" => f.id.key < batches
  BY <1>1, FrameTypes DEF Inv, Tracked, Proper
<1>3. batches \in Nat
  BY DeliveryAssumption DEF Inv, Typed, TypeOK
<1>4. \A S : Batch(S) \notin G
  BY <1>2, <1>3, FrameFacts
<1>. QED
  BY <1>4 DEF Sources, Source

\* The failed deliveries are retried: each reaches the socket, is kept for the next retry,
\* or is escalated, unless the loop breaks off with an I/O error.
LEMMA RetryDone ==
    ASSUME Inv, NEW due \in SUBSET DOMAIN failed, Retry(due) PROVE Inv' /\ Ledger!Next
<1>. DEFINE t(io) == RetryEach(Now, due, io)
            G == Fails(failed)
            b == [Now EXCEPT !.failed = <<>>]
<1>1. PICK io \in BOOLEAN : Errs(io, t(io)) /\ Becomes(t(io))
  BY DEF Retry
<1>2. Now \in Records /\ Now.ok /\ Now.pending = pending /\ Now.failed = failed
  BY NowType DEF Inv, Now
<1>3. t(io) \in Records
  BY <1>2, RetryRun
<1>4. /\ Moved(b, t(io), G, G)
      /\ ~io => t(io).ok
      /\ t(io).ok => \A m \in Msgs : Live(m) \in Stored(Now) => Safe(t(io), m, G)
  BY <1>2, RetryMoved
<1>5. <<>> \in Seq(Failures) /\ G \subseteq Frame
  BY InUseType DEF Inv
<1>6. b \in Records
  BY <1>2, <1>5 DEF Records
<1>7. /\ b.pending = pending /\ b.failed = <<>> /\ b.wire = wire /\ b.acks = acks /\ b.box = box
      /\ b.fate = fate /\ b.inflight = inflight
  BY DEF Now
<1>. HIDE DEF t, b
<1>8. Basis(b)
  BY <1>7, QueuedSmall DEF Basis
<1>9. Sources(G)
  BY StoredSources
<1>10. Reads /\ UNCHANGED <<kind, shim, shimq, given, refusals, batches>>
  BY DEF Retry, Reads
<1>11. Routes(b, t(io), G, G)
  BY <1>1, <1>3, <1>4, <1>5, <1>6, <1>8, <1>9, <1>10 DEF Routes
<1>12. faults' \in {faults, faults + 1} /\ (io => faults' > faults)
  BY <1>1, ErrsFacts DEF Inv
<1>13. \A m \in Msgs : Live(m) \in Queued(pending) \cup Fails(failed) \/ b.fate[m] # fate[m]
                          => Safe(t(io), m, G) \/ faults' > faults
  BY <1>2, <1>4, <1>7, <1>12 DEF Stored
<1>14. Typed'
  BY RetryTyped DEF Inv
<1>. QED
  BY <1>11, <1>12, <1>13, <1>14, RoutesDone

\* A set of positions of a queue has a last one.
LEMMA LastPosition ==
    ASSUME NEW n \in Nat, NEW S \in SUBSET (1 .. n), S # {}
    PROVE  \E i \in S : \A j \in S : j <= i
<1>. DEFINE P == {k \in 0 .. n : \A Q \in SUBSET (1 .. k) : Q # {} => \E i \in Q : \A j \in Q : j <= i}
<1>1. 0 \in P
  <2>1. ASSUME NEW Q \in SUBSET (1 .. 0), Q # {} PROVE FALSE
    <3>1. PICK j \in Q : TRUE
      BY <2>1
    <3>2. j \in 1 .. 0
      BY <3>1
    <3>. QED
      BY <3>2
  <2>2. 0 \in 0 .. n
    OBVIOUS
  <2>. QED
    BY <2>1, <2>2
<1>2. ASSUME NEW k \in 1 .. n, k - 1 \in P PROVE k \in P
  <2>1. ASSUME NEW Q \in SUBSET (1 .. k), Q # {} PROVE \E i \in Q : \A j \in Q : j <= i
    <3>1. CASE k \in Q
      BY <2>1, <3>1
    <3>2. CASE k \notin Q
      <4>1. Q \in SUBSET (1 .. (k - 1))
        BY <3>2
      <4>. QED
        BY <1>2, <2>1, <4>1
    <3>. QED
      BY <3>1, <3>2
  <2>. QED
    BY <2>1
<1>. HIDE DEF P
<1>3. \A i \in 0 .. n : i \in P
  BY <1>1, <1>2, UpTo
<1>4. n \in P
  BY <1>3
<1>. QED
  BY <1>4 DEF P

\* Old messages of the queue go to the inbox, or are dropped for a newer one.
LEMMA ExpireDone ==
    ASSUME Inv, NEW old \in SUBSET DOMAIN pending, Expire(old) PROVE Inv' /\ Ledger!Next
<1>. DEFINE newest == CHOOSE i \in old : \A j \in old : j <= i
            put == IF Cardinality(old) <= DigestThreshold THEN old ELSE {newest}
            filed == UNION {pending[i].body : i \in put}
            dropped == (UNION {pending[i].body : i \in old \ put}) \ filed
            kept == [Now EXCEPT !.pending = Without(@, old)]
            c == Closed(kept, dropped, "superseded")
            t(io) == InboxFallback(c, filed, io)
            G == {pending[i] : i \in old}
<1>1. PICK io \in BOOLEAN : Errs(io, t(io)) /\ Becomes(t(io))
  BY DEF Expire
<1>2. /\ Now \in Records /\ Now.pending = pending /\ pending \in Seq(Frame) /\ Len(pending) \in Nat
      /\ DOMAIN pending = 1 .. Len(pending)
  BY NowType DEF Inv, Now, Typed, TypeOK
<1>3. put \subseteq old
  <2>1. CASE old = {}
    <3>1. Cardinality(old) = 0
      BY <2>1, FS_EmptySet
    <3>2. Cardinality(old) <= DigestThreshold
      BY <3>1, DeliveryAssumption
    <3>. QED
      BY <3>2
  <2>2. CASE old # {}
    <3>1. \E i \in old : \A j \in old : j <= i
      BY <1>2, <2>2, LastPosition
    <3>2. newest \in old
      BY <3>1
    <3>. HIDE DEF newest
    <3>. QED
      BY <3>2
  <2>. QED
    BY <2>1, <2>2
<1>. HIDE DEF put
<1>4. Without(pending, old) \in Seq(Frame) /\ Queued(Without(pending, old)) = {pending[i] : i \in DOMAIN pending \ old}
  BY <1>2, WithoutType, QueuedWithout
<1>5. Queued(pending) = {pending[i] : i \in DOMAIN pending}
  BY DEF Queued
<1>6. Queued(Without(pending, old)) \subseteq Queued(pending) /\ G \subseteq Queued(pending)
      /\ Queued(pending) \subseteq Queued(Without(pending, old)) \cup G
  BY <1>4, <1>5
<1>7. kept \in Records /\ kept = [Now EXCEPT !.pending = Without(pending, old)]
  BY <1>2, <1>4, RecordTypes
<1>8. /\ kept.pending = Without(pending, old) /\ kept.failed = failed /\ kept.wire = wire /\ kept.acks = acks
      /\ kept.box = box /\ kept.fate = fate /\ kept.inflight = inflight
  BY <1>7 DEF Now
<1>9. G \subseteq Frame
  BY <1>6, InUseType DEF Inv
<1>10. \A m \in filed \cup dropped : \E g \in G : m \in g.body
  BY <1>3
<1>11. ASSUME NEW i \in old, NEW m \in pending[i].body PROVE m \in filed \cup dropped
  <2>1. CASE i \in put
    BY <2>1
  <2>2. CASE i \notin put
    BY <2>2
  <2>. QED
    BY <2>1, <2>2
<1>. HIDE DEF kept, filed, dropped, G
<1>12. "superseded" \in Fates /\ Shut("superseded")
  BY DEF Fates, Shut
<1>13. \A x : \A m \in filed \cup dropped : ~ Untouched(x, G, m)
  BY <1>10 DEF Untouched
<1>14. c \in Records
  BY <1>7, <1>12, ClosedType
<1>15. Moved(kept, c, G, {}) /\ \A m \in dropped \cap Msgs : Shut(c.fate[m])
  BY <1>7, <1>12, <1>13, ClosedMoved
<1>. HIDE DEF c
<1>16. t(io) \in Records
  BY <1>14, InboxFallbackType
<1>17. /\ Moved(c, t(io), G, {}) /\ t(io).ok = ~io
       /\ t(io).ok => \A m \in filed \cap Msgs : t(io).box[m] \in {"new", "tierNew"}
  BY <1>13, <1>14, InboxFallbackMoved
<1>. HIDE DEF t
<1>18. Moved(kept, t(io), G, {})
  <2>1. {} \in SUBSET G
    OBVIOUS
  <2>. QED
    BY <1>15, <1>17, <2>1, MovedAgain
<1>19. Basis(kept)
  BY <1>6, <1>8 DEF Basis
<1>20. Sources(G)
  BY <1>6, StoredSources
<1>21. Reads /\ UNCHANGED <<kind, shim, shimq, given, refusals, batches>>
  BY DEF Expire, Reads
<1>22. Routes(kept, t(io), G, {})
  BY <1>1, <1>7, <1>9, <1>16, <1>18, <1>19, <1>20, <1>21 DEF Routes
<1>23. faults' \in {faults, faults + 1} /\ (io => faults' > faults)
  BY <1>1, ErrsFacts DEF Inv
<1>24. ASSUME NEW m \in Msgs, Live(m) \in Queued(pending) \cup Fails(failed), ~io PROVE Safe(t(io), m, G)
  <2>1. CASE Live(m) \in Queued(Without(pending, old)) \cup Fails(failed)
    <3>1. Safe(kept, m, G)
      BY <1>8, <2>1 DEF Safe, Stored
    <3>. QED
      BY <1>18, <3>1 DEF Moved, MovedOne
  <2>2. CASE Live(m) \in G
    <3>1. PICK i \in old : Live(m) = pending[i]
      BY <2>2 DEF G
    <3>2. m \in filed \cup dropped
      BY <1>11, <3>1, FrameFacts
    <3>3. CASE m \in filed
      BY <1>17, <1>24, <3>3 DEF Safe
    <3>4. CASE m \in dropped
      <4>1. Safe(c, m, G)
        BY <1>15, <3>4 DEF Safe
      <4>. QED
        BY <1>17, <4>1 DEF Moved, MovedOne
    <3>. QED
      BY <3>2, <3>3, <3>4
  <2>. QED
    BY <1>6, <1>24, <2>1, <2>2
<1>25. \A m \in Msgs : Live(m) \in Queued(pending) \cup Fails(failed) \/ kept.fate[m] # fate[m]
                          => Safe(t(io), m, G) \/ faults' > faults
  BY <1>8, <1>23, <1>24
<1>26. Typed'
  BY ExpireTyped DEF Inv
<1>. QED
  BY <1>22, <1>23, <1>25, <1>26, RoutesDone

\* Messages that are kept from the agent leave the inbox and are closed.
LEMMA SuppressMoved ==
    ASSUME Typed, NEW G PROVE Moved(Now, Suppress(Now), G, {}) /\ Stored(Suppress(Now)) = Stored(Now)
<1>. DEFINE t == Suppress(Now)
            S == Mail \cap stale
<1>1. Now \in Records /\ Now.box = box /\ Now.fate = fate
  BY NowType DEF Now
<1>2. /\ t.pending = pending /\ t.failed = failed /\ t.acks = acks /\ t.wire = wire /\ t.inflight = inflight
      /\ t.box = [m \in Msgs |-> IF m \in S THEN "cur" ELSE box[m]]
      /\ t.fate = [m \in Msgs |-> IF m \in S /\ fate[m] # "logged" THEN "logged" ELSE fate[m]]
  BY DEF Suppress, Closed, Now
<1>3. /\ Now.pending = pending /\ Now.failed = failed /\ Now.acks = acks /\ Now.wire = wire
      /\ Now.inflight = inflight
  BY DEF Now
<1>4. \A m \in S : box[m] = "new"
  BY DEF Mail
<1>. HIDE DEF t, S
<1>5. Stored(t) = Stored(Now)
  BY <1>2, <1>3 DEF Stored
<1>6. ASSUME NEW m \in Msgs PROVE MovedOne(Now, t, G, m)
  <2>1. CASE m \in S
    <3>1. Shut(t.fate[m])
      BY <1>2, <2>1 DEF Shut
    <3>. QED
      BY <1>1, <1>4, <2>1, <3>1 DEF MovedOne, Safe
  <2>2. CASE m \notin S
    <3>1. t.box[m] = box[m] /\ t.fate[m] = fate[m]
      BY <1>2, <2>2
    <3>. QED
      BY <1>1, <1>2, <1>3, <1>5, <3>1 DEF MovedOne, Safe
  <2>. QED
    BY <2>1, <2>2
<1>7. Moved(Now, t, G, {})
  BY <1>2, <1>3, <1>5, <1>6 DEF Moved, Stored
<1>. QED
  BY <1>5, <1>7 DEF t

\* Messages of the inbox are sent.
LEMMA InboxDone ==
    ASSUME Inv, Typed', NEW t \in Records, NEW G \in SUBSET Frame, Sources(G), Moved(Now, t, G, {}), Becomes(t),
           batches' \in {batches, batches + 1},
           UNCHANGED <<kind, shim, shimq, events, given, faults, refusals>>
    PROVE  Inv' /\ Ledger!Next
<1>1. /\ Now \in Records /\ Now.pending = pending /\ Now.failed = failed /\ Now.acks = acks /\ Now.wire = wire
      /\ Now.inflight = inflight /\ Now.box = box /\ Now.fate = fate
  BY NowType DEF Now, Inv
<1>2. Basis(Now)
  BY <1>1 DEF Basis
<1>3. Routes(Now, t, G, {})
  BY <1>1, <1>2 DEF Routes, Reads
<1>4. ASSUME NEW m \in Msgs, Live(m) \in Queued(pending) \cup Fails(failed) PROVE Safe(t, m, G)
  <2>1. Safe(Now, m, G)
    BY <1>1, <1>4 DEF Safe, Stored
  <2>. QED
    BY <2>1 DEF Moved, MovedOne
<1>. QED
  BY <1>1, <1>3, <1>4, RoutesDone

\* The inbox is delivered, as a batch, a digest, or one by one.
LEMMA DeliverInboxDone ==
    ASSUME Inv, DeliverInbox PROVE Inv' /\ Ledger!Next
<1>0. Typed' /\ UNCHANGED <<kind, shim, shimq, events, given, faults, refusals>>
  BY DeliverInboxTyped DEF Inv, DeliverInbox
<1>1. /\ Suppress(Now) \in Records /\ Mail \in SUBSET Msgs /\ DigestOf \in SUBSET Mail
      /\ batches \in 0 .. MaxBatches
  BY NowType, SuppressType DEF Mail, DigestOf, Typed, TypeOK, Inv
<1>2. CASE Becomes(SendLive(Suppress(Now), Batch(Mail), Mail)) /\ batches' = batches + 1
  <2>. DEFINE f == Batch(Mail)
              t == SendLive(Suppress(Now), f, Mail)
              G == {f}
  <2>1. f \in Frame /\ f.body = Mail /\ f.id.of = "batch" /\ f.id.key = batches
    BY <1>1, FrameTypes, FrameFacts
  <2>2. t \in Records
    BY <1>1, <2>1, SendLiveType
  <2>3. Sources(G)
    <3>1. \A S, T : Batch(S) = f /\ Batch(T) = f => S = T
      BY FrameFacts
    <3>. QED
      BY <1>2, <3>1 DEF Sources, Source
  <2>. HIDE DEF f
  <2>4. f \in G /\ G \in SUBSET Frame /\ {} \in SUBSET G
    BY <2>1
  <2>. HIDE DEF G
  <2>5. Moved(Now, Suppress(Now), G, {})
    BY SuppressMoved DEF Inv
  <2>6. Moved(Suppress(Now), t, G, {})
    BY <1>1, <2>1, <2>4, SendLiveMoved
  <2>7. Becomes(t)
    BY <1>2 DEF f
  <2>. HIDE DEF t
  <2>8. Moved(Now, t, G, {})
    BY <2>4, <2>5, <2>6, MovedAgain
  <2>. QED
    BY <1>0, <1>2, <2>2, <2>3, <2>4, <2>7, <2>8, InboxDone
<1>3. ASSUME NEW digest \in SUBSET Mail, InboxPass(Suppress(Now), digest) PROVE Inv' /\ Ledger!Next
  <2>. DEFINE r == Suppress(Now)
              Q == {m \in Mail \ (stale \cup digest) : ~PendingAck(r, m)}
  <2>1. PICK order \in SetToSeqs(Q) :
          LET s == SendEach(r, order)
              flush == /\ digest # {}
                       /\ order = <<>> \/ shim = "gone"
                       /\ IsReady(s.handle)
                       /\ batches < MaxBatches
              t == IF flush THEN SendLive(s, Batch(digest), digest) ELSE s
          IN Becomes(t) /\ phase' = PastInbox(t) /\ batches' = IF flush THEN batches + 1 ELSE batches
    BY <1>3 DEF InboxPass
  <2>. DEFINE s == SendEach(r, order)
              flush == digest # {} /\ (order = <<>> \/ shim = "gone") /\ IsReady(s.handle) /\ batches < MaxBatches
              f == Batch(digest)
              t == IF flush THEN SendLive(s, f, digest) ELSE s
              G == {Filed(m) : m \in Mail} \cup (IF flush THEN {f} ELSE {})
  <2>2. Becomes(t) /\ batches' = IF flush THEN batches + 1 ELSE batches
    BY <2>1
  <2>3. Q \in SUBSET Msgs /\ Q \subseteq Mail
    BY <1>1
  <2>4. r \in Records /\ Moved(Now, r, G, {})
    BY <1>1, SuppressMoved DEF Inv
  <2>. HIDE DEF r, Q
  <2>5. order \in Seq(Msgs) /\ \A i \in 1 .. Len(order) : order[i] \in Mail
    BY <2>3, OrderType
  <2>6. s \in Records
    BY <2>4, <2>5, SendEachRun
  <2>7. f \in Frame /\ f.body = digest /\ f.id.of = "batch" /\ f.id.key = batches
    BY <1>1, FrameTypes, FrameFacts
  <2>8. \A m \in Mail : Filed(m) \in Frame
    BY <1>1, FrameTypes
  <2>9. Sources(G)
    <3>1. \A S, T : Batch(S) = f /\ Batch(T) = f => S = T
      BY FrameFacts
    <3>2. \A S, m : Batch(S) # Filed(m)
      BY FrameFacts
    <3>3. flush => batches' = batches + 1
      BY <2>2
    <3>. HIDE DEF flush
    <3>. QED
      BY <3>1, <3>2, <3>3 DEF Sources, Source
  <2>. HIDE DEF f, flush
  <2>10. G \in SUBSET Frame /\ {} \in SUBSET G /\ (\A m \in Mail : Filed(m) \in G) /\ (flush => f \in G)
    BY <2>7, <2>8
  <2>. HIDE DEF G
  <2>11. Moved(r, s, G, {})
    BY <2>4, <2>5, <2>10, SendEachMoved
  <2>. HIDE DEF s
  <2>12. Moved(Now, s, G, {})
    BY <2>4, <2>10, <2>11, MovedAgain
  <2>13. t \in Records /\ Moved(Now, t, G, {})
    <3>1. CASE flush
      <4>1. t = SendLive(s, f, digest)
        BY <3>1
      <4>. HIDE DEF t
      <4>2. t \in Records
        BY <1>1, <2>6, <2>7, <4>1, SendLiveType
      <4>3. f \in G
        BY <2>10, <3>1
      <4>4. Moved(s, t, G, {})
        BY <2>6, <2>7, <2>10, <4>1, <4>3, SendLiveMoved
      <4>. QED
        BY <2>10, <2>12, <4>2, <4>4, MovedAgain
    <3>2. CASE ~ flush
      BY <2>6, <2>12, <3>2
    <3>. QED
      BY <3>1, <3>2
  <2>14. batches' \in {batches, batches + 1}
    BY <2>2
  <2>. HIDE DEF t
  <2>. QED
    BY <1>0, <2>2, <2>9, <2>10, <2>13, <2>14, InboxDone
<1>4. {} \in SUBSET Mail
  OBVIOUS
<1>. QED
  BY <1>1, <1>2, <1>3, <1>4 DEF DeliverInbox

\* A message stored in the daemon's memory, or on its way to the agent, by its own
\* frame: what InMemory and OnChannel come to when nothing else covers it.
Kept(m)  == Live(m) \in Queued(pending) \cup Fails(failed)
OnWay(m) == \/ Live(m) \in Queued(wire) \cup Queued(shimq)
            \/ Live(m) \in Refusals /\ Awaiting(Live(m).id)
            \/ Supervisor /\ inflight = Live(m)

\* A step that routes nothing: what the ledger asks of it, message by message.
LEMMA StepLedger ==
    ASSUME Inv, Inv', NEW m \in Msgs,
           fate'[m] = fate[m], box'[m] = box[m] \/ (given'[m] > 0 /\ box[m] = "new"),
           given[m] > 0 => given'[m] > 0,
           Exposed(m) /\ given'[m] > 0 => OnWay(m),
           Exposed(m) /\ Kept(m) => given'[m] > 0 \/ Kept(m)' \/ OnWay(m)' \/ faults' > faults,
           Exposed(m) /\ OnWay(m) => given'[m] > 0 \/ Kept(m)' \/ OnWay(m)' \/ Link' # "up" \/ refusals'[m] > 1,
           Exposed(m) /\ (Kept(m)' \/ OnWay(m)') => Kept(m) \/ OnWay(m)
    PROVE  LedgerOne(m)
<1>1. Exposed(m) => (InMemory(m) <=> Kept(m)) /\ (OnChannel(m) <=> OnWay(m))
  BY Whereabouts DEF Kept, OnWay
<1>2. Exposed(m)' => (InMemory(m)' <=> Kept(m)') /\ (OnChannel(m)' <=> OnWay(m)')
  <2>1. Exposed(m)' =>
             /\ InMemory(m)' <=> Live(m) \in Queued(pending') \cup Fails(failed')
             /\ OnChannel(m)' <=> \/ Live(m) \in Queued(wire') \cup Queued(shimq')
                                  \/ Live(m) \in Refusals' /\ Awaiting(Live(m).id)'
                                  \/ Supervisor' /\ inflight' = Live(m)
    BY WhereaboutsNext
  <2>. QED
    BY <2>1 DEF Kept, OnWay, Live, Queued, Fails
<1>3. given \in [Msgs -> 0 .. 2] /\ given' \in [Msgs -> 0 .. 2]
  BY DEF Inv, Typed, TypeOK
<1>4. given[m] \in 0 .. 2 /\ given'[m] \in 0 .. 2
  BY <1>3
<1>5. Exposed(m) => box'[m] = box[m]
  BY DEF Exposed
<1>6. fate[m] = "unsent" => ~InMemory(m) /\ ~OnChannel(m)
  BY UnsentNowhere
<1>7. Exposed(m) /\ ~ (given'[m] > 0) => Exposed(m)'
  BY <1>4, <1>5 DEF Exposed
<1>8. Exposed(m)' => ~ (given'[m] > 0)
  BY <1>4 DEF Exposed
<1>. HIDE DEF Kept, OnWay
<1>. QED
  BY <1>1, <1>2, <1>4, <1>5, <1>6, <1>7, <1>8 DEF LedgerOne, Exposed, Shut

\* A step that brings no new frame and no new entry keeps what the invariant says of
\* the frames, the entries and the messages.
LEMMA FewerTracked ==
    ASSUME Inv, InUse' \subseteq InUse \cup {NoFrame}, acks' \subseteq acks, batches' = batches,
           \A m \in Msgs : Covered(m) => Covered(m)',
           \A m \in Msgs : fate[m] # "unsent" => fate'[m] # "unsent",
           \A m \in Msgs : box'[m] # "none" => fate'[m] # "unsent"
    PROVE  Proper' /\ Carried' /\ AckFits' /\ Sent'
<1>1. NoFrame.body = {} /\ NoFrame.id.of = "none"
  BY FrameFacts
<1>2. \A f \in InUse : f.body \subseteq Msgs
  BY <1>1, InUseType, FrameTypes DEF Inv
<1>3. Proper'
  <2>1. \A f \in InUse' : \/ f = NoFrame
                          \/ f.id.of # "batch" /\ f.body = {f.id.key}
                          \/ f.id.of = "batch" /\ f.id.key < batches'
    BY DEF Inv, Tracked, Proper
  <2>. QED
    BY <2>1 DEF Proper, NoFrame
<1>4. Carried'
  <2>1. \A f \in InUse' : \A m \in f.body : f = Live(m) \/ Covered(m)'
    BY <1>1, <1>2 DEF Inv, Tracked, Carried
  <2>. QED
    BY <2>1 DEF Carried, Live
<1>5. AckFits'
  <2>1. \A a \in acks' : a.id.of = "batch" => a.id.key < batches' /\ \A f \in InUse' : f.id = a.id => a.files \subseteq f.body
    BY <1>1 DEF Inv, Tracked, AckFits
  <2>2. \A a \in acks' : (a.id.of = "live" => a.files = {}) /\ (a.id.of = "inbox" => a.files \subseteq {a.id.key})
    BY DEF Inv, Tracked, AckFits
  <2>. QED
    BY <2>1, <2>2 DEF AckFits
<1>6. Sent'
  <2>1. \A f \in InUse' : \A m \in f.body : fate'[m] # "unsent"
    BY <1>1, <1>2 DEF Inv, Tracked, Sent
  <2>. QED
    BY <2>1 DEF Sent
<1>. QED
  BY <1>3, <1>4, <1>5, <1>6

-----------------------------------------------------------------------------
(* The steps of the tick that route nothing. *)

\* What the shim acknowledges has been given: its file leaves new/, and nobody waits
\* for the answer any more.
LEMMA OnMessageDeliveredDone ==
    ASSUME Inv, OnMessageDelivered PROVE Inv' /\ Ledger!Next
<1>. DEFINE done == UNION {a.files : a \in {b \in acks : b.id = Arg}}
<1>0. Typed'
  BY HandlersTyped DEF Inv
<1>1. /\ box' = [m \in Msgs |-> IF m \in done /\ box[m] = "new" THEN "cur" ELSE box[m]]
      /\ acks' = {a \in acks : a.id # Arg}
      /\ UNCHANGED <<kind, shim, shimq, given, refusals, batches, handle, member, inflight, pending, failed, wire, fate, faults>>
  BY DEF OnMessageDelivered, Poll
<1>2. events # <<>> /\ events' = Tail(events) /\ Head(events).op = "MessageDelivered" /\ Arg \in FrameIds
  BY PollType DEF OnMessageDelivered, Poll, Inv
<1>3. /\ Refusals' = Refusals /\ Answers' \subseteq Answers /\ Arg \in Answers
      /\ \A m : Once(m) => Once(m)'
  BY <1>2, ReadEvent DEF Inv, Arg
<1>4. Arg.of # "batch" => given[Arg.key] > 0
  BY <1>3 DEF Inv, Tracked, Delivered
<1>5. ASSUME NEW m \in done PROVE given[m] > 0
  <2>1. PICK a \in acks : a.id = Arg /\ m \in a.files
    OBVIOUS
  <2>2. CASE Arg.of = "batch"
    BY <1>3, <2>1, <2>2 DEF Inv, Tracked, Delivered
  <2>3. CASE Arg.of # "batch"
    BY <1>2, <1>4, <2>1, <2>3 DEF Inv, Tracked, AckFits, FrameIds
  <2>. QED
    BY <2>2, <2>3
<1>. HIDE DEF done
<1>6. \A m \in Msgs : box'[m] = box[m] \/ (given[m] > 0 /\ box[m] = "new" /\ box'[m] = "cur")
  BY <1>1, <1>5
<1>7. \A m \in Msgs : Covered(m) <=> Covered(m)'
  BY <1>1, <1>6 DEF Covered
<1>8. InUse' = InUse
  BY <1>1, <1>3 DEF InUse, Queued, Fails
<1>9. Proper' /\ Carried' /\ AckFits' /\ Sent'
  <2>1. \A m \in Msgs : box[m] # "none" => fate[m] # "unsent"
    BY DEF Inv, Tracked, Sent
  <2>2. \A m \in Msgs : box'[m] # "none" => fate'[m] # "unsent"
    BY <1>1, <1>6, <2>1
  <2>. QED
    BY <1>1, <1>7, <1>8, <2>2, FewerTracked
<1>10. Delivered'
  BY <1>1, <1>3 DEF Inv, Tracked, Delivered
<1>11. \A m \in Msgs : given[m] = 0 /\ Awaiting(Live(m).id) => Awaiting(Live(m).id)'
  BY <1>1, <1>4, FrameFacts DEF Awaiting, Live
<1>12. Awaited'
  BY <1>1, <1>11 DEF Inv, Tracked, Awaited, Live, Queued
<1>13. OneRefusal'
  BY <1>1, <1>3 DEF Inv, Tracked, OneRefusal, Live, Fails, Queued
<1>14. RefusedAwaited'
  BY <1>1, <1>3, <1>11 DEF Inv, Tracked, RefusedAwaited, Live
<1>15. Replayable'
  <2>1. \A m \in Msgs : box'[m] # "tierNew" => box[m] # "tierNew"
    BY <1>6
  <2>2. Supervisor' <=> Supervisor
    BY <1>1 DEF Supervisor
  <2>. QED
    BY <1>1, <1>3, <1>7, <2>1, <2>2 DEF Inv, Tracked, Replayable, Live, Queued
<1>16. Inv'
  BY <1>0, <1>9, <1>10, <1>12, <1>13, <1>14, <1>15 DEF Inv, Tracked
<1>17. ASSUME NEW m \in Msgs PROVE LedgerOne(m)
  <2>1. Kept(m)' <=> Kept(m)
    BY <1>1 DEF Kept, Live, Queued, Fails
  <2>2. OnWay(m)' => OnWay(m)
    BY <1>1, <1>3 DEF OnWay, Live, Queued, Awaiting, Supervisor
  <2>3. given[m] = 0 /\ OnWay(m) => OnWay(m)'
    BY <1>1, <1>3, <1>11 DEF OnWay, Live, Queued, Supervisor
  <2>4. Exposed(m) => given[m] = 0 /\ ~ (given'[m] > 0)
    BY <1>1 DEF Exposed
  <2>. HIDE DEF Kept, OnWay
  <2>. QED
    BY <1>1, <1>6, <1>16, <2>1, <2>2, <2>3, <2>4, StepLedger
<1>18. faults' \in {faults, faults + 1} /\ \A m \in Msgs : refusals'[m] \in {refusals[m], refusals[m] + 1}
  BY <1>1
<1>. QED
  BY <1>16, <1>17, <1>18, LedgerStep DEF Inv

\* A message that the shim could not write is recorded for a retry, unless an entry
\* of it already is, or its file is still in the inbox.
LEMMA OnDeliveryFailedDone ==
    ASSUME Inv, OnDeliveryFailed PROVE Inv' /\ Ledger!Next
<1>. DEFINE mine == inflight # NoFrame /\ inflight.id = Arg.id
            known == {a \in acks : a.id = Arg.id}
            again == \E a \in known : a.files = {} /\ \A i \in DOMAIN failed : failed[i].frame.body # Arg.body
            e == [frame |-> Arg, attempts |-> 1]
<1>0. Typed'
  BY HandlersTyped DEF Inv
<1>1. /\ inflight' = IF mine THEN NoFrame ELSE inflight
      /\ acks' = acks \ known
      /\ failed' = IF again THEN Append(failed, e) ELSE failed
      /\ UNCHANGED <<kind, shim, shimq, given, refusals, batches, pending, box, wire, fate, faults>>
  BY DEF OnDeliveryFailed, Poll
<1>2. events # <<>> /\ events' = Tail(events) /\ Head(events).op = "DeliveryFailed" /\ Arg \in Frame
  BY PollType DEF OnDeliveryFailed, Poll, Inv
<1>3. /\ Refusals = Refusals' \cup {Arg} /\ Answers' \subseteq Answers
      /\ \A m : Once(m) => Once(m)'
      /\ \A m : Once(m) /\ IsRefusal(1, m) => Live(m) \notin Refusals'
  BY <1>2, ReadEvent DEF Inv, Arg
<1>4. Arg \in InUse /\ Refusals \subseteq InUse /\ Fails(failed) \subseteq InUse
  BY <1>3 DEF InUse
<1>5. Fails(failed') = IF again THEN Fails(failed) \cup {Arg} ELSE Fails(failed)
  <2>0. e \in Failures
    BY <1>2, DeliveryAssumption DEF Failures
  <2>1. failed \in Seq(Failures) /\ e \in Failures
    BY <2>0 DEF Inv, Typed, TypeOK
  <2>2. Queued(Append(failed, e)) = Queued(failed) \cup {e}
    BY <2>1, QueuedFacts
  <2>3. e.frame = Arg
    OBVIOUS
  <2>. HIDE DEF e, again
  <2>. QED
    BY <1>1, <2>2, <2>3 DEF Fails
<1>6. \A m \in Msgs : Arg.id = Live(m).id => Arg = Live(m)
  <2>1. ASSUME NEW m \in Msgs, Arg.id = Live(m).id PROVE Arg = Live(m)
    <3>1. Arg.id.of = "live"
      BY <2>1, FrameFacts
    <3>2. Arg.body = {Arg.id.key}
      BY <1>4, <3>1, FrameFacts DEF Inv, Tracked, Proper
    <3>. QED
      BY <1>2, <2>1, <3>2, LiveById
  <2>. QED
    BY <2>1
<1>7. \A m \in Msgs : Awaiting(Live(m).id) => Awaiting(Live(m).id)' \/ Arg = Live(m)
  BY <1>1, <1>6 DEF Awaiting, Live
<1>. HIDE DEF again
<1>8. InUse' \subseteq InUse \cup {NoFrame}
  <2>1. InUse' = {inflight'} \cup Queued(pending) \cup Fails(failed') \cup Queued(wire) \cup Queued(shimq) \cup Refusals'
    BY <1>1 DEF InUse, Queued, Fails
  <2>. QED
    BY <1>1, <1>3, <1>5, <2>1 DEF InUse
<1>9. Proper' /\ Carried' /\ AckFits' /\ Sent'
  <2>1. \A m \in Msgs : Covered(m) <=> Covered(m)'
    BY <1>1 DEF Covered
  <2>2. \A m \in Msgs : box[m] # "none" => fate[m] # "unsent"
    BY DEF Inv, Tracked, Sent
  <2>. QED
    BY <1>1, <1>8, <2>1, <2>2, FewerTracked
<1>10. Delivered'
  BY <1>1, <1>3 DEF Inv, Tracked, Delivered
<1>11. Awaited'
  <2>1. \A m \in Msgs : refusals[m] = 0 => Live(m) # Arg
    BY <1>3 DEF Inv, Tracked, OneRefusal
  <2>. QED
    BY <1>1, <1>7, <2>1 DEF Inv, Tracked, Awaited, Live, Queued
<1>12. \A m \in Msgs : refusals[m] \in Nat
  <2>1. refusals \in [Msgs -> 0 .. MaxRefusals] /\ MaxRefusals \in Nat
    BY DeliveryAssumption DEF Inv, Typed, TypeOK
  <2>. QED
    BY <2>1
<1>13. OneRefusal'
  <2>1. ASSUME NEW m \in Msgs, refusals[m] = 0 PROVE Live(m) \notin Refusals' \cup Fails(failed')
    <3>1. Live(m) \notin Refusals \cup Fails(failed)
      BY <2>1 DEF Inv, Tracked, OneRefusal
    <3>. QED
      BY <1>3, <1>5, <3>1
  <2>2. \A m \in Msgs : refusals[m] = 1 => Once(m)'
    BY <1>3 DEF Inv, Tracked, OneRefusal
  <2>. QED
    BY <1>1, <2>1, <2>2 DEF OneRefusal, Live, Fails, Queued
<1>14. \A m \in Msgs : refusals[m] <= 1 /\ Arg = Live(m) => Live(m) \notin Refusals'
  <2>1. ASSUME NEW m \in Msgs, refusals[m] <= 1, Arg = Live(m) PROVE Live(m) \notin Refusals'
    <3>1. refusals[m] # 0
      BY <1>3, <2>1 DEF Inv, Tracked, OneRefusal
    <3>2. refusals[m] = 1
      BY <1>12, <2>1, <3>1
    <3>3. Once(m)
      BY <3>2 DEF Inv, Tracked, OneRefusal
    <3>4. IsRefusal(1, m)
      <4>1. events \in Seq(Notices)
        BY DEF Inv, Typed
      <4>2. Head(events) = events[1]
        BY <1>2, <4>1
      <4>. QED
        BY <1>2, <2>1, <4>2 DEF IsRefusal, Arg
    <3>. QED
      BY <1>3, <3>3, <3>4
  <2>. QED
    BY <2>1
<1>15. RefusedAwaited'
  BY <1>1, <1>3, <1>7, <1>14 DEF Inv, Tracked, RefusedAwaited, Live
<1>16. Replayable'
  <2>1. \A m \in Msgs : Covered(m)' <=> Covered(m)
    BY <1>1 DEF Covered
  <2>2. Supervisor' <=> Supervisor
    BY <1>1 DEF Supervisor
  <2>3. \A m \in Msgs : inflight' = Live(m) => inflight = Live(m) /\ Arg # Live(m)
    BY <1>1, FrameFacts
  <2>. QED
    BY <1>1, <1>3, <2>1, <2>2, <2>3 DEF Inv, Tracked, Replayable, Live, Queued
<1>17. Inv'
  BY <1>0, <1>9, <1>10, <1>11, <1>13, <1>15, <1>16 DEF Inv, Tracked
<1>18. ASSUME NEW m \in Msgs PROVE LedgerOne(m)
  <2>1. Kept(m) => Kept(m)'
    BY <1>1, <1>5 DEF Kept, Live, Queued, Fails
  <2>2. Exposed(m) => given[m] = 0 /\ ~ (given'[m] > 0)
    BY <1>1 DEF Exposed
  <2>3. ASSUME Exposed(m), OnWay(m), Link' = "up", ~ (refusals'[m] > 1) PROVE Kept(m)' \/ OnWay(m)'
    <3>1. shim \in {"starting", "idle", "working"} /\ refusals[m] <= 1
      BY <1>1, <1>12, <2>3 DEF Link
    <3>2. OnChannel(m)
      BY <2>3, Whereabouts DEF OnWay
    <3>3. \/ Live(m) \in Queued(wire) \cup Queued(shimq)
          \/ Live(m) \in Refusals /\ Awaiting(Live(m).id)
      BY <2>3, <3>1, <3>2, ReallyOnChannel
    <3>4. CASE Live(m) \in Queued(wire) \cup Queued(shimq)
      BY <1>1, <3>4 DEF OnWay, Live, Queued
    <3>5. CASE Live(m) \in Refusals /\ Awaiting(Live(m).id) /\ Arg # Live(m)
      BY <1>3, <1>7, <3>5 DEF OnWay, Live
    <3>6. CASE Awaiting(Live(m).id) /\ Arg = Live(m)
      <4>1. PICK a \in acks : a.id = Arg.id
        BY <3>6 DEF Awaiting
      <4>2. a.files = {} /\ a \in known
        BY <3>6, <4>1, FrameFacts DEF Inv, Tracked, AckFits
      <4>3. CASE again
        BY <1>1, <1>5, <3>6, <4>3 DEF Kept, Live, Queued, Fails
      <4>4. CASE ~again
        <5>1. PICK i \in DOMAIN failed : failed[i].frame.body = Arg.body
          BY <4>2, <4>4 DEF again
        <5>2. failed[i].frame \in Fails(failed)
          BY <5>1 DEF Fails, Queued
        <5>3. failed[i].frame = Live(m)
          BY <1>4, <2>3, <3>6, <5>1, <5>2, Whereabouts, FrameFacts
        <5>4. Kept(m)
          BY <5>2, <5>3 DEF Kept
        <5>. QED
          BY <2>1, <5>4
      <4>. QED
        BY <4>3, <4>4
    <3>. QED
      BY <3>3, <3>4, <3>5, <3>6
  <2>4. Kept(m)' => Kept(m) \/ OnWay(m)
    <3>1. again => Awaiting(Arg.id)
      BY DEF again, Awaiting
    <3>2. Kept(m)' => Live(m) \in Queued(pending) \cup Fails(failed')
      BY <1>1 DEF Kept, Live, Queued, Fails
    <3>. QED
      BY <1>3, <1>5, <3>1, <3>2 DEF Kept, OnWay
  <2>5. OnWay(m)' => OnWay(m)
    <3>1. Awaiting(Live(m).id)' => Awaiting(Live(m).id)
      BY <1>1 DEF Awaiting, Live
    <3>2. OnWay(m)' => \/ Live(m) \in Queued(wire) \cup Queued(shimq)
                       \/ Live(m) \in Refusals' /\ Awaiting(Live(m).id)'
                       \/ Supervisor /\ inflight' = Live(m)
      BY <1>1 DEF OnWay, Live, Queued, Supervisor
    <3>. QED
      BY <1>1, <1>3, <3>1, <3>2, FrameFacts DEF OnWay
  <2>6. fate'[m] = fate[m] /\ box'[m] = box[m] /\ given'[m] = given[m]
    BY <1>1
  <2>. HIDE DEF Kept, OnWay
  <2>. QED
    BY <1>17, <2>1, <2>2, <2>3, <2>4, <2>5, <2>6, StepLedger
<1>19. faults' \in {faults, faults + 1} /\ \A m \in Msgs : refusals'[m] \in {refusals[m], refusals[m] + 1}
  BY <1>1
<1>. QED
  BY <1>17, <1>18, <1>19, LedgerStep DEF Inv

\* A step that leaves the frames, the entries and the messages alone, but for the
\* forgotten ones: the rest of the invariant.
LEMMA SameTracked ==
    ASSUME Inv, InUse' \subseteq InUse \cup {NoFrame}, acks' \subseteq acks,
           Answers' \subseteq Answers, UNCHANGED <<box, given, fate, refusals, batches>>
    PROVE  Proper' /\ Carried' /\ AckFits' /\ Sent' /\ Delivered'
<1>1. \A m \in Msgs : Covered(m) <=> Covered(m)'
  BY DEF Covered
<1>2. \A m \in Msgs : box[m] # "none" => fate[m] # "unsent"
  BY DEF Inv, Tracked, Sent
<1>3. Delivered'
  BY DEF Inv, Tracked, Delivered
<1>. QED
  BY <1>1, <1>2, <1>3, FewerTracked

\* An exhausted agent's shim is told to shut down.
LEMMA OnContextExhaustedDone ==
    ASSUME Inv, OnContextExhausted PROVE Inv' /\ Ledger!Next
<1>0. Typed'
  BY HandlersTyped DEF Inv
<1>1. UNCHANGED <<kind, shim, shimq, given, refusals, batches, inflight, pending, failed, acks, box, fate, faults>>
  BY DEF OnContextExhausted, Poll
<1>2. Refusals' = Refusals /\ Answers' \subseteq Answers /\ \A m : Once(m) => Once(m)'
  <2>1. events # <<>> /\ events' = Tail(events) /\ Head(events).op = "ContextExhausted"
    BY DEF OnContextExhausted, Poll
  <2>. QED
    BY <2>1, ReadEvent DEF Inv
<1>3. Queued(wire') = Queued(wire) \cup {NoFrame}
  <2>1. wire \in Seq(Frame \cup {NoFrame}) /\ wire' = Append(wire, NoFrame)
    BY DEF OnContextExhausted, Inv, Typed, TypeOK
  <2>. QED
    BY <2>1, QueuedFacts
<1>4. InUse' \subseteq InUse \cup {NoFrame}
  <2>1. InUse' = {inflight} \cup Queued(pending) \cup Fails(failed) \cup Queued(wire') \cup Queued(shimq) \cup Refusals'
    BY <1>1 DEF InUse, Queued, Fails
  <2>. QED
    BY <1>2, <1>3, <2>1 DEF InUse
<1>5. Proper' /\ Carried' /\ AckFits' /\ Sent' /\ Delivered'
  BY <1>1, <1>2, <1>4, SameTracked
<1>6. \A m \in Msgs : (Live(m) \in Queued(wire) <=> Live(m) \in Queued(wire')) /\ Live(m) # NoFrame
  BY <1>3, FrameFacts
<1>7. Awaited'
  BY <1>1, <1>6 DEF Inv, Tracked, Awaited, Live, Queued, Awaiting
<1>8. OneRefusal' /\ RefusedAwaited'
  BY <1>1, <1>2 DEF Inv, Tracked, OneRefusal, RefusedAwaited, Live, Fails, Queued, Awaiting
<1>9. Replayable'
  BY <1>1, <1>2, <1>6 DEF Inv, Tracked, Replayable, Live, Queued, Covered, Supervisor
<1>10. Inv'
  BY <1>0, <1>5, <1>7, <1>8, <1>9 DEF Inv, Tracked
<1>11. ASSUME NEW m \in Msgs PROVE LedgerOne(m)
  <2>1. Kept(m)' <=> Kept(m)
    BY <1>1 DEF Kept, Live, Queued, Fails
  <2>2. OnWay(m)' <=> OnWay(m)
    BY <1>1, <1>2, <1>6 DEF OnWay, Live, Queued, Awaiting, Supervisor
  <2>3. fate'[m] = fate[m] /\ box'[m] = box[m] /\ given'[m] = given[m]
    BY <1>1
  <2>4. Exposed(m) => ~ (given'[m] > 0)
    BY <2>3 DEF Exposed
  <2>. HIDE DEF Kept, OnWay
  <2>. QED
    BY <1>10, <2>1, <2>2, <2>3, <2>4, StepLedger
<1>12. faults' \in {faults, faults + 1} /\ \A m \in Msgs : refusals'[m] \in {refusals[m], refusals[m] + 1}
  BY <1>1
<1>. QED
  BY <1>10, <1>11, <1>12, LedgerStep DEF Inv

\* A new shim takes the place of the old one: what was on its way is lost, but for a
\* supervisor's message in flight.
LEMMA Restarted ==
    ASSUME Inv, Typed', wire' = <<>>, shimq' = <<>>, events' = <<>>, inflight' = NoFrame, shim' = "starting",
           acks' \subseteq acks, Fails(failed') \subseteq Fails(failed),
           Queued(pending') \subseteq Queued(pending) \cup IF Supervisor THEN {inflight} ELSE {},
           \/ Queued(pending) \subseteq Queued(pending') /\ Fails(failed) \subseteq Fails(failed')
           \/ faults' > faults,
           faults' \in {faults, faults + 1},
           UNCHANGED <<kind, box, given, fate, refusals, batches>>
    PROVE  Inv' /\ Ledger!Next
<1>1. Refusals' = {} /\ Answers' = {} /\ (\A m : Once(m)') /\ Queued(wire') = {} /\ Queued(shimq') = {}
  BY QueuedSmall DEF Refusals, Answers, Queued, Once
<1>2. InUse' \subseteq InUse \cup {NoFrame}
  <2>1. InUse' = {inflight'} \cup Queued(pending') \cup Fails(failed') \cup Queued(wire') \cup Queued(shimq') \cup Refusals'
    BY DEF InUse, Queued, Fails
  <2>. QED
    BY <1>1, <2>1 DEF InUse
<1>3. Proper' /\ Carried' /\ AckFits' /\ Sent' /\ Delivered'
  BY <1>1, <1>2, SameTracked
<1>4. Awaited' /\ RefusedAwaited'
  BY <1>1 DEF Awaited, RefusedAwaited, Live, Queued
<1>5. OneRefusal'
  BY <1>1 DEF Inv, Tracked, OneRefusal, Live, Fails, Queued
<1>6. Replayable'
  BY FrameFacts DEF Replayable, Live
<1>7. Inv'
  BY <1>3, <1>4, <1>5, <1>6 DEF Inv, Tracked
<1>8. ASSUME NEW m \in Msgs PROVE LedgerOne(m)
  <2>1. Kept(m)' <=> Live(m) \in Queued(pending') \cup Fails(failed')
    BY DEF Kept, Live, Queued, Fails
  <2>2. Kept(m) => Kept(m)' \/ faults' > faults
    BY <2>1 DEF Kept
  <2>3. Kept(m)' => Kept(m) \/ OnWay(m)
    BY <2>1 DEF Kept, OnWay
  <2>4. ~OnWay(m)'
    BY <1>1, FrameFacts DEF OnWay, Live, Queued
  <2>5. fate'[m] = fate[m] /\ box'[m] = box[m] /\ given'[m] = given[m] /\ Link' # "up"
    BY DEF Link
  <2>6. Exposed(m) => ~ (given'[m] > 0)
    BY <2>5 DEF Exposed
  <2>. HIDE DEF Kept, OnWay
  <2>. QED
    BY <1>7, <2>2, <2>3, <2>4, <2>5, <2>6, StepLedger
<1>9. \A m \in Msgs : refusals'[m] \in {refusals[m], refusals[m] + 1}
  OBVIOUS
<1>. QED
  BY <1>7, <1>8, <1>9, LedgerStep DEF Inv

\* The restarts: after the shim's death, of a stalled shim, and of the daemon.
LEMMA RestartsDone ==
    ASSUME Inv, OnDied \/ ColdRespawn \/ DaemonRestart PROVE Inv' /\ Ledger!Next
<1>0. Typed'
  BY RestartsTyped DEF Inv
<1>1. /\ pending \in Seq(Frame) /\ inflight \in Frame \cup {NoFrame} /\ faults \in Nat
  BY DeliveryAssumption DEF Inv, Typed, TypeOK
<1>2. CASE OnDied
  <2>1. UNCHANGED <<kind, failed, acks, box, given, fate, refusals, batches>>
    BY <1>2 DEF OnDied
  <2>2. CASE Respawn(FALSE) /\ UNCHANGED faults
    <3>1. /\ wire' = <<>> /\ shimq' = <<>> /\ events' = <<>> /\ inflight' = NoFrame /\ shim' = "starting"
          /\ pending' = pending /\ faults' = faults
      BY <2>2 DEF Respawn
    <3>. QED
      BY <1>0, <2>1, <3>1, Restarted
  <2>3. CASE /\ Fault("park") /\ events' = Tail(events) /\ events # <<>> /\ Head(events).op = "Died"
             /\ UNCHANGED <<inflight, pending, shim, wire, shimq>>
    <3>1. Reads /\ faults' \in {faults, faults + 1} /\ inflight' \in {inflight, NoFrame}
      BY <2>3 DEF Reads, Fault
    <3>. QED
      BY <1>0, <2>1, <2>3, <3>1, QuietDone
  <2>. QED
    BY <1>2, <2>2, <2>3 DEF OnDied
<1>3. CASE ColdRespawn
  <2>1. UNCHANGED <<kind, failed, acks, box, given, fate, refusals, batches, faults>>
    BY <1>3 DEF ColdRespawn
  <2>2. /\ wire' = <<>> /\ shimq' = <<>> /\ events' = <<>> /\ inflight' = NoFrame /\ shim' = "starting"
        /\ pending' = IF Supervisor /\ inflight # NoFrame THEN <<inflight>> \o pending ELSE pending
    BY <1>3 DEF ColdRespawn, Respawn
  <2>3. inflight # NoFrame => Queued(<<inflight>> \o pending) = {inflight} \cup Queued(pending)
    <3>1. SUFFICES ASSUME inflight # NoFrame PROVE Queued(<<inflight>> \o pending) = {inflight} \cup Queued(pending)
      OBVIOUS
    <3>2. <<inflight>> \in Seq(Frame) /\ pending \in Seq(Frame)
      BY <1>1, <3>1
    <3>3. Queued(<<inflight>> \o pending) = Queued(<<inflight>>) \cup Queued(pending)
      BY <3>2, QueuedJoin
    <3>. QED
      BY <3>3, QueuedSmall
  <2>4. /\ Queued(pending') \subseteq Queued(pending) \cup IF Supervisor THEN {inflight} ELSE {}
        /\ Queued(pending) \subseteq Queued(pending')
    BY <2>2, <2>3
  <2>. QED
    BY <1>0, <2>1, <2>2, <2>4, Restarted
<1>4. CASE DaemonRestart
  <2>1. /\ wire' = <<>> /\ shimq' = <<>> /\ events' = <<>> /\ inflight' = NoFrame /\ shim' = "starting"
        /\ pending' = <<>> /\ failed' = <<>> /\ acks' = {}
        /\ UNCHANGED <<kind, box, given, fate, refusals, batches>>
        /\ faults' = faults + 1
    BY <1>4 DEF DaemonRestart, Fault
  <2>2. Queued(pending') = {} /\ Fails(failed') = {} /\ faults' > faults
    BY <1>1, <2>1, QueuedSmall
  <2>. QED
    BY <1>0, <2>1, <2>2, Restarted
<1>. QED
  BY <1>2, <1>3, <1>4

\* The steps that touch neither a frame nor a message.
LEMMA QuietStepsDone ==
    ASSUME Inv, \/ OnCompletion \/ PollDone \/ NotStuck \/ SkipInbox
                \/ \E m \in Msgs : BecomesStale(m)
    PROVE  Inv' /\ Ledger!Next
<1>. USE DEF memory, channel, count
<1>0. Typed'
  BY HandlersTyped, QuietTyped DEF Inv
<1>1. /\ Reads /\ inflight' \in {inflight, NoFrame} /\ faults' \in {faults, faults + 1}
      /\ UNCHANGED <<pending, failed, acks, box, wire, fate, kind, shim, shimq, given, refusals, batches>>
  BY DEF OnCompletion, Poll, PollDone, NotStuck, SkipInbox, BecomesStale, Reads
<1>. QED
  BY <1>0, <1>1, QuietDone

\* A step that changes one message's file, and no frame.
LEMMA FiledTracked ==
    ASSUME Inv, UNCHANGED <<kind, inflight, pending, failed, acks, shim, shimq, wire, events, given, refusals, batches>>,
           \A m \in Msgs : Covered(m) => Covered(m)',
           \A m \in Msgs : fate[m] # "unsent" => fate'[m] # "unsent",
           \A m \in Msgs : box'[m] # "none" => fate'[m] # "unsent",
           \A m \in Msgs : box[m] = "tierNew" => box'[m] = "tierNew" \/ Covered(m)'
    PROVE  Tracked'
<1>1. /\ InUse' = InUse /\ Refusals' = Refusals /\ Answers' = Answers
      /\ (\A m : Once(m) <=> Once(m)')
  BY DEF InUse, Queued, Fails, Refusals, Answers, Once, IsRefusal, Live
<1>2. Proper' /\ Carried' /\ AckFits' /\ Sent'
  BY <1>1, FewerTracked
<1>3. Delivered'
  BY <1>1 DEF Inv, Tracked, Delivered
<1>4. Awaited' /\ OneRefusal' /\ RefusedAwaited'
  BY <1>1 DEF Inv, Tracked, Awaited, OneRefusal, RefusedAwaited, Live, Fails, Queued, Awaiting
<1>5. Replayable'
  BY <1>1 DEF Inv, Tracked, Replayable, Live, Queued, Supervisor
<1>. QED
  BY <1>2, <1>3, <1>4, <1>5 DEF Tracked

\* What an inbox has kept too long expires.
LEMMA SweepTiersDone ==
    ASSUME Inv, SweepTiers PROVE Inv' /\ Ledger!Next
<1>. USE DEF memory, channel, count
<1>0. Typed'
  BY QuietTyped DEF Inv
<1>1. PICK m \in Msgs : /\ box[m] = "tierNew" /\ box' = [box EXCEPT ![m] = "tierCur"]
                        /\ fate' = [fate EXCEPT ![m] = "expired"]
  BY DEF SweepTiers
<1>2. UNCHANGED <<kind, inflight, pending, failed, acks, shim, shimq, wire, events, given, refusals, batches, faults>>
  BY DEF SweepTiers
<1>3. box \in [Msgs -> Boxes] /\ fate \in [Msgs -> Fates]
  BY DEF Inv, Typed, TypeOK
<1>4. /\ box'[m] = "tierCur" /\ fate'[m] = "expired"
      /\ \A k \in Msgs : k # m => box'[k] = box[k] /\ fate'[k] = fate[k]
  BY <1>1, <1>3
<1>5. \A k \in Msgs : box[k] # "none" => fate[k] # "unsent"
  BY DEF Inv, Tracked, Sent
<1>6. Tracked'
  <2>1. \A k \in Msgs : Covered(k) => Covered(k)'
    BY <1>1, <1>2, <1>4 DEF Covered, Shut
  <2>2. \A k \in Msgs : (fate[k] # "unsent" => fate'[k] # "unsent") /\ (box'[k] # "none" => fate'[k] # "unsent")
    BY <1>4, <1>5
  <2>3. \A k \in Msgs : box[k] = "tierNew" => box'[k] = "tierNew" \/ Covered(k)'
    BY <1>4 DEF Covered, Shut
  <2>. QED
    BY <1>2, <2>1, <2>2, <2>3, FiledTracked
<1>7. Inv'
  BY <1>0, <1>6 DEF Inv
<1>8. ASSUME NEW k \in Msgs PROVE LedgerOne(k)
  <2>1. CASE k = m
    <3>1. ~Exposed(k) /\ Shut(fate'[k]) /\ fate'[k] # "unsent" /\ given' = given
      BY <1>1, <1>2, <1>4, <2>1 DEF Exposed, Shut
    <3>. QED
      BY <3>1 DEF LedgerOne
  <2>2. CASE k # m
    <3>1. fate'[k] = fate[k] /\ box'[k] = box[k] /\ given'[k] = given[k]
      BY <1>2, <1>4, <2>2
    <3>2. (Kept(k)' <=> Kept(k)) /\ (OnWay(k)' <=> OnWay(k))
      BY <1>2 DEF Kept, OnWay, Live, Queued, Fails, Refusals, Awaiting, Supervisor
    <3>3. Exposed(k) => ~ (given'[k] > 0)
      BY <3>1 DEF Exposed
    <3>. HIDE DEF Kept, OnWay
    <3>. QED
      BY <1>7, <3>1, <3>2, <3>3, StepLedger
  <2>. QED
    BY <2>1, <2>2
<1>9. faults' \in {faults, faults + 1} /\ \A k \in Msgs : refusals'[k] \in {refusals[k], refusals[k] + 1}
  BY <1>2
<1>. QED
  BY <1>7, <1>8, <1>9, LedgerStep DEF Inv

\* A message is put into the inbox.
LEMMA InboxMessageDone ==
    ASSUME Inv, NEW m \in Msgs, InboxMessage(m) PROVE Inv' /\ Ledger!Next
<1>. USE DEF memory, channel, count
<1>0. Typed'
  BY QuietTyped DEF Inv
<1>1. PICK b \in {"new", "tierNew"} : box' = [box EXCEPT ![m] = b]
  BY DEF InboxMessage
<1>2. /\ UNCHANGED <<kind, inflight, pending, failed, acks, shim, shimq, wire, events, given, refusals, batches, faults>>
      /\ fate[m] = "unsent" /\ fate' = [fate EXCEPT ![m] = "none"]
  BY DEF InboxMessage
<1>3. box \in [Msgs -> Boxes] /\ fate \in [Msgs -> Fates]
  BY DEF Inv, Typed, TypeOK
<1>4. /\ box'[m] \in {"new", "tierNew"} /\ fate'[m] = "none"
      /\ \A k \in Msgs : k # m => box'[k] = box[k] /\ fate'[k] = fate[k]
  BY <1>1, <1>2, <1>3
<1>5. \A k \in Msgs : box[k] # "none" => fate[k] # "unsent"
  BY DEF Inv, Tracked, Sent
<1>6. box[m] = "none"
  BY <1>2, <1>5
<1>7. Tracked'
  <2>1. \A k \in Msgs : Covered(k) => Covered(k)'
    BY <1>2, <1>4, <1>6 DEF Covered, Shut
  <2>2. \A k \in Msgs : (fate[k] # "unsent" => fate'[k] # "unsent") /\ (box'[k] # "none" => fate'[k] # "unsent")
    BY <1>4, <1>5
  <2>3. \A k \in Msgs : box[k] = "tierNew" => box'[k] = "tierNew" \/ Covered(k)'
    BY <1>4, <1>6
  <2>. QED
    BY <1>2, <2>1, <2>2, <2>3, FiledTracked
<1>8. Inv'
  BY <1>0, <1>7 DEF Inv
<1>9. ASSUME NEW k \in Msgs PROVE LedgerOne(k)
  <2>1. CASE k = m
    <3>1. /\ ~InMemory(k) /\ ~OnChannel(k) /\ fate[k] = "unsent" /\ box[k] = "none"
          /\ ~Exposed(k)' /\ given' = given /\ fate'[k] # "unsent"
      BY <1>2, <1>4, <1>6, <2>1, UnsentNowhere DEF Exposed
    <3>. QED
      BY <3>1 DEF LedgerOne, Exposed, Shut
  <2>2. CASE k # m
    <3>1. fate'[k] = fate[k] /\ box'[k] = box[k] /\ given'[k] = given[k]
      BY <1>2, <1>4, <2>2
    <3>2. (Kept(k)' <=> Kept(k)) /\ (OnWay(k)' <=> OnWay(k))
      BY <1>2 DEF Kept, OnWay, Live, Queued, Fails, Refusals, Awaiting, Supervisor
    <3>3. Exposed(k) => ~ (given'[k] > 0)
      BY <3>1 DEF Exposed
    <3>. HIDE DEF Kept, OnWay
    <3>. QED
      BY <1>8, <3>1, <3>2, <3>3, StepLedger
  <2>. QED
    BY <2>1, <2>2
<1>10. faults' \in {faults, faults + 1} /\ \A k \in Msgs : refusals'[k] \in {refusals[k], refusals[k] + 1}
  BY <1>2
<1>. QED
  BY <1>8, <1>9, <1>10, LedgerStep DEF Inv

-----------------------------------------------------------------------------
(* The steps of the shim. *)

Running(x) == x \in {"starting", "idle", "working"}

\* The shim takes frames from its queues, gives those in F to the agent, and tells
\* what it did; a shim that goes on drops none of the others.
LEMMA ShimMoves ==
    ASSUME Inv, Typed', NEW s \in Seq(Notices), Emit(s), \A e \in Queued(s) : e.op # "DeliveryFailed",
           Queued(wire') \subseteq Queued(wire), Queued(shimq') \subseteq Queued(wire) \cup Queued(shimq),
           NEW F \in SUBSET (Frame \cap (Queued(wire) \cup Queued(shimq))),
           \A e \in Queued(s) : e.op = "MessageDelivered" => \E f \in F : e.arg = f.id,
           \A m \in Msgs : given[m] > 0 => given'[m] > 0,
           \A m \in Msgs : \A f \in F : m \in f.body => given'[m] > 0,
           \A m \in Msgs : given'[m] > 0 => given[m] > 0 \/ \E f \in F : m \in f.body,
           Running(shim') => /\ Running(shim)
                             /\ Queued(wire) \cup Queued(shimq) \subseteq Queued(wire') \cup Queued(shimq') \cup F,
           faults' \in {faults, faults + 1},
           UNCHANGED <<kind, inflight, pending, failed, acks, box, fate, refusals, batches>>
    PROVE  Inv' /\ Ledger!Next
<1>1. /\ Refusals' = Refusals /\ (\A m : Once(m) => Once(m)')
      /\ \A x \in Answers' : x \in Answers \/ \E f \in F : x = f.id
  <2>1. {e.arg : e \in {x \in Queued(s) : x.op = "DeliveryFailed"}} = {}
    OBVIOUS
  <2>2. \A m : \A e \in Queued(s) : ~ (e.op = "DeliveryFailed" /\ e.arg = Live(m))
    OBVIOUS
  <2>3. /\ Refusals' = Refusals \cup {e.arg : e \in {x \in Queued(s) : x.op = "DeliveryFailed"}}
        /\ Answers' = Answers \cup {e.arg : e \in {x \in Queued(s) : x.op = "MessageDelivered"}}
        /\ \A m : (\A e \in Queued(s) : ~ (e.op = "DeliveryFailed" /\ e.arg = Live(m))) /\ Once(m) => Once(m)'
    BY EmitEvents DEF Inv
  <2>. QED
    BY <2>1, <2>2, <2>3
<1>2. F \subseteq InUse /\ F \subseteq Frame /\ Queued(wire) \subseteq InUse /\ Queued(shimq) \subseteq InUse
  BY DEF InUse
<1>3. InUse' \subseteq InUse \cup {NoFrame}
  <2>1. InUse' = {inflight} \cup Queued(pending) \cup Fails(failed) \cup Queued(wire') \cup Queued(shimq') \cup Refusals'
    BY DEF InUse, Queued, Fails
  <2>. QED
    BY <1>1, <2>1 DEF InUse
<1>4. \A m \in Msgs : Covered(m) => Covered(m)'
  BY DEF Covered
<1>5. Proper' /\ Carried' /\ AckFits' /\ Sent'
  <2>1. \A m \in Msgs : box[m] # "none" => fate[m] # "unsent"
    BY DEF Inv, Tracked, Sent
  <2>. QED
    BY <1>3, <1>4, <2>1, FewerTracked
<1>6. Delivered'
  <2>1. ASSUME NEW f \in F
        PROVE  /\ f.id.of # "batch" => given'[f.id.key] > 0
               /\ f.id.of = "batch" => f.id.key < batches /\ \A a \in acks : a.id = f.id => \A m \in a.files : given'[m] > 0
    <3>1. f \in InUse /\ f \in Frame /\ f # NoFrame /\ f.body \subseteq Msgs
      BY <1>2, FrameFacts, FrameTypes DEF Frame, FrameIds
    <3>2. CASE f.id.of # "batch"
      <4>1. f.body = {f.id.key}
        BY <3>1, <3>2 DEF Inv, Tracked, Proper
      <4>. QED
        BY <3>1, <3>2, <4>1
    <3>3. CASE f.id.of = "batch"
      <4>1. f.id.key < batches
        BY <3>1, <3>3 DEF Inv, Tracked, Proper
      <4>2. \A a \in acks : a.id = f.id => a.files \subseteq f.body
        BY <3>1, <3>3 DEF Inv, Tracked, AckFits
      <4>. QED
        BY <3>1, <3>3, <4>1, <4>2
    <3>. QED
      BY <3>2, <3>3
  <2>2. ASSUME NEW x \in Answers
        PROVE  /\ x.of # "batch" => given'[x.key] > 0
               /\ x.of = "batch" => x.key < batches /\ \A a \in acks : a.id = x => \A m \in a.files : given'[m] > 0
    <3>1. x \in FrameIds
      BY InUseType DEF Inv
    <3>2. x.of # "batch" => x.key \in Msgs
      BY <3>1 DEF FrameIds
    <3>3. \A a \in acks : a.files \subseteq Msgs
      BY DEF Inv, Typed, TypeOK, Acks
    <3>. QED
      BY <3>2, <3>3 DEF Inv, Tracked, Delivered
  <2>3. \A x \in Answers' : /\ x.of # "batch" => given'[x.key] > 0
                            /\ x.of = "batch" => x.key < batches /\ \A a \in acks : a.id = x => \A m \in a.files : given'[m] > 0
    BY <1>1, <2>1, <2>2
  <2>. QED
    BY <2>3 DEF Delivered
<1>7. \A m \in Msgs : given'[m] = 0 => given[m] = 0
  <2>1. given \in [Msgs -> 0 .. 2] /\ given' \in [Msgs -> 0 .. 2]
    BY DEF Inv, Typed, TypeOK
  <2>. QED
    BY <2>1
<1>8. Awaited'
  BY <1>7 DEF Inv, Tracked, Awaited, Live, Queued, Awaiting
<1>9. OneRefusal'
  <2>1. \A m \in Msgs : /\ refusals'[m] = 0 => Live(m) \notin Refusals' \cup Fails(failed')
                        /\ refusals'[m] = 1 => Once(m)'
    BY <1>1 DEF Inv, Tracked, OneRefusal
  <2>. QED
    BY <2>1 DEF OneRefusal, Live, Fails, Queued
<1>10. RefusedAwaited'
  BY <1>1, <1>7 DEF Inv, Tracked, RefusedAwaited, Live, Awaiting
<1>11. \A m \in Msgs : Live(m) \in F => given'[m] > 0
  BY FrameFacts
<1>12. Replayable'
  <2>1. ASSUME Supervisor', Running(shim'), NEW m \in Msgs, inflight' = Live(m), refusals'[m] <= 1, ~Covered(m)',
               box'[m] # "tierNew"
        PROVE  Live(m) \in Queued(wire') \cup Queued(shimq') \cup Refusals'
    <3>1. Supervisor /\ ~Covered(m) /\ Live(m) \notin F
      BY <1>4, <1>11, <2>1 DEF Covered, Supervisor
    <3>2. Live(m) \in Queued(wire) \cup Queued(shimq) \cup Refusals
      BY <2>1, <3>1 DEF Inv, Tracked, Replayable, Running
    <3>. QED
      BY <1>1, <2>1, <3>1, <3>2
  <2>. QED
    BY <2>1 DEF Replayable, Running, Live, Queued
<1>13. Inv'
  BY <1>5, <1>6, <1>8, <1>9, <1>10, <1>12 DEF Inv, Tracked
<1>14. ASSUME NEW m \in Msgs PROVE LedgerOne(m)
  <2>1. Kept(m)' <=> Kept(m)
    BY DEF Kept, Live, Queued, Fails
  <2>2. OnWay(m)' <=> \/ Live(m) \in Queued(wire') \cup Queued(shimq')
                      \/ Live(m) \in Refusals /\ Awaiting(Live(m).id)
                      \/ Supervisor /\ inflight = Live(m)
    BY <1>1 DEF OnWay, Live, Queued, Awaiting, Supervisor
  <2>3. OnWay(m)' => OnWay(m)
    BY <2>2 DEF OnWay
  <2>4. Exposed(m) /\ given'[m] > 0 => OnWay(m)
    <3>1. SUFFICES ASSUME Exposed(m), given'[m] > 0 PROVE OnWay(m)
      OBVIOUS
    <3>2. ~ (given[m] > 0)
      BY <3>1 DEF Exposed
    <3>3. PICK f \in F : m \in f.body
      BY <3>1, <3>2
    <3>4. f = Live(m)
      BY <1>2, <3>1, <3>3, Whereabouts
    <3>. QED
      BY <3>3, <3>4 DEF OnWay
  <2>5. ASSUME Exposed(m), OnWay(m), Link' = "up", ~ (refusals'[m] > 1) PROVE given'[m] > 0 \/ OnWay(m)'
    <3>1. refusals[m] <= 1
      <4>1. refusals \in [Msgs -> 0 .. MaxRefusals] /\ MaxRefusals \in Nat
        BY DeliveryAssumption DEF Inv, Typed, TypeOK
      <4>2. refusals[m] \in Nat
        BY <4>1
      <4>. QED
        BY <2>5, <4>2
    <3>2. Running(shim') /\ Running(shim)
      BY <2>5 DEF Link, Running
    <3>3. OnChannel(m)
      BY <2>5, Whereabouts DEF OnWay
    <3>4. \/ Live(m) \in Queued(wire) \cup Queued(shimq)
          \/ Live(m) \in Refusals /\ Awaiting(Live(m).id)
      BY <2>5, <3>1, <3>2, <3>3, ReallyOnChannel DEF Running
    <3>. QED
      BY <1>11, <2>2, <3>2, <3>4
  <2>6. fate'[m] = fate[m] /\ box'[m] = box[m]
    OBVIOUS
  <2>. HIDE DEF Kept, OnWay
  <2>. QED
    BY <1>13, <2>1, <2>3, <2>4, <2>5, <2>6, StepLedger
<1>15. \A m \in Msgs : refusals'[m] \in {refusals[m], refusals[m] + 1}
  OBVIOUS
<1>. QED
  BY <1>13, <1>14, <1>15, LedgerStep DEF Inv

\* A given frame counts for the messages it carries, and for no others.
LEMMA GiveCounts ==
    ASSUME Typed, NEW f, Give(f)
    PROVE  /\ \A m \in Msgs : given[m] > 0 => given'[m] > 0
           /\ \A m \in Msgs : m \in f.body => given'[m] > 0
           /\ \A m \in Msgs : given'[m] > 0 => given[m] > 0 \/ m \in f.body
<1>1. given \in [Msgs -> 0 .. 2]
  BY DEF Typed, TypeOK
<1>2. \A m \in Msgs : given[m] \in 0 .. 2 /\ given'[m] = IF m \in f.body /\ given[m] < 2 THEN given[m] + 1 ELSE given[m]
  BY <1>1 DEF Give
<1>. QED
  BY <1>2

\* A starting shim reports that it is ready; an idle one writes a message to its
\* agent; a busy one queues it.
LEMMA ShimServes ==
    ASSUME Inv, ShimReady \/ ShimWrites \/ ShimQueues PROVE Inv' /\ Ledger!Next
<1>. USE DEF memory, ShimStep
<1>0. Typed' /\ wire \in Seq(Frame \cup {NoFrame}) /\ shimq \in Seq(Frame)
  BY ShimTyped DEF Inv, Shim, Typed, TypeOK
<1>1. CASE ShimReady
  <2>. DEFINE s == <<Event("Ready", None)>>
  <2>1. s \in Seq(Notices)
    BY NoticeTypes
  <2>2. Queued(s) = {Event("Ready", None)} /\ Event("Ready", None).op = "Ready"
    BY QueuedSmall DEF Event
  <2>3. Emit(s)
    BY <1>1 DEF ShimReady
  <2>4. /\ UNCHANGED <<kind, inflight, pending, failed, acks, box, fate, refusals, batches, wire, shimq, given, faults>>
        /\ Running(shim')
        /\ Running(shim)
    BY <1>1 DEF ShimReady, Running
  <2>. HIDE DEF s
  <2>5. /\ \A e \in Queued(s) : e.op # "DeliveryFailed" /\ e.op # "MessageDelivered"
        /\ Queued(wire') = Queued(wire) /\ Queued(shimq') = Queued(shimq)
    BY <2>2, <2>4 DEF Queued
  <2>. QED
    BY <1>0, <2>1, <2>3, <2>4, <2>5, ShimMoves
<1>2. CASE ShimWrites
  <2>. DEFINE f == Head(wire)
              s == <<Event("MessageDelivered", f.id), Event("StateChanged", "Working")>>
  <2>1. wire # <<>> /\ f # NoFrame
    BY <1>2 DEF ShimWrites
  <2>2. f \in Frame /\ Queued(wire) = {f} \cup Queued(Tail(wire))
    BY <1>0, <2>1, QueuedFacts
  <2>3. s \in Seq(Notices)
    <3>1. Event("MessageDelivered", f.id) \in Notices
      BY <2>2, FrameTypes, NoticeTypes
    <3>2. Event("StateChanged", "Working") \in Notices
      BY NoticeTypes DEF Handles
    <3>. QED
      BY <3>1, <3>2
  <2>4. \A e \in Queued(s) : e.op # "DeliveryFailed" /\ (e.op = "MessageDelivered" => e.arg = f.id)
    BY QueuedSmall DEF Event
  <2>5. Emit(s) /\ Give(f)
    BY <1>2 DEF ShimWrites
  <2>6. /\ UNCHANGED <<kind, inflight, pending, failed, acks, box, fate, refusals, batches, shimq, faults>>
        /\ Running(shim) /\ wire' = Tail(wire)
    BY <1>2 DEF ShimWrites, Running
  <2>. HIDE DEF s, f
  <2>7. Queued(wire') = Queued(Tail(wire)) /\ Queued(shimq') = Queued(shimq)
    BY <2>6 DEF Queued
  <2>8. /\ \A m \in Msgs : given[m] > 0 => given'[m] > 0
        /\ \A m \in Msgs : m \in f.body => given'[m] > 0
        /\ \A m \in Msgs : given'[m] > 0 => given[m] > 0 \/ m \in f.body
    BY <2>5, GiveCounts DEF Inv
  <2>9. \E F \in SUBSET (Frame \cap (Queued(wire) \cup Queued(shimq))) : F = {f}
    BY <2>2
  <2>. QED
    BY <1>0, <2>2, <2>3, <2>4, <2>5, <2>6, <2>7, <2>8, <2>9, ShimMoves
<1>3. CASE ShimQueues
  <2>. DEFINE f == Head(wire)
  <2>1. wire # <<>> /\ f # NoFrame
    BY <1>3 DEF ShimQueues
  <2>2. f \in Frame /\ Queued(wire) = {f} \cup Queued(Tail(wire))
    BY <1>0, <2>1, QueuedFacts
  <2>3. /\ UNCHANGED <<kind, inflight, pending, failed, acks, box, fate, refusals, batches, faults, given, events, shim>>
        /\ Running(shim) /\ wire' = Tail(wire) /\ shimq' = Append(shimq, f)
    BY <1>3 DEF ShimQueues, Running
  <2>4. Queued(shimq') = Queued(shimq) \cup {f}
    BY <1>0, <2>2, <2>3, QueuedFacts
  <2>5. Queued(wire') = Queued(Tail(wire))
    BY <2>3
  <2>6. <<>> \in Seq(Notices) /\ Emit(<<>>) /\ Queued(<<>>) = {}
    BY <2>3, QueuedSmall DEF Emit, Inv, Typed
  <2>. HIDE DEF f
  <2>. QED
    BY <1>0, <2>2, <2>3, <2>4, <2>5, <2>6, ShimMoves
<1>. QED
  BY <1>1, <1>2, <1>3

\* The agent's turn ends, and the next queued message is written.
LEMMA ShimTurnEndsDone ==
    ASSUME Inv, ShimTurnEnds PROVE Inv' /\ Ledger!Next
<1>. USE DEF memory, ShimStep
<1>0. Typed' /\ shimq \in Seq(Frame)
  BY ShimTyped DEF Inv, Shim, Typed, TypeOK
<1>1. /\ UNCHANGED <<kind, inflight, pending, failed, acks, box, fate, refusals, batches, wire, faults>>
      /\ shim = "working"
  BY DEF ShimTurnEnds
<1>2. /\ Event("StateChanged", "Idle") \in Notices /\ Event("Completion", None) \in Notices
      /\ Event("StateChanged", "Working") \in Notices
  BY NoticeTypes DEF Handles
<1>3. Queued(wire') = Queued(wire)
  BY <1>1
<1>4. CASE shimq = <<>>
  <2>. DEFINE s == <<Event("StateChanged", "Idle"), Event("Completion", None)>>
  <2>1. s \in Seq(Notices)
    BY <1>2
  <2>2. \A e \in Queued(s) : e.op # "DeliveryFailed" /\ e.op # "MessageDelivered"
    BY QueuedSmall DEF Event
  <2>3. Emit(s) /\ shimq' = shimq /\ given' = given /\ shim' = "idle"
    BY <1>4 DEF ShimTurnEnds
  <2>. HIDE DEF s
  <2>4. Queued(shimq') = Queued(shimq) /\ Running(shim) /\ Running(shim')
    BY <1>1, <2>3 DEF Running
  <2>5. {} \in SUBSET (Frame \cap (Queued(wire) \cup Queued(shimq)))
    OBVIOUS
  <2>. QED
    BY <1>0, <1>1, <1>3, <2>1, <2>2, <2>3, <2>4, <2>5, ShimMoves
<1>5. CASE shimq # <<>>
  <2>. DEFINE f == Head(shimq)
              s == <<Event("StateChanged", "Idle"), Event("Completion", None), Event("StateChanged", "Working")>>
  <2>1. s \in Seq(Notices)
    BY <1>2
  <2>2. \A e \in Queued(s) : e.op # "DeliveryFailed" /\ e.op # "MessageDelivered"
    BY QueuedSmall DEF Event
  <2>3. Emit(s) /\ shimq' = Tail(shimq) /\ Give(f) /\ shim' = shim
    BY <1>5 DEF ShimTurnEnds
  <2>4. f \in Frame /\ Queued(shimq) = {f} \cup Queued(Tail(shimq))
    BY <1>0, <1>5, QueuedFacts
  <2>. HIDE DEF s, f
  <2>5. Queued(shimq') = Queued(Tail(shimq)) /\ Running(shim) /\ Running(shim')
    BY <1>1, <2>3 DEF Running
  <2>6. /\ \A m \in Msgs : given[m] > 0 => given'[m] > 0
        /\ \A m \in Msgs : m \in f.body => given'[m] > 0
        /\ \A m \in Msgs : given'[m] > 0 => given[m] > 0 \/ m \in f.body
    BY <2>3, GiveCounts DEF Inv
  <2>7. \E F \in SUBSET (Frame \cap (Queued(wire) \cup Queued(shimq))) : F = {f}
    BY <2>4
  <2>. QED
    BY <1>0, <1>1, <1>3, <2>1, <2>2, <2>3, <2>4, <2>5, <2>6, <2>7, ShimMoves
<1>. QED
  BY <1>4, <1>5

\* A shim whose agent is gone drops what it is sent; the agent dies or exhausts its
\* context, the shim shuts down or is killed.
LEMMA ShimStops ==
    ASSUME Inv, ShimDiscards \/ AgentDies \/ ContextFull \/ ShimShutdown \/ ShimKilled
    PROVE  Inv' /\ Ledger!Next
<1>. USE DEF memory, ShimStep, Fault
<1>0. Typed' /\ wire \in Seq(Frame \cup {NoFrame}) /\ events \in Seq(Notices)
  BY ShimTyped DEF Inv, Shim, Typed, TypeOK
<1>1. /\ UNCHANGED <<kind, inflight, pending, failed, acks, box, fate, refusals, batches, given>>
      /\ faults' \in {faults, faults + 1} /\ ~Running(shim')
  BY DEF ShimDiscards, AgentDies, ContextFull, ShimShutdown, ShimKilled, Running
<1>2. Queued(wire') \subseteq Queued(wire) /\ Queued(shimq') \subseteq Queued(shimq)
  <2>1. wire' = wire \/ wire' = <<>> \/ (wire # <<>> /\ wire' = Tail(wire))
    BY DEF ShimDiscards, AgentDies, ContextFull, ShimShutdown, ShimKilled
  <2>2. shimq' = shimq \/ shimq' = <<>>
    BY DEF ShimDiscards, AgentDies, ContextFull, ShimShutdown, ShimKilled
  <2>3. wire # <<>> => Queued(Tail(wire)) \subseteq Queued(wire)
    BY <1>0, QueuedFacts
  <2>4. Queued(<<>>) = {}
    BY QueuedSmall
  <2>. QED
    BY <2>1, <2>2, <2>3, <2>4
<1>3. /\ Event("StateChanged", "Dead") \in Notices /\ Event("Died", None) \in Notices
      /\ Event("StateChanged", "ContextExhausted") \in Notices /\ Event("ContextExhausted", None) \in Notices
  BY NoticeTypes DEF Handles, Terminal
<1>4. PICK s \in Seq(Notices) : Emit(s) /\ \A e \in Queued(s) : e.op # "DeliveryFailed" /\ e.op # "MessageDelivered"
  <2>1. CASE UNCHANGED events
    <3>1. Emit(<<>>) /\ Queued(<<>>) = {} /\ <<>> \in Seq(Notices)
      BY <1>0, <2>1, QueuedSmall DEF Emit
    <3>. QED
      BY <3>1
  <2>2. ASSUME NEW x \in {"Dead", "ContextExhausted"}, NEW y \in {"Died", "ContextExhausted"},
               Emit(<<Event("StateChanged", x), Event(y, None)>>)
        PROVE  \E s \in Seq(Notices) : Emit(s) /\ \A e \in Queued(s) : e.op # "DeliveryFailed" /\ e.op # "MessageDelivered"
    <3>1. <<Event("StateChanged", x), Event(y, None)>> \in Seq(Notices)
      BY <1>3
    <3>2. \A e \in Queued(<<Event("StateChanged", x), Event(y, None)>>) : e.op # "DeliveryFailed" /\ e.op # "MessageDelivered"
      BY QueuedSmall DEF Event
    <3>. QED
      BY <2>2, <3>1, <3>2
  <2>3. ASSUME Emit(<<>>) PROVE UNCHANGED events
    BY <1>0, <2>3 DEF Emit
  <2>4. \/ UNCHANGED events \/ Emit(<<>>)
        \/ \E x \in {"Dead", "ContextExhausted"}, y \in {"Died", "ContextExhausted"} :
              Emit(<<Event("StateChanged", x), Event(y, None)>>)
    BY DEF ShimDiscards, AgentDies, ContextFull, ShimShutdown, ShimKilled
  <2>. QED
    BY <2>1, <2>2, <2>3, <2>4
<1>5. {} \in SUBSET (Frame \cap (Queued(wire) \cup Queued(shimq)))
  OBVIOUS
<1>. QED
  BY <1>0, <1>1, <1>2, <1>4, <1>5, ShimMoves

\* The shim reports a message that it could not write.
LEMMA ShimWriteFailsDone ==
    ASSUME Inv, ShimWriteFails PROVE Inv' /\ Ledger!Next
<1>. USE DEF memory
<1>. DEFINE f == Head(wire)
            s == <<Event("DeliveryFailed", f)>>
<1>0. Typed' /\ wire \in Seq(Frame \cup {NoFrame})
  BY ShimTyped DEF Inv, Shim, Typed, TypeOK
<1>1. /\ UNCHANGED <<kind, inflight, pending, failed, acks, box, fate, batches, given, shim, shimq, faults>>
      /\ shim = "idle" /\ wire # <<>> /\ f # NoFrame /\ wire' = Tail(wire) /\ Emit(s)
      /\ refusals' = [m \in Msgs |-> IF m \in f.body THEN refusals[m] + 1 ELSE refusals[m]]
  BY DEF ShimWriteFails
<1>2. f \in Frame /\ Queued(wire) = {f} \cup Queued(wire')
  BY <1>0, <1>1, QueuedFacts
<1>3. s \in Seq(Notices) /\ Len(s) = 1
  BY <1>2, NoticeTypes
<1>4. Queued(s) = {Event("DeliveryFailed", f)} /\ Event("DeliveryFailed", f).op = "DeliveryFailed"
      /\ Event("DeliveryFailed", f).arg = f
  BY QueuedSmall DEF Event
<1>5. /\ \A m \in Msgs : refusals[m] \in Nat
      /\ \A m \in Msgs : refusals'[m] = IF m \in f.body THEN refusals[m] + 1 ELSE refusals[m]
  <2>1. refusals \in [Msgs -> 0 .. MaxRefusals] /\ MaxRefusals \in Nat
    BY DeliveryAssumption DEF Inv, Typed, TypeOK
  <2>. QED
    BY <1>1, <2>1
<1>. HIDE DEF s, f
<1>6. /\ Refusals' = Refusals \cup {f} /\ Answers' = Answers
      /\ \A m : f # Live(m) /\ Once(m) => Once(m)'
      /\ \A m : Live(m) \notin Refusals => Once(m)'
  <2>1. /\ Refusals' = Refusals \cup {e.arg : e \in {x \in Queued(s) : x.op = "DeliveryFailed"}}
        /\ Answers' = Answers \cup {e.arg : e \in {x \in Queued(s) : x.op = "MessageDelivered"}}
        /\ \A m : (\A e \in Queued(s) : ~ (e.op = "DeliveryFailed" /\ e.arg = Live(m))) /\ Once(m) => Once(m)'
        /\ \A m : Live(m) \notin Refusals /\ Len(s) = 1 => Once(m)'
    BY <1>1, <1>3, EmitEvents DEF Inv
  <2>. QED
    BY <1>3, <1>4, <2>1
<1>7. f \in InUse /\ Queued(wire') \subseteq InUse /\ Refusals' \subseteq InUse
  BY <1>2, <1>6 DEF InUse
<1>8. InUse' \subseteq InUse \cup {NoFrame}
  <2>1. InUse' = {inflight} \cup Queued(pending) \cup Fails(failed) \cup Queued(wire') \cup Queued(shimq) \cup Refusals'
    BY <1>1 DEF InUse, Queued, Fails
  <2>. QED
    BY <1>7, <2>1 DEF InUse
<1>9. Proper' /\ Carried' /\ AckFits' /\ Sent'
  <2>1. \A m \in Msgs : Covered(m) <=> Covered(m)'
    BY <1>1 DEF Covered
  <2>2. \A m \in Msgs : box[m] # "none" => fate[m] # "unsent"
    BY DEF Inv, Tracked, Sent
  <2>. QED
    BY <1>1, <1>8, <2>1, <2>2, FewerTracked
<1>10. Delivered'
  BY <1>1, <1>6 DEF Inv, Tracked, Delivered
<1>11. \A m \in Msgs : refusals'[m] = 0 => refusals[m] = 0 /\ f # Live(m)
  BY <1>5, FrameFacts
<1>12. \A m \in Msgs : refusals'[m] <= 1 => refusals[m] <= 1 /\ (f = Live(m) => refusals[m] = 0)
  BY <1>5, FrameFacts
<1>13. Awaited'
  BY <1>1, <1>2, <1>11 DEF Inv, Tracked, Awaited, Live, Queued, Awaiting
<1>14. OneRefusal'
  <2>1. \A m \in Msgs : refusals'[m] = 0 => Live(m) \notin Refusals' \cup Fails(failed)
    BY <1>6, <1>11 DEF Inv, Tracked, OneRefusal
  <2>2. ASSUME NEW m \in Msgs, refusals'[m] = 1 PROVE Once(m)'
    <3>1. CASE refusals[m] = 0
      BY <1>6, <3>1 DEF Inv, Tracked, OneRefusal
    <3>2. CASE refusals[m] # 0
      <4>1. refusals[m] = 1 /\ f # Live(m)
        BY <1>5, <2>2, <3>2, FrameFacts
      <4>. QED
        BY <1>6, <4>1 DEF Inv, Tracked, OneRefusal
    <3>. QED
      BY <3>1, <3>2
  <2>. QED
    BY <1>1, <2>1, <2>2 DEF OneRefusal, Live, Fails, Queued
<1>15. ASSUME NEW m \in Msgs, given[m] = 0, refusals'[m] <= 1, Live(m) \in Refusals' PROVE Awaiting(Live(m).id)
  <2>1. CASE Live(m) = f
    BY <1>2, <1>12, <1>15, <2>1 DEF Inv, Tracked, Awaited
  <2>2. CASE Live(m) # f
    BY <1>6, <1>12, <1>15, <2>2 DEF Inv, Tracked, RefusedAwaited
  <2>. QED
    BY <2>1, <2>2
<1>16. RefusedAwaited'
  BY <1>1, <1>15 DEF RefusedAwaited, Live, Awaiting
<1>17. Replayable'
  <2>1. \A m \in Msgs : Live(m) \in Queued(wire) \cup Queued(shimq) \cup Refusals
                          => Live(m) \in Queued(wire') \cup Queued(shimq') \cup Refusals'
    BY <1>1, <1>2, <1>6
  <2>2. \A m \in Msgs : Covered(m)' <=> Covered(m)
    BY <1>1 DEF Covered
  <2>. QED
    BY <1>1, <1>12, <2>1, <2>2 DEF Inv, Tracked, Replayable, Live, Queued, Supervisor
<1>18. Inv'
  BY <1>0, <1>9, <1>10, <1>13, <1>14, <1>16, <1>17 DEF Inv, Tracked
<1>19. ASSUME NEW m \in Msgs PROVE LedgerOne(m)
  <2>1. Kept(m)' <=> Kept(m)
    BY <1>1 DEF Kept, Live, Queued, Fails
  <2>2. OnWay(m)' <=> \/ Live(m) \in Queued(wire') \cup Queued(shimq)
                      \/ Live(m) \in Refusals' /\ Awaiting(Live(m).id)
                      \/ Supervisor /\ inflight = Live(m)
    BY <1>1 DEF OnWay, Live, Queued, Awaiting, Supervisor
  <2>3. OnWay(m)' => OnWay(m)
    BY <1>2, <1>6, <2>2 DEF OnWay
  <2>4. Exposed(m) => given[m] = 0 /\ ~ (given'[m] > 0)
    BY <1>1 DEF Exposed
  <2>5. ASSUME Exposed(m), OnWay(m), ~ (refusals'[m] > 1) PROVE OnWay(m)'
    <3>1. refusals'[m] <= 1 /\ refusals[m] <= 1
      BY <1>5, <2>5
    <3>2. OnChannel(m)
      BY <2>5, Whereabouts DEF OnWay
    <3>3. \/ Live(m) \in Queued(wire) \cup Queued(shimq)
          \/ Live(m) \in Refusals /\ Awaiting(Live(m).id)
      BY <1>1, <2>5, <3>1, <3>2, ReallyOnChannel
    <3>4. Live(m) = f => Live(m) \in Refusals' /\ Awaiting(Live(m).id)
      BY <1>6, <1>15, <2>4, <2>5, <3>1
    <3>. QED
      BY <1>2, <1>6, <2>2, <3>3, <3>4
  <2>6. fate'[m] = fate[m] /\ box'[m] = box[m] /\ given'[m] = given[m]
    BY <1>1
  <2>. HIDE DEF Kept, OnWay
  <2>. QED
    BY <1>18, <2>1, <2>3, <2>4, <2>5, <2>6, StepLedger
<1>20. faults' \in {faults, faults + 1} /\ \A m \in Msgs : refusals'[m] \in {refusals[m], refusals[m] + 1}
  BY <1>1, <1>5
<1>. QED
  BY <1>18, <1>19, <1>20, LedgerStep DEF Inv

-----------------------------------------------------------------------------
(* The delivery code implements the ledger. *)

\* The initial state satisfies the invariant, and is one of the ledger.
LEMMA InitInv == Init => Inv /\ Ledger!Init
<1>. SUFFICES ASSUME Init PROVE Inv /\ Ledger!Init
  OBVIOUS
<1>1. Typed
  BY InitTyped
<1>2. /\ pending = <<>> /\ failed = <<>> /\ wire = <<>> /\ shimq = <<>> /\ events = <<>> /\ inflight = NoFrame
      /\ acks = {} /\ shim = "starting" /\ faults = 0
      /\ box = [m \in Msgs |-> "none"] /\ given = [m \in Msgs |-> 0] /\ fate = [m \in Msgs |-> "unsent"]
      /\ refusals = [m \in Msgs |-> 0]
  BY DEF Init
<1>3. /\ Queued(pending) = {} /\ Fails(failed) = {} /\ Queued(wire) = {} /\ Queued(shimq) = {}
      /\ Refusals = {} /\ Answers = {} /\ InUse = {NoFrame} /\ NoFrame.body = {} /\ \A m : Live(m) # NoFrame
  BY <1>2, QueuedSmall, FrameFacts DEF Refusals, Answers, InUse
<1>4. Proper /\ Carried /\ AckFits /\ Sent /\ Delivered
  BY <1>2, <1>3 DEF Proper, Carried, AckFits, Sent, Delivered
<1>5. Awaited /\ OneRefusal /\ RefusedAwaited /\ Replayable
  BY <1>2, <1>3 DEF Awaited, OneRefusal, RefusedAwaited, Replayable
<1>6. Inv
  BY <1>1, <1>4, <1>5 DEF Inv, Tracked
<1>7. ASSUME NEW m \in Msgs PROVE Place(m) = "unsent"
  <2>1. given[m] = 0 /\ box[m] = "none" /\ fate[m] = "unsent"
    BY <1>2
  <2>2. ~InMemory(m) /\ ~OnChannel(m)
    BY <1>6, <2>1, UnsentNowhere
  <2>. QED
    BY <2>1, <2>2 DEF Place
<1>8. Link = "starting"
  BY <1>2 DEF Link
<1>. QED
  BY <1>2, <1>6, <1>7, <1>8 DEF Ledger!Init

\* Every step keeps the invariant, and is a step of the ledger or a stutter.
LEMMA NextInv == Inv /\ [Next]_vars => Inv' /\ [Ledger!Next]_(Ledger!vars)
<1>. SUFFICES ASSUME Inv, [Next]_vars PROVE Inv' /\ [Ledger!Next]_(Ledger!vars)
  OBVIOUS
<1>1. CASE OnReady \/ OnStateChanged \/ OnMessageDelivered \/ OnDeliveryFailed \/ OnContextExhausted
  BY <1>1, OnReadyDone, OnStateChangedDone, OnMessageDeliveredDone, OnDeliveryFailedDone, OnContextExhaustedDone
<1>2. CASE OnDied \/ ColdRespawn \/ DaemonRestart
  BY <1>2, RestartsDone
<1>3. CASE OnCompletion \/ PollDone \/ NotStuck \/ SkipInbox \/ \E m \in Msgs : BecomesStale(m)
  BY <1>3, QuietStepsDone
<1>4. CASE ForceIdle \/ DeliverInbox \/ SweepTiers
  BY <1>4, ForceIdleDone, DeliverInboxDone, SweepTiersDone
<1>5. CASE RetryFailed \/ ExpirePending
  BY <1>5, RetryDone, ExpireDone DEF RetryFailed, ExpirePending
<1>6. CASE \E m \in Msgs : DaemonMessage(m) \/ InboxMessage(m)
  BY <1>6, DaemonMessageDone, InboxMessageDone
<1>7. CASE Shim
  BY <1>7, ShimServes, ShimTurnEndsDone, ShimStops, ShimWriteFailsDone DEF Shim
<1>8. CASE UNCHANGED vars
  <2>1. UNCHANGED <<kind, phase, handle, member, inflight, pending, failed, acks, box, stale, shim, wire, shimq,
                    events, given, fate, faults, refusals, restarts, batches>>
    BY <1>8 DEF vars, memory, channel, count
  <2>2. Typed'
    BY <2>1 DEF Inv, Typed, TypeOK, IsEvent
  <2>3. Reads
    BY <2>1 DEF Reads
  <2>4. faults' \in {faults, faults + 1} /\ inflight' \in {inflight, NoFrame}
    BY <2>1
  <2>. QED
    BY <2>1, <2>2, <2>3, <2>4, QuietDone
<1>. QED
  BY <1>1, <1>2, <1>3, <1>4, <1>5, <1>6, <1>7, <1>8 DEF Next, Tick, Handler

\* The delivery code implements the ledger: whatever is lost, delayed, refused or
\* retried, a message leaves the place where it is only in the ways MessageLedger
\* allows, and is lost only with the trouble it names.
THEOREM DeliveryImplementsLedger == Spec => Accounted
<1>1. Init => Inv /\ Ledger!Init
  BY InitInv
<1>2. Inv /\ [Next]_vars => Inv' /\ [Ledger!Next]_(Ledger!vars)
  BY NextInv
<1>. QED
  BY <1>1, <1>2, PTL DEF Spec, Accounted, Ledger!Spec
=============================================================================
