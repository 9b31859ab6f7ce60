------------------------- MODULE DeliveryOnceProofs -------------------------
(***************************************************************************)
(* No engineer is given a message twice unless something fails, for every  *)
(* set of messages and every bound of Delivery.  The copies of a message   *)
(* are counted, wherever they are: routing, timeouts, retries and the      *)
(* inbox move a copy, and none of them makes a second one.                 *)
(***************************************************************************)
EXTENDS DeliveryProofs

-----------------------------------------------------------------------------
(* How often a queue holds something. *)

Hits(q, X)  == {i \in DOMAIN q : q[i] \in X}
Tally(q, X) == Cardinality(Hits(q, X))

\* The positions after i.
Ahead(q, X, i) == Cardinality({j \in Hits(q, X) : j > i})

One(b) == IF b THEN 1 ELSE 0

\* A queue holds something finitely often.
LEMMA HitsFinite ==
    ASSUME NEW F, NEW q \in Seq(F), NEW X
    PROVE  /\ IsFiniteSet(Hits(q, X)) /\ Tally(q, X) \in Nat
           /\ \A S : IsFiniteSet(Hits(q, X) \ S) /\ Cardinality(Hits(q, X) \ S) \in Nat
           /\ \A i : Ahead(q, X, i) \in Nat
<1>1. DOMAIN q = 1 .. Len(q) /\ Len(q) \in Nat
  OBVIOUS
<1>2. IsFiniteSet(1 .. Len(q))
  BY <1>1, FS_Interval
<1>3. ASSUME NEW T \in SUBSET (1 .. Len(q)) PROVE IsFiniteSet(T) /\ Cardinality(T) \in Nat
  BY <1>2, FS_Subset, FS_CardinalityType
<1>4. Hits(q, X) \subseteq 1 .. Len(q)
  BY <1>1 DEF Hits
<1>5. \A S : Hits(q, X) \ S \in SUBSET (1 .. Len(q))
  BY <1>4
<1>6. \A i : {j \in Hits(q, X) : j > i} \in SUBSET (1 .. Len(q))
  BY <1>4
<1>7. \A S : IsFiniteSet(Hits(q, X) \ S) /\ Cardinality(Hits(q, X) \ S) \in Nat
  BY <1>3, <1>5
<1>8. \A i : Ahead(q, X, i) \in Nat
  BY <1>3, <1>6 DEF Ahead
<1>. QED
  BY <1>3, <1>4, <1>7, <1>8 DEF Tally

\* Appending and taking the head.
LEMMA TallyFacts ==
    ASSUME NEW F, NEW q \in Seq(F), NEW X
    PROVE  /\ Tally(q, X) \in Nat
           /\ Tally(<<>>, X) = 0
           /\ \A x \in F : Tally(Append(q, x), X) = Tally(q, X) + One(x \in X)
           /\ q # <<>> => Tally(Tail(q), X) + One(Head(q) \in X) <= Tally(q, X)
           /\ Queued(q) \cap X = {} => Tally(q, X) = 0
<1>1. DOMAIN q = 1 .. Len(q) /\ Len(q) \in Nat
  OBVIOUS
<1>2. IsFiniteSet(Hits(q, X)) /\ Tally(q, X) \in Nat
  BY HitsFinite
<1>3. Tally(<<>>, X) = 0
  <2>1. Hits(<<>>, X) = {}
    BY DEF Hits
  <2>. QED
    BY <2>1, FS_EmptySet DEF Tally
<1>4. ASSUME NEW x \in F PROVE Tally(Append(q, x), X) = Tally(q, X) + One(x \in X)
  <2>1. /\ DOMAIN Append(q, x) = 1 .. Len(q) + 1
        /\ \A i \in 1 .. Len(q) : Append(q, x)[i] = q[i]
        /\ Append(q, x)[Len(q) + 1] = x
    OBVIOUS
  <2>2. 1 .. Len(q) + 1 = 1 .. Len(q) \cup {Len(q) + 1} /\ Len(q) + 1 \notin 1 .. Len(q)
    BY <1>1
  <2>3. Len(q) + 1 \notin Hits(q, X)
    BY <1>1, <2>2 DEF Hits
  <2>4. CASE x \in X
    <3>1. Hits(Append(q, x), X) = Hits(q, X) \cup {Len(q) + 1}
      BY <1>1, <2>1, <2>2, <2>4 DEF Hits
    <3>. QED
      BY <1>2, <2>3, <2>4, <3>1, FS_AddElement DEF Tally, One
  <2>5. CASE x \notin X
    <3>1. Hits(Append(q, x), X) = Hits(q, X)
      BY <1>1, <2>1, <2>2, <2>5 DEF Hits
    <3>. QED
      BY <1>2, <2>5, <3>1 DEF Tally, One
  <2>. QED
    BY <2>4, <2>5
<1>5. ASSUME q # <<>> PROVE Tally(Tail(q), X) + One(Head(q) \in X) <= Tally(q, X)
  <2>1. /\ Len(q) \in Nat \ {0} /\ Tail(q) \in Seq(F) /\ Head(q) = q[1]
        /\ DOMAIN Tail(q) = 1 .. Len(q) - 1
        /\ \A i \in 1 .. Len(q) - 1 : Tail(q)[i] = q[i + 1]
    BY <1>5, EmptySeq
  <2>. DEFINE T == Hits(Tail(q), X)
              H == Hits(q, X) \ {1}
              f == [i \in T |-> i + 1]
  <2>2. \A i \in T : i \in 1 .. Len(q) - 1 /\ i + 1 \in H
    <3>1. ASSUME NEW i \in T PROVE i \in 1 .. Len(q) - 1 /\ q[i + 1] \in X
      BY <2>1 DEF Hits
    <3>2. \A i \in 1 .. Len(q) - 1 : i + 1 \in 1 .. Len(q) /\ i + 1 # 1
      BY <2>1
    <3>. QED
      BY <1>1, <3>1, <3>2 DEF Hits
  <2>3. f \in Injection(T, H)
    <3>1. f \in [T -> H]
      BY <2>2
    <3>2. \A a, b \in T : a + 1 = b + 1 => a = b
      BY <2>2
    <3>. QED
      BY <3>1, <3>2 DEF Injection, IsInjective
  <2>4. /\ IsFiniteSet(H)
        /\ Cardinality(H) = IF 1 \in Hits(q, X) THEN Tally(q, X) - 1 ELSE Tally(q, X)
    BY <1>2, FS_RemoveElement DEF Tally
  <2>5. Cardinality(T) <= Cardinality(H)
    BY <2>3, <2>4, FS_Injection
  <2>6. 1 \in Hits(q, X) <=> Head(q) \in X
    BY <1>1, <2>1 DEF Hits
  <2>7. Cardinality(T) \in Nat
    BY <2>1, HitsFinite DEF Tally
  <2>. HIDE DEF H
  <2>. QED
    BY <1>2, <2>4, <2>5, <2>6, <2>7 DEF Tally, One
<1>6. ASSUME Queued(q) \cap X = {} PROVE Tally(q, X) = 0
  <2>1. Hits(q, X) = {}
    BY <1>6 DEF Hits, Queued
  <2>. QED
    BY <2>1, FS_EmptySet DEF Tally
<1>. QED
  BY <1>2, <1>3, <1>4, <1>5, <1>6

\* What is ahead of a loop that goes through a queue.
LEMMA AheadFacts ==
    ASSUME NEW F, NEW q \in Seq(F), NEW X
    PROVE  /\ \A i : Ahead(q, X, i) \in Nat
           /\ Ahead(q, X, 0) = Tally(q, X)
           /\ \A i \in 1 .. Len(q) : Ahead(q, X, i - 1) = Ahead(q, X, i) + One(q[i] \in X)
<1>1. DOMAIN q = 1 .. Len(q) /\ Len(q) \in Nat
  OBVIOUS
<1>2. \A i : Ahead(q, X, i) \in Nat
  BY HitsFinite
<1>3. Ahead(q, X, 0) = Tally(q, X)
  <2>1. {j \in Hits(q, X) : j > 0} = Hits(q, X)
    BY <1>1 DEF Hits
  <2>. QED
    BY <2>1 DEF Ahead, Tally
<1>4. ASSUME NEW i \in 1 .. Len(q) PROVE Ahead(q, X, i - 1) = Ahead(q, X, i) + One(q[i] \in X)
  <2>. DEFINE A == {j \in Hits(q, X) : j > i}
              B == {j \in Hits(q, X) : j > i - 1}
  <2>1. \A j \in 1 .. Len(q) : j > i - 1 <=> j > i \/ j = i
    BY <1>1
  <2>2. Hits(q, X) \subseteq 1 .. Len(q) /\ (i \in Hits(q, X) <=> q[i] \in X)
    BY <1>1 DEF Hits
  <2>3. IsFiniteSet(A) /\ i \notin A
    <3>1. A \subseteq Hits(q, X) /\ IsFiniteSet(Hits(q, X))
      BY HitsFinite
    <3>. QED
      BY <3>1, FS_Subset
  <2>4. CASE q[i] \in X
    <3>1. B = A \cup {i}
      BY <2>1, <2>2, <2>4
    <3>. QED
      BY <2>3, <2>4, <3>1, FS_AddElement DEF Ahead, One
  <2>5. CASE q[i] \notin X
    <3>1. B = A
      BY <2>1, <2>2, <2>5
    <3>2. Ahead(q, X, i - 1) = Ahead(q, X, i)
      BY <3>1 DEF Ahead
    <3>. QED
      BY <1>2, <2>5, <3>2 DEF One
  <2>. QED
    BY <2>4, <2>5
<1>. QED
  BY <1>2, <1>3, <1>4

\* The loop that leaves out the positions S leaves out what they hold.
LEMMA TallyWithout ==
    ASSUME NEW F, NEW q \in Seq(F), NEW S, NEW X
    PROVE  /\ Tally(Without(q, S), X) \in Nat
           /\ Tally(Without(q, S), X) <= Tally(q, X)
           /\ (\E i \in DOMAIN q \cap S : q[i] \in X) => Tally(Without(q, S), X) + 1 <= Tally(q, X)
<1>. DEFINE n == Len(q)
            K(i) == {j \in Hits(q, X) \ S : j <= i}
<1>0. PICK run \in [0 .. n -> Seq(F)] : KeepRun(run, q, S) /\ Without(q, S) = run[n]
  BY WithoutRun
<1>1. /\ run[0] = <<>>
      /\ \A i \in 1 .. n : run[i] = IF i \in S THEN run[i - 1] ELSE Append(run[i - 1], q[i])
      /\ Without(q, S) = run[n]
  BY <1>0 DEF KeepRun
<1>2. n \in Nat /\ DOMAIN q = 1 .. n /\ Hits(q, X) \subseteq 1 .. n /\ \A i \in 1 .. n : q[i] \in F
  BY DEF Hits
<1>3. \A i : IsFiniteSet(K(i)) /\ Cardinality(K(i)) \in Nat
  <2>1. \A i : K(i) \subseteq Hits(q, X)
    OBVIOUS
  <2>2. IsFiniteSet(Hits(q, X))
    BY HitsFinite
  <2>. QED
    BY <2>1, <2>2, FS_Subset, FS_CardinalityType
<1>. DEFINE P == {i \in 0 .. n : Tally(run[i], X) <= Cardinality(K(i))}
<1>4. 0 \in P
  <2>1. Tally(run[0], X) = 0
    BY <1>1, TallyFacts
  <2>2. 0 \in 0 .. n /\ 0 <= Cardinality(K(0))
    <3>. HIDE DEF K
    <3>. QED
      BY <1>2, <1>3
  <2>. QED
    BY <2>1, <2>2
<1>5. ASSUME NEW i \in 1 .. n, i - 1 \in P PROVE i \in P
  <2>1. i \in 0 .. n /\ i - 1 \in 0 .. n /\ run[i - 1] \in Seq(F)
    <3>1. n \in Nat
      BY <1>2
    <3>. HIDE DEF n
    <3>2. i \in 0 .. n /\ i - 1 \in 0 .. n
      BY <3>1
    <3>. QED
      BY <1>0, <3>2
  <2>2. \A j \in 1 .. n : j <= i <=> j <= i - 1 \/ j = i
    BY <1>2
  <2>3. i \in Hits(q, X) <=> q[i] \in X
    BY <1>2 DEF Hits
  <2>4. Tally(run[i - 1], X) <= Cardinality(K(i - 1)) /\ Tally(run[i - 1], X) \in Nat
    BY <1>5, <2>1, TallyFacts
  <2>5. CASE i \in S
    <3>1. K(i) = K(i - 1)
      BY <1>2, <2>2, <2>5
    <3>2. run[i] = run[i - 1]
      BY <1>1, <2>5
    <3>. QED
      BY <2>1, <2>4, <3>1, <3>2
  <2>6. CASE i \notin S
    <3>1. Tally(run[i], X) = Tally(run[i - 1], X) + One(q[i] \in X)
      BY <1>1, <1>2, <2>1, <2>6, TallyFacts
    <3>2. CASE q[i] \in X
      <4>1. K(i) = K(i - 1) \cup {i} /\ i \notin K(i - 1)
        BY <1>2, <2>2, <2>3, <2>6, <3>2
      <4>2. Cardinality(K(i)) = Cardinality(K(i - 1)) + 1
        BY <1>3, <4>1, FS_AddElement
      <4>. HIDE DEF K
      <4>. QED
        BY <1>3, <2>1, <2>4, <3>1, <3>2, <4>2 DEF One
    <3>3. CASE q[i] \notin X
      <4>1. K(i) = K(i - 1)
        BY <1>2, <2>2, <2>3, <3>3
      <4>2. Tally(run[i], X) = Tally(run[i - 1], X)
        BY <2>4, <3>1, <3>3 DEF One
      <4>. QED
        BY <2>1, <2>4, <4>1, <4>2
    <3>. QED
      BY <3>2, <3>3
  <2>. QED
    BY <2>5, <2>6
<1>. HIDE DEF P
<1>6. \A i \in 0 .. n : i \in P
  BY <1>2, <1>4, <1>5, UpTo
<1>7. Tally(Without(q, S), X) <= Cardinality(K(n))
  <2>1. n \in P
    BY <1>2, <1>6
  <2>. QED
    BY <1>1, <2>1 DEF P
<1>8. K(n) = Hits(q, X) \ S
  BY <1>2
<1>9. Tally(Without(q, S), X) \in Nat
  BY WithoutType, TallyFacts
<1>10. IsFiniteSet(Hits(q, X)) /\ Tally(q, X) \in Nat
  BY HitsFinite
<1>11. Cardinality(K(n)) <= Tally(q, X)
  BY <1>8, <1>10, FS_Subset DEF Tally
<1>12. ASSUME NEW i \in DOMAIN q \cap S, q[i] \in X PROVE Cardinality(K(n)) + 1 <= Tally(q, X)
  <2>1. i \in Hits(q, X) /\ i \notin K(n)
    BY <1>8, <1>12 DEF Hits
  <2>2. K(n) # Hits(q, X) /\ K(n) \in SUBSET Hits(q, X)
    BY <2>1
  <2>3. Cardinality(K(n)) # Tally(q, X)
    BY <1>10, <2>2, FS_Subset DEF Tally
  <2>. HIDE DEF K
  <2>. QED
    BY <1>3, <1>10, <1>11, <2>3
<1>. HIDE DEF K
<1>. QED
  BY <1>3, <1>7, <1>9, <1>10, <1>11, <1>12

\* Joining a queue that holds none.
LEMMA TallyJoin ==
    ASSUME NEW F, NEW q \in Seq(F), NEW s \in Seq(F), NEW X, Queued(s) \cap X = {}
    PROVE  Tally(q \o s, X) = Tally(q, X)
<1>1. /\ Len(q) \in Nat /\ Len(s) \in Nat /\ DOMAIN q = 1 .. Len(q) /\ DOMAIN s = 1 .. Len(s)
      /\ DOMAIN (q \o s) = 1 .. Len(q) + Len(s)
      /\ \A i \in 1 .. Len(q) + Len(s) : (q \o s)[i] = IF i <= Len(q) THEN q[i] ELSE s[i - Len(q)]
  OBVIOUS
<1>2. \A i \in 1 .. Len(q) + Len(s) : i \in 1 .. Len(q) \/ (~ (i <= Len(q)) /\ i - Len(q) \in 1 .. Len(s))
  BY <1>1
<1>3. \A i \in 1 .. Len(q) : i \in 1 .. Len(q) + Len(s) /\ i <= Len(q)
  BY <1>1
<1>4. \A i \in 1 .. Len(s) : s[i] \notin X
  BY <1>1 DEF Queued
<1>5. Hits(q \o s, X) = Hits(q, X)
  BY <1>1, <1>2, <1>3, <1>4 DEF Hits
<1>. QED
  BY <1>5 DEF Tally

-----------------------------------------------------------------------------
(* Routing makes no copies. *)

With(m)        == {f \in Frame \cup {NoFrame} : m \in f.body}
FailedWith(m)  == {e \in Failures : m \in e.frame.body}
RefusedWith(m) == {e \in Notices : e.op = "DeliveryFailed" /\ m \in e.arg.body}

\* A message in the inbox that may be sent from there.
Open(b, A, m) == One(b[m] = "new" /\ \A a \in A : m \notin a.files)

\* How many copies of a message the daemon holds or has in the socket.
Held(r, m) == Tally(r.pending, With(m)) + Tally(r.failed, FailedWith(m))
                + Tally(r.wire, With(m)) + Open(r.box, r.acks, m)

\* Of a member without batches: what an entry of pending_shim_acks stands for, and
\* what is in its queue.
ExactAcks(A) == \A a \in A : \/ a.id.of = "live" /\ a.files = {}
                             \/ a.id.of = "inbox" /\ a.files = {a.id.key}
OwnQueue(q)  == \A f \in Queued(q) : f.id.of = "live"
Fit(r)       == ExactAcks(r.acks) /\ OwnQueue(r.pending)

\* From r to t at most one copy more of each of the messages S.
Frugal(r, t, S) ==
    /\ Fit(t)
    /\ \A m \in Msgs : /\ Held(t, m) <= Held(r, m) + One(m \in S)
                       /\ r.fate[m] # "unsent" => t.fate[m] # "unsent"

\* Numbers of copies are numbers.
LEMMA HeldType ==
    ASSUME NEW r \in Records, NEW m
    PROVE  /\ Tally(r.pending, With(m)) \in Nat /\ Tally(r.failed, FailedWith(m)) \in Nat
           /\ Tally(r.wire, With(m)) \in Nat /\ Open(r.box, r.acks, m) \in 0 .. 1
           /\ Held(r, m) \in Nat
<1>1. r.pending \in Seq(Frame) /\ r.failed \in Seq(Failures) /\ r.wire \in Seq(Frame \cup {NoFrame})
  BY DEF Records
<1>2. /\ Tally(r.pending, With(m)) \in Nat /\ Tally(r.failed, FailedWith(m)) \in Nat
      /\ Tally(r.wire, With(m)) \in Nat
  BY <1>1, TallyFacts
<1>3. Open(r.box, r.acks, m) \in 0 .. 1
  BY DEF Open, One
<1>4. Held(r, m) \in Nat
  BY <1>2, <1>3 DEF Held
<1>. QED
  BY <1>2, <1>3, <1>4

\* One piece of routing code after another.
LEMMA FrugalAgain ==
    ASSUME NEW r \in Records, NEW s \in Records, NEW t \in Records, NEW S,
           (Frugal(r, s, {}) /\ Frugal(s, t, S)) \/ (Frugal(r, s, S) /\ Frugal(s, t, {}))
    PROVE  Frugal(r, t, S)
<1>1. \A m \in Msgs : Held(r, m) \in Nat /\ Held(s, m) \in Nat /\ Held(t, m) \in Nat
  BY HeldType
<1>2. \A m : One(m \in {}) = 0 /\ One(m \in S) \in 0 .. 1
  BY DEF One
<1>. QED
  BY <1>1, <1>2 DEF Frugal

\* AgentHandle::send_message_with_id.
LEMMA SendCommandFrugal ==
    ASSUME NEW r \in Records, Fit(r), NEW f \in Frame
    PROVE  LET t == SendCommand(r, f)
           IN  /\ Frugal(r, t, f.body) /\ (~t.ok => Frugal(r, t, {}))
               /\ t.acks = r.acks /\ t.box = r.box /\ t.failed = r.failed
<1>. DEFINE t == SendCommand(r, f)
<1>1. /\ t.pending = r.pending /\ t.failed = r.failed /\ t.box = r.box /\ t.acks = r.acks
      /\ t.fate = r.fate /\ t.ok = (shim # "gone")
      /\ t.wire = IF shim = "gone" THEN r.wire ELSE Append(r.wire, f)
  BY DEF SendCommand, Records
<1>2. r.wire \in Seq(Frame \cup {NoFrame}) /\ \A m : f \in With(m) <=> m \in f.body
  BY DEF Records, With
<1>. HIDE DEF t
<1>3. ASSUME NEW m \in Msgs
      PROVE  /\ Held(t, m) <= Held(r, m) + One(m \in f.body)
             /\ ~t.ok => Held(t, m) <= Held(r, m) + One(m \in {})
  <2>1. /\ Tally(r.pending, With(m)) \in Nat /\ Tally(r.failed, FailedWith(m)) \in Nat
        /\ Tally(r.wire, With(m)) \in Nat /\ Open(r.box, r.acks, m) \in 0 .. 1
    BY HeldType
  <2>2. Tally(Append(r.wire, f), With(m)) = Tally(r.wire, With(m)) + One(m \in f.body)
    <3>1. Tally(Append(r.wire, f), With(m)) = Tally(r.wire, With(m)) + One(f \in With(m))
      BY <1>2, TallyFacts
    <3>. QED
      BY <1>2, <3>1 DEF One
  <2>3. One(m \in f.body) \in 0 .. 1 /\ One(m \in {}) = 0
    BY DEF One
  <2>4. Held(t, m) = Tally(r.pending, With(m)) + Tally(r.failed, FailedWith(m))
                       + Tally(t.wire, With(m)) + Open(r.box, r.acks, m)
    BY <1>1 DEF Held
  <2>5. CASE shim = "gone"
    BY <1>1, <2>1, <2>3, <2>4, <2>5 DEF Held
  <2>6. CASE shim # "gone"
    <3>1. t.ok /\ t.wire = Append(r.wire, f)
      BY <1>1, <2>6
    <3>2. Held(t, m) = Held(r, m) + One(m \in f.body)
      BY <2>1, <2>2, <2>3, <2>4, <3>1 DEF Held
    <3>. QED
      BY <2>3, <3>1, <3>2, HeldType
  <2>. QED
    BY <2>5, <2>6
<1>4. Fit(t)
  BY <1>1 DEF Fit
<1>. QED
  BY <1>1, <1>3, <1>4 DEF Frugal, t

\* send_live_shim_message, for a live message.
LEMMA SendLiveFrugal ==
    ASSUME NEW r \in Records, Fit(r), NEW f \in Frame, f.id.of = "live"
    PROVE  LET t == SendLive(r, f, {})
           IN  Frugal(r, t, f.body) /\ (~t.ok => Frugal(r, t, {}))
<1>. DEFINE s == SendCommand(r, f)
            t == SendLive(r, f, {})
<1>1. s \in Records /\ t \in Records
  BY SendCommandType, SendLiveType
<1>2. Frugal(r, s, f.body) /\ (~s.ok => Frugal(r, s, {})) /\ s.acks = r.acks
  BY SendCommandFrugal
<1>3. t = IF s.ok THEN [s EXCEPT !.acks = {a \in s.acks : a.id # f.id} \cup {[id |-> f.id, files |-> {}]}] ELSE s
  BY <1>1 DEF SendLive, Records
<1>. HIDE DEF s, t
<1>4. CASE ~ s.ok
  BY <1>2, <1>3, <1>4 DEF t
<1>5. CASE s.ok
  <2>1. /\ t.pending = s.pending /\ t.failed = s.failed /\ t.box = s.box /\ t.ok
        /\ t.fate = s.fate /\ t.wire = s.wire
        /\ t.acks = {a \in s.acks : a.id # f.id} \cup {[id |-> f.id, files |-> {}]}
    BY <1>1, <1>3, <1>5 DEF Records
  <2>2. ExactAcks(s.acks)
    BY <1>2 DEF Frugal, Fit
  <2>3. ExactAcks(t.acks)
    BY <2>1, <2>2 DEF ExactAcks
  <2>4. \A m : (\A a \in t.acks : m \notin a.files) => (\A a \in s.acks : m \notin a.files)
    BY <2>1, <2>2 DEF ExactAcks
  <2>5. ASSUME NEW m \in Msgs PROVE Held(t, m) <= Held(s, m)
    <3>1. Open(t.box, t.acks, m) <= Open(s.box, s.acks, m)
      BY <2>1, <2>4 DEF Open, One
    <3>2. /\ Tally(s.pending, With(m)) \in Nat /\ Tally(s.failed, FailedWith(m)) \in Nat
          /\ Tally(s.wire, With(m)) \in Nat /\ Open(s.box, s.acks, m) \in 0 .. 1
          /\ Open(t.box, t.acks, m) \in 0 .. 1
      BY <1>1, HeldType
    <3>. QED
      BY <2>1, <3>1, <3>2 DEF Held
  <2>6. Fit(t)
    BY <1>2, <2>1, <2>3 DEF Frugal, Fit
  <2>7. \A m : One(m \in {}) = 0
    BY DEF One
  <2>8. Frugal(s, t, {})
    BY <1>1, <2>1, <2>5, <2>6, <2>7, HeldType DEF Frugal
  <2>. QED
    BY <1>1, <1>2, <2>1, <2>8, FrugalAgain DEF t
<1>. QED
  BY <1>4, <1>5

\* Giving up on messages.
LEMMA ClosedFrugal ==
    ASSUME NEW r \in Records, Fit(r), NEW S, NEW why \in Fates \ {"unsent"}
    PROVE  Frugal(r, Closed(r, S, why), {})
<1>. DEFINE t == Closed(r, S, why)
<1>1. /\ t.pending = r.pending /\ t.failed = r.failed /\ t.box = r.box /\ t.acks = r.acks /\ t.wire = r.wire
      /\ t.fate = [m \in Msgs |-> IF m \in S /\ r.fate[m] # "logged" THEN why ELSE r.fate[m]]
  BY DEF Closed, Records
<1>. HIDE DEF t
<1>2. \A m \in Msgs : Held(t, m) = Held(r, m) /\ Held(r, m) \in Nat
  BY <1>1, HeldType DEF Held
<1>3. \A m \in Msgs : r.fate[m] # "unsent" => t.fate[m] # "unsent"
  BY <1>1
<1>4. \A m : One(m \in {}) = 0
  BY DEF One
<1>. QED
  BY <1>1, <1>2, <1>3, <1>4 DEF Frugal, Fit, t

\* deliver_flag_aware.
LEMMA InboxFallbackFrugal ==
    ASSUME NEW r \in Records, Fit(r), NEW S, NEW io \in BOOLEAN
    PROVE  Frugal(r, InboxFallback(r, S, io), S)
<1>. DEFINE t == InboxFallback(r, S, io)
<1>1. /\ t.pending = r.pending /\ t.failed = r.failed /\ t.acks = r.acks /\ t.wire = r.wire /\ t.fate = r.fate
      /\ \A m \in Msgs : m \notin S => t.box[m] = r.box[m]
  BY DEF InboxFallback, Records
<1>2. t \in Records
  BY InboxFallbackType
<1>. HIDE DEF t
<1>3. ASSUME NEW m \in Msgs PROVE Held(t, m) <= Held(r, m) + One(m \in S)
  <2>1. Open(t.box, t.acks, m) <= Open(r.box, r.acks, m) + One(m \in S)
    BY <1>1 DEF Open, One
  <2>2. One(m \in S) \in 0 .. 1
    BY DEF One
  <2>. QED
    BY <1>1, <1>2, <2>1, <2>2, HeldType DEF Held
<1>. QED
  BY <1>1, <1>3 DEF Frugal, Fit, t

\* queue_pending_message_capped.
LEMMA QueueCappedFrugal ==
    ASSUME NEW r \in Records, Fit(r), NEW f \in Frame, f.id.of = "live"
    PROVE  Frugal(r, QueueCapped(r, f), f.body)
<1>. DEFINE old == {i \in DOMAIN r.pending : KeyOf(f) # None /\ KeyOf(r.pending[i]) = KeyOf(f)}
            S == (UNION {r.pending[i].body : i \in old}) \ f.body
            q == Without(r.pending, old)
            s == [r EXCEPT !.pending = Append(q, f)]
            t == [r EXCEPT !.pending = Append(r.pending, f)]
<1>1. r.pending \in Seq(Frame) /\ q \in Seq(Frame)
  BY WithoutType DEF Records
<1>2. QueueCapped(r, f) \in {Closed(s, S, "superseded"), t}
  BY DEF QueueCapped
<1>3. Queued(q) \subseteq Queued(r.pending)
  <2>1. Queued(q) = {r.pending[i] : i \in DOMAIN r.pending \ old}
    BY <1>1, QueuedWithout
  <2>. HIDE DEF q, old
  <2>. QED
    BY <2>1 DEF Queued
<1>4. \A m : Tally(q, With(m)) \in Nat /\ Tally(q, With(m)) <= Tally(r.pending, With(m))
  BY <1>1, TallyWithout
<1>5. \A m : f \in With(m) <=> m \in f.body
  BY DEF With
<1>. HIDE DEF q, S
<1>6. ASSUME NEW p \in Seq(Frame), Queued(p) \subseteq Queued(r.pending),
             \A m : Tally(p, With(m)) \in Nat /\ Tally(p, With(m)) <= Tally(r.pending, With(m))
      PROVE  LET u == [r EXCEPT !.pending = Append(p, f)] IN u \in Records /\ Frugal(r, u, f.body)
  <2>. DEFINE w == Append(p, f)
              u == [r EXCEPT !.pending = w]
  <2>1. w \in Seq(Frame) /\ Queued(w) = Queued(p) \cup {f}
    BY QueuedFacts
  <2>2. \A m : Tally(w, With(m)) = Tally(p, With(m)) + One(m \in f.body)
    <3>1. \A m : Tally(w, With(m)) = Tally(p, With(m)) + One(f \in With(m))
      BY TallyFacts
    <3>. QED
      BY <1>5, <3>1 DEF One
  <2>. HIDE DEF w
  <2>3. /\ u \in Records /\ u.pending = w /\ u.failed = r.failed /\ u.box = r.box /\ u.acks = r.acks
        /\ u.wire = r.wire /\ u.fate = r.fate
    BY <2>1 DEF Records
  <2>. HIDE DEF u
  <2>4. OwnQueue(w)
    BY <1>6, <2>1 DEF Fit, OwnQueue
  <2>5. \A m \in Msgs : Held(u, m) <= Held(r, m) + One(m \in f.body)
    <3>1. \A m : One(m \in f.body) \in 0 .. 1
      BY DEF One
    <3>2. ASSUME NEW m \in Msgs PROVE Held(u, m) <= Held(r, m) + One(m \in f.body)
      <4>1. /\ Tally(r.pending, With(m)) \in Nat /\ Tally(r.failed, FailedWith(m)) \in Nat
            /\ Tally(r.wire, With(m)) \in Nat /\ Open(r.box, r.acks, m) \in 0 .. 1
        BY HeldType
      <4>2. Tally(p, With(m)) \in Nat /\ Tally(p, With(m)) <= Tally(r.pending, With(m))
        BY <1>6
      <4>3. Held(u, m) = Tally(p, With(m)) + One(m \in f.body) + Tally(r.failed, FailedWith(m))
                           + Tally(r.wire, With(m)) + Open(r.box, r.acks, m)
        BY <2>2, <2>3 DEF Held
      <4>4. One(m \in f.body) \in 0 .. 1
        BY <3>1
      <4>. QED
        BY <4>1, <4>2, <4>3, <4>4 DEF Held
    <3>. QED
      BY <3>2
  <2>6. u \in Records /\ Frugal(r, u, f.body)
    BY <2>3, <2>4, <2>5 DEF Frugal, Fit
  <2>. QED
    BY <2>6 DEF u, w
<1>7. s \in Records /\ Frugal(r, s, f.body)
  BY <1>1, <1>3, <1>4, <1>6
<1>8. Frugal(r, t, f.body)
  <2>1. \A m : Tally(r.pending, With(m)) \in Nat /\ Tally(r.pending, With(m)) <= Tally(r.pending, With(m))
    BY HeldType
  <2>. QED
    BY <1>1, <1>6, <2>1
<1>. HIDE DEF s, t
<1>9. Frugal(r, Closed(s, S, "superseded"), f.body)
  <2>1. "superseded" \in Fates \ {"unsent"}
    BY DEF Fates
  <2>2. Fit(s)
    BY <1>7 DEF Frugal
  <2>3. Frugal(s, Closed(s, S, "superseded"), {}) /\ Closed(s, S, "superseded") \in Records
    BY <1>7, <2>1, <2>2, ClosedFrugal, ClosedType
  <2>. QED
    BY <1>7, <2>3, FrugalAgain
<1>. QED
  BY <1>2, <1>8, <1>9

\* deliver_message_with_id makes one copy, in whichever place.
LEMMA RouteFrugal ==
    ASSUME NEW r \in Records, Fit(r), NEW f \in Frame, f.id.of = "live", NEW io \in BOOLEAN
    PROVE  Frugal(r, Route(r, f, io), f.body)
<1>. DEFINE s == SendLive(r, f, {})
            c == Closed(r, f.body, "logged")
<1>1. Frugal(r, c, f.body)
  <2>1. Frugal(r, c, {}) /\ c \in Records
    BY ClosedFrugal, ClosedType DEF Fates
  <2>2. \A m : One(m \in {}) = 0 /\ One(m \in f.body) \in 0 .. 1
    BY DEF One
  <2>. QED
    BY <2>1, <2>2, HeldType DEF Frugal
<1>2. s \in Records /\ Frugal(r, s, f.body) /\ (~s.ok => Frugal(r, s, {}))
  BY SendLiveType, SendLiveFrugal
<1>. HIDE DEF s
<1>3. ~s.ok => Frugal(r, InboxFallback(s, f.body, io), f.body)
  <2>1. SUFFICES ASSUME ~s.ok PROVE Frugal(r, InboxFallback(s, f.body, io), f.body)
    OBVIOUS
  <2>2. Fit(s)
    BY <1>2 DEF Frugal
  <2>3. Frugal(s, InboxFallback(s, f.body, io), f.body) /\ InboxFallback(s, f.body, io) \in Records
    BY <1>2, <2>2, InboxFallbackFrugal, InboxFallbackType
  <2>. QED
    BY <1>2, <2>1, <2>3, FrugalAgain
<1>4. Frugal(r, QueueCapped(r, f), f.body) /\ Frugal(r, InboxFallback(r, f.body, io), f.body)
  BY QueueCappedFrugal, InboxFallbackFrugal
<1>. QED
  BY <1>1, <1>2, <1>3, <1>4 DEF Route, s

\* drain_pending_queue makes no copies.
LEMMA DrainFrugal ==
    ASSUME NEW r \in Records, Fit(r), NEW io \in BOOLEAN
    PROVE  Frugal(r, Drain(r, io), {})
<1>. DEFINE q == r.pending
            n == Len(q)
            b == [r EXCEPT !.pending = <<>>]
            A(i, m) == Ahead(q, With(m), i)
<1>1. PICK run \in [0 .. n -> Records] : DrainSteps(run, r, io) /\ Drain(r, io) = run[n]
  BY DrainRun
<1>2. /\ run[0] = b
      /\ \A i \in 1 .. n : run[i] = IF run[i - 1].ok THEN Route(run[i - 1], q[i], io) ELSE run[i - 1]
  BY <1>1 DEF DrainSteps
<1>3. q \in Seq(Frame) /\ n \in Nat /\ \A i \in 1 .. n : q[i] \in Frame /\ q[i].id.of = "live"
  <2>1. q \in Seq(Frame)
    BY DEF Records
  <2>. QED
    BY <2>1 DEF Fit, OwnQueue, Queued
<1>4. /\ b.failed = r.failed /\ b.box = r.box /\ b.acks = r.acks /\ b.wire = r.wire
      /\ b.fate = r.fate /\ b.pending = <<>>
  BY DEF Records
<1>5. /\ \A i, m : A(i, m) \in Nat
      /\ \A m : A(0, m) = Tally(q, With(m))
      /\ \A i \in 1 .. n : \A m : A(i - 1, m) = A(i, m) + One(q[i] \in With(m))
  BY <1>3, AheadFacts
<1>6. \A i \in 1 .. n : \A m : One(q[i] \in With(m)) = One(m \in q[i].body) /\ One(m \in q[i].body) \in 0 .. 1
  BY <1>3 DEF One, With
<1>. DEFINE Good(i) == /\ Fit(run[i])
                       /\ \A m \in Msgs : /\ Held(run[i], m) + A(i, m) <= Held(r, m)
                                          /\ r.fate[m] # "unsent" => run[i].fate[m] # "unsent"
            P == {i \in 0 .. n : Good(i)}
<1>. HIDE DEF A, b, n
<1>7. 0 \in P
  <2>1. Fit(run[0])
    <3>1. Queued(<<>>) = {}
      BY QueuedSmall
    <3>. QED
      BY <1>2, <1>4, <3>1 DEF Fit, OwnQueue
  <2>2. ASSUME NEW m \in Msgs PROVE Held(b, m) + A(0, m) <= Held(r, m)
    <3>1. Tally(<<>>, With(m)) = 0
      BY <1>3, TallyFacts
    <3>2. /\ Tally(r.pending, With(m)) \in Nat /\ Tally(r.failed, FailedWith(m)) \in Nat
          /\ Tally(r.wire, With(m)) \in Nat /\ Open(r.box, r.acks, m) \in 0 .. 1
      BY HeldType
    <3>3. A(0, m) = Tally(r.pending, With(m))
      BY <1>5
    <3>. QED
      BY <1>4, <3>1, <3>2, <3>3 DEF Held
  <2>3. 0 \in 0 .. n
    BY <1>3
  <2>. QED
    BY <1>2, <1>4, <2>1, <2>2, <2>3
<1>8. ASSUME NEW i \in 1 .. n, i - 1 \in P PROVE i \in P
  <2>1. i \in 0 .. n /\ i - 1 \in 0 .. n
    BY <1>3
  <2>2. run[i - 1] \in Records /\ run[i] \in Records
    BY <1>1, <2>1
  <2>3. Good(i - 1)
    BY <1>8
  <2>4. \A m \in Msgs : /\ Held(run[i - 1], m) \in Nat /\ Held(run[i], m) \in Nat /\ Held(r, m) \in Nat
                        /\ A(i, m) \in Nat /\ A(i - 1, m) = A(i, m) + One(m \in q[i].body)
                        /\ One(m \in q[i].body) \in 0 .. 1
    BY <1>5, <1>6, <2>2, HeldType
  <2>5. CASE ~ run[i - 1].ok
    <3>1. run[i] = run[i - 1]
      BY <1>2, <2>5
    <3>. QED
      BY <2>1, <2>3, <2>4, <3>1
  <2>6. CASE run[i - 1].ok
    <3>1. run[i] = Route(run[i - 1], q[i], io)
      BY <1>2, <2>6
    <3>2. Frugal(run[i - 1], run[i], q[i].body)
      BY <1>3, <2>2, <2>3, <3>1, RouteFrugal
    <3>3. Good(i)
      BY <2>3, <2>4, <3>2 DEF Frugal
    <3>. QED
      BY <2>1, <3>3
  <2>. QED
    BY <2>5, <2>6
<1>. HIDE DEF P
<1>9. \A i \in 0 .. n : i \in P
  BY <1>3, <1>7, <1>8, UpTo
<1>10. n \in P /\ n \in 0 .. n
  BY <1>3, <1>9
<1>11. Good(n)
  BY <1>10 DEF P
<1>12. run[n] \in Records
  BY <1>1, <1>10
<1>13. \A m \in Msgs : /\ Held(run[n], m) \in Nat /\ Held(r, m) \in Nat /\ A(n, m) \in Nat /\ One(m \in {}) = 0
  BY <1>5, <1>12, HeldType DEF One
<1>14. Frugal(r, run[n], {})
  BY <1>11, <1>13 DEF Frugal
<1>. QED
  BY <1>1, <1>14 DEF n

\* One message of the inbox: the copy in the inbox waits for its answer, the other
\* is in the socket.
LEMMA SendFiledFrugal ==
    ASSUME NEW r \in Records, Fit(r), NEW x \in Msgs,
           r.box[x] = "new", \A a \in r.acks : x \notin a.files
    PROVE  LET t == SendFiled(r, x)
           IN  /\ Frugal(r, t, {}) /\ t.box = r.box /\ t.fate = r.fate
               /\ \A m \in Msgs : m # x /\ (\A a \in r.acks : m \notin a.files) => (\A a \in t.acks : m \notin a.files)
<1>. DEFINE f == Filed(x)
            s == SendCommand(r, f)
            w == SendLive(r, f, {x})
            t == SendFiled(r, x)
<1>1. f \in Frame /\ f.id.of = "inbox" /\ f.id.key = x /\ f.body = {x}
  BY FrameTypes, FrameFacts
<1>. HIDE DEF f
<1>2. s \in Records /\ w \in Records
  BY <1>1, SendCommandType, SendLiveType
<1>3. Frugal(r, s, f.body) /\ (~s.ok => Frugal(r, s, {})) /\ s.acks = r.acks /\ s.box = r.box
  BY <1>1, SendCommandFrugal
<1>4. s.fate = r.fate
  BY DEF SendCommand, Records
<1>5. /\ w = IF s.ok THEN [s EXCEPT !.acks = {a \in s.acks : a.id # f.id} \cup {[id |-> f.id, files |-> {x}]}] ELSE s
      /\ t = IF w.ok THEN [w EXCEPT !.handle = "Working"] ELSE w
  BY <1>2 DEF SendLive, SendFiled, Records, f
<1>. HIDE DEF s, w, t
<1>6. CASE ~ s.ok
  <2>1. t = s
    BY <1>5, <1>6
  <2>. QED
    BY <1>3, <1>4, <1>6, <2>1 DEF t
<1>7. CASE s.ok
  <2>1. /\ w.pending = s.pending /\ w.failed = s.failed /\ w.box = r.box /\ w.ok
        /\ w.fate = r.fate /\ w.wire = s.wire
        /\ w.acks = {a \in r.acks : a.id # f.id} \cup {[id |-> f.id, files |-> {x}]}
    BY <1>2, <1>3, <1>4, <1>5, <1>7 DEF Records
  <2>2. /\ t.pending = s.pending /\ t.failed = s.failed /\ t.box = r.box /\ t.fate = r.fate /\ t.wire = s.wire
        /\ t.acks = w.acks
    BY <1>2, <1>5, <2>1 DEF Records
  <2>3. ExactAcks(r.acks) /\ OwnQueue(s.pending)
    BY <1>3 DEF Frugal, Fit
  <2>4. ExactAcks(t.acks)
    BY <1>1, <2>1, <2>2, <2>3 DEF ExactAcks
  <2>5. ASSUME NEW m \in Msgs, m # x
        PROVE  (\A a \in r.acks : m \notin a.files) <=> (\A a \in t.acks : m \notin a.files)
    <3>1. \A a \in r.acks : a.id = f.id => m \notin a.files
      BY <1>1, <2>3, <2>5 DEF ExactAcks
    <3>. QED
      BY <2>1, <2>2, <2>5, <3>1
  <2>6. \E a \in t.acks : x \in a.files
    <3>1. [id |-> f.id, files |-> {x}] \in t.acks
      BY <2>1, <2>2
    <3>. QED
      BY <3>1
  <2>7. ASSUME NEW m \in Msgs PROVE Held(t, m) <= Held(r, m)
    <3>1. /\ Tally(s.pending, With(m)) \in Nat /\ Tally(s.failed, FailedWith(m)) \in Nat
          /\ Tally(s.wire, With(m)) \in Nat /\ Open(s.box, s.acks, m) \in 0 .. 1
          /\ Held(r, m) \in Nat
      BY <1>2, HeldType
    <3>2. Held(t, m) = Tally(s.pending, With(m)) + Tally(s.failed, FailedWith(m)) + Tally(s.wire, With(m))
                         + Open(t.box, t.acks, m)
      BY <2>2 DEF Held
    <3>3. Held(s, m) <= Held(r, m) + One(m \in {x})
      BY <1>1, <1>3 DEF Frugal
    <3>4. CASE m = x
      <4>1. Open(t.box, t.acks, m) = 0 /\ Open(s.box, s.acks, m) = 1 /\ One(m \in {x}) = 1
        BY <1>3, <2>6, <3>4 DEF Open, One
      <4>. QED
        BY <3>1, <3>2, <3>3, <4>1 DEF Held
    <3>5. CASE m # x
      <4>1. Open(t.box, t.acks, m) = Open(s.box, s.acks, m) /\ One(m \in {x}) = 0
        BY <1>3, <2>2, <2>5, <3>5 DEF Open, One
      <4>. QED
        BY <3>1, <3>2, <3>3, <4>1 DEF Held
    <3>. QED
      BY <3>4, <3>5
  <2>8. t \in Records
    BY SendFiledType DEF t
  <2>9. Frugal(r, t, {})
    <3>1. \A m \in Msgs : Held(t, m) \in Nat /\ Held(r, m) \in Nat /\ One(m \in {}) = 0
      BY <2>8, HeldType DEF One
    <3>. QED
      BY <2>2, <2>3, <2>4, <2>7, <3>1 DEF Frugal, Fit
  <2>. QED
    BY <2>2, <2>5, <2>9 DEF t
<1>. QED
  BY <1>6, <1>7

\* deliver_inbox_messages, for messages that may be sent, each once.
LEMMA SendEachFrugal ==
    ASSUME NEW r \in Records, Fit(r), NEW order \in Seq(Msgs),
           \A i, j \in 1 .. Len(order) : order[i] = order[j] => i = j,
           \A i \in 1 .. Len(order) : r.box[order[i]] = "new" /\ \A a \in r.acks : order[i] \notin a.files
    PROVE  Frugal(r, SendEach(r, order), {})
<1>. DEFINE n == Len(order)
<1>1. PICK run \in [0 .. n -> Records] : SendSteps(run, r, order) /\ SendEach(r, order) = run[n]
  BY SendEachRun
<1>2. run[0] = r /\ \A i \in 1 .. n : run[i] = SendFiled(run[i - 1], order[i])
  BY <1>1 DEF SendSteps
<1>3. n \in Nat /\ \A i \in 1 .. n : order[i] \in Msgs
  OBVIOUS
<1>. DEFINE Good(i) == /\ Fit(run[i]) /\ run[i].box = r.box /\ run[i].fate = r.fate
                       /\ \A m \in Msgs : Held(run[i], m) <= Held(r, m)
                       /\ \A j \in 1 .. n : j > i => \A a \in run[i].acks : order[j] \notin a.files
            P == {i \in 0 .. n : Good(i)}
<1>. HIDE DEF n
<1>4. 0 \in P
  <2>1. \A m \in Msgs : Held(r, m) \in Nat
    BY HeldType
  <2>2. 0 \in 0 .. n /\ \A m \in Msgs : Held(r, m) <= Held(r, m)
    BY <1>3, <2>1
  <2>. QED
    BY <1>2, <2>2 DEF n
<1>5. ASSUME NEW i \in 1 .. n, i - 1 \in P PROVE i \in P
  <2>1. i \in 0 .. n /\ i - 1 \in 0 .. n /\ i > i - 1 /\ \A j \in 1 .. n : j > i => j > i - 1 /\ j # i
    BY <1>3
  <2>2. run[i - 1] \in Records /\ run[i] \in Records
    BY <1>1, <2>1
  <2>3. Good(i - 1)
    BY <1>5
  <2>. DEFINE s == run[i - 1]
              t == run[i]
              x == order[i]
  <2>4. s.box[x] = "new" /\ (\A a \in s.acks : x \notin a.files) /\ x \in Msgs /\ Fit(s)
    BY <1>3, <2>1, <2>3 DEF n
  <2>5. t = SendFiled(s, x)
    BY <1>2
  <2>. HIDE DEF s, t, x
  <2>6. /\ Frugal(s, t, {}) /\ t.box = s.box /\ t.fate = s.fate
        /\ \A m \in Msgs : m # x /\ (\A a \in s.acks : m \notin a.files) => (\A a \in t.acks : m \notin a.files)
    <3>1. s \in Records
      BY <2>2 DEF s
    <3>. QED
      BY <2>4, <2>5, <3>1, SendFiledFrugal
  <2>7. \A j \in 1 .. n : j > i => \A a \in t.acks : order[j] \notin a.files
    <3>1. \A j \in 1 .. n : j > i => order[j] \in Msgs /\ order[j] # x /\ \A a \in s.acks : order[j] \notin a.files
      BY <1>3, <2>1, <2>3 DEF n, s, x
    <3>. QED
      BY <2>6, <3>1
  <2>8. \A m \in Msgs : Held(t, m) <= Held(r, m)
    <3>1. \A m \in Msgs : Held(t, m) \in Nat /\ Held(s, m) \in Nat /\ Held(r, m) \in Nat /\ One(m \in {}) = 0
      BY <2>2, HeldType DEF s, t, One
    <3>2. \A m \in Msgs : Held(s, m) <= Held(r, m)
      BY <2>3 DEF s
    <3>. QED
      BY <2>6, <3>1, <3>2 DEF Frugal
  <2>9. Good(i)
    BY <2>3, <2>6, <2>7, <2>8 DEF Frugal, s, t
  <2>. QED
    BY <2>1, <2>9
<1>. HIDE DEF P
<1>6. \A i \in 0 .. n : i \in P
  BY <1>3, <1>4, <1>5, UpTo
<1>7. n \in P /\ n \in 0 .. n
  BY <1>3, <1>6
<1>8. Good(n)
  BY <1>7 DEF P
<1>9. \A m \in Msgs : Held(run[n], m) \in Nat /\ Held(r, m) \in Nat /\ One(m \in {}) = 0
  <2>1. run[n] \in Records
    BY <1>1, <1>7
  <2>. QED
    BY <2>1, HeldType DEF One
<1>10. Frugal(r, run[n], {})
  BY <1>8, <1>9 DEF Frugal
<1>. QED
  BY <1>1, <1>10 DEF n

\* One retry: the delivery is kept, sent or escalated.
LEMMA RetryOneFrugal ==
    ASSUME NEW r \in Records, Fit(r), NEW e \in Failures, NEW io \in BOOLEAN
    PROVE  /\ Frugal(r, RetryOne(r, e, io), e.frame.body)
           /\ Frugal(r, [r EXCEPT !.failed = Append(@, e)], e.frame.body)
<1>. DEFINE s == SendCommand(r, e.frame)
            k == e.attempts + 1
            d == [e EXCEPT !.attempts = k]
            B == e.frame.body
<1>1. e.frame \in Frame /\ e.attempts \in 1 .. (MaxAttempts - 1)
  BY DEF Failures
<1>2. s \in Records /\ Frugal(r, s, B) /\ (~s.ok => Frugal(r, s, {}))
  BY <1>1, SendCommandType, SendCommandFrugal
<1>3. k < MaxAttempts => d \in Failures /\ d.frame = e.frame
  BY <1>1, DeliveryAssumption DEF Failures
<1>4. ASSUME NEW x \in Failures, x.frame = e.frame, NEW u \in Records, Fit(u), NEW v \in Records,
             v.failed = Append(u.failed, x),
             v.pending = u.pending /\ v.box = u.box /\ v.acks = u.acks /\ v.wire = u.wire /\ v.fate = u.fate
      PROVE  Frugal(u, v, B)
  <2>1. u.failed \in Seq(Failures)
    BY DEF Records
  <2>2. \A m : One(x \in FailedWith(m)) = One(m \in B) /\ One(m \in B) \in 0 .. 1
    BY <1>4 DEF One, FailedWith
  <2>3. \A m : Tally(v.failed, FailedWith(m)) = Tally(u.failed, FailedWith(m)) + One(m \in B)
    BY <1>4, <2>1, <2>2, TallyFacts
  <2>. HIDE DEF B
  <2>4. ASSUME NEW m \in Msgs PROVE Held(v, m) <= Held(u, m) + One(m \in B)
    <3>1. /\ Tally(u.pending, With(m)) \in Nat /\ Tally(u.failed, FailedWith(m)) \in Nat
          /\ Tally(u.wire, With(m)) \in Nat /\ Open(u.box, u.acks, m) \in 0 .. 1 /\ One(m \in B) \in 0 .. 1
      BY <2>2, HeldType
    <3>2. Held(v, m) = Tally(u.pending, With(m)) + Tally(v.failed, FailedWith(m))
                         + Tally(u.wire, With(m)) + Open(u.box, u.acks, m)
      BY <1>4 DEF Held
    <3>3. Tally(v.failed, FailedWith(m)) = Tally(u.failed, FailedWith(m)) + One(m \in B)
      BY <2>3
    <3>. QED
      BY <3>1, <3>2, <3>3 DEF Held
  <2>. QED
    BY <1>4, <2>4 DEF Frugal, Fit
<1>. HIDE DEF B
<1>5. ASSUME NEW u \in Records, Fit(u), NEW v, v.failed = u.failed,
             v.pending = u.pending /\ v.box = u.box /\ v.acks = u.acks /\ v.wire = u.wire /\ v.fate = u.fate
      PROVE  Frugal(u, v, {})
  <2>1. \A m \in Msgs : Held(u, m) \in Nat /\ Held(v, m) = Held(u, m) /\ One(m \in {}) = 0
    BY <1>5, HeldType DEF Held, One
  <2>. QED
    BY <1>5, <2>1 DEF Frugal, Fit
<1>6. Frugal(r, [r EXCEPT !.failed = Append(@, e)], B)
  <2>. DEFINE v == [r EXCEPT !.failed = Append(@, e)]
  <2>1. v \in Records
    BY RetryOneType
  <2>2. /\ v.failed = Append(r.failed, e) /\ v.pending = r.pending /\ v.box = r.box
        /\ v.acks = r.acks /\ v.wire = r.wire /\ v.fate = r.fate
    BY DEF Records
  <2>. HIDE DEF v
  <2>3. Frugal(r, v, B)
    BY <1>4, <2>1, <2>2
  <2>. QED
    BY <2>3 DEF v
<1>7. RetryOne(r, e, io) =
        IF ~MemberReady(r.handle) THEN [r EXCEPT !.failed = Append(@, e)]
        ELSE IF s.ok THEN [s EXCEPT !.handle = "Working"]
        ELSE IF k < MaxAttempts THEN [s EXCEPT !.failed = Append(@, d), !.ok = TRUE]
        ELSE IF io THEN s
        ELSE Closed([s EXCEPT !.ok = TRUE], B, "escalated")
  BY DEF RetryOne, B
<1>8. RetryOne(r, e, io) \in Records
  BY RetryOneType
<1>. DEFINE t == RetryOne(r, e, io)
<1>. HIDE DEF s, k, d, t
<1>9. Fit(s)
  BY <1>2 DEF Frugal
<1>10. CASE ~MemberReady(r.handle)
  BY <1>6, <1>7, <1>10 DEF B
<1>11. CASE MemberReady(r.handle) /\ s.ok
  <2>1. t = [s EXCEPT !.handle = "Working"]
    BY <1>7, <1>11 DEF t
  <2>2. Frugal(s, t, {})
    BY <1>2, <1>5, <1>9, <2>1 DEF Records
  <2>. QED
    BY <1>2, <1>6, <1>8, <2>2, FrugalAgain DEF t, B
<1>12. CASE MemberReady(r.handle) /\ ~s.ok /\ k < MaxAttempts
  <2>1. t = [s EXCEPT !.failed = Append(s.failed, d), !.ok = TRUE]
    BY <1>2, <1>7, <1>12 DEF t, Records
  <2>2. /\ t.failed = Append(s.failed, d) /\ t.pending = s.pending /\ t.box = s.box /\ t.acks = s.acks
        /\ t.wire = s.wire /\ t.fate = s.fate
    BY <1>2, <2>1 DEF Records
  <2>3. Frugal(s, t, B)
    BY <1>2, <1>3, <1>4, <1>8, <1>9, <1>12, <2>2 DEF t
  <2>. QED
    BY <1>2, <1>6, <1>8, <1>12, <2>3, FrugalAgain DEF t, B
<1>13. CASE MemberReady(r.handle) /\ ~s.ok /\ ~ (k < MaxAttempts) /\ io
  BY <1>2, <1>6, <1>7, <1>13 DEF B
<1>14. CASE MemberReady(r.handle) /\ ~s.ok /\ ~ (k < MaxAttempts) /\ ~io
  <2>. DEFINE u == [s EXCEPT !.ok = TRUE]
  <2>1. u \in Records
    BY <1>2 DEF Records
  <2>2. Frugal(s, u, {})
    BY <1>2, <1>5, <1>9 DEF Records
  <2>. HIDE DEF u
  <2>3. t = Closed(u, B, "escalated")
    BY <1>7, <1>14 DEF t, u
  <2>4. Fit(u)
    BY <2>2 DEF Frugal
  <2>5. Frugal(u, t, {})
    BY <2>1, <2>3, <2>4, ClosedFrugal DEF Fates
  <2>6. Frugal(s, t, {})
    BY <1>2, <1>8, <2>1, <2>2, <2>5, FrugalAgain DEF t
  <2>7. Frugal(r, t, B)
    BY <1>2, <1>8, <2>6, FrugalAgain DEF t
  <2>. QED
    BY <1>6, <2>7 DEF t, B
<1>. QED
  BY <1>10, <1>11, <1>12, <1>13, <1>14

\* retry_failed_deliveries makes no copies.
LEMMA RetryFrugal ==
    ASSUME NEW r \in Records, Fit(r), NEW due, NEW io \in BOOLEAN
    PROVE  Frugal(r, RetryEach(r, due, io), {})
<1>. DEFINE q == r.failed
            n == Len(q)
            b == [r EXCEPT !.failed = <<>>]
            A(i, m) == Ahead(q, FailedWith(m), i)
<1>1. PICK run \in [0 .. n -> Records] : RetrySteps(run, r, due, io) /\ RetryEach(r, due, io) = run[n]
  BY RetryRun
<1>2. /\ run[0] = b
      /\ \A i \in 1 .. n : run[i] = IF ~run[i - 1].ok THEN run[i - 1]
                                    ELSE IF i \in due THEN RetryOne(run[i - 1], q[i], io)
                                    ELSE [run[i - 1] EXCEPT !.failed = Append(@, q[i])]
  BY <1>1 DEF RetrySteps
<1>3. q \in Seq(Failures) /\ n \in Nat /\ \A i \in 1 .. n : q[i] \in Failures
  <2>1. q \in Seq(Failures)
    BY DEF Records
  <2>. QED
    BY <2>1
<1>4. /\ b.pending = r.pending /\ b.box = r.box /\ b.acks = r.acks /\ b.wire = r.wire
      /\ b.fate = r.fate /\ b.failed = <<>>
  BY DEF Records
<1>5. /\ \A i, m : A(i, m) \in Nat
      /\ \A m : A(0, m) = Tally(q, FailedWith(m))
      /\ \A i \in 1 .. n : \A m : A(i - 1, m) = A(i, m) + One(q[i] \in FailedWith(m))
  BY <1>3, AheadFacts
<1>6. \A i \in 1 .. n : \A m : /\ One(q[i] \in FailedWith(m)) = One(m \in q[i].frame.body)
                               /\ One(m \in q[i].frame.body) \in 0 .. 1
  BY <1>3 DEF One, FailedWith
<1>. DEFINE Good(i) == /\ Fit(run[i])
                       /\ \A m \in Msgs : /\ Held(run[i], m) + A(i, m) <= Held(r, m)
                                          /\ r.fate[m] # "unsent" => run[i].fate[m] # "unsent"
            P == {i \in 0 .. n : Good(i)}
<1>. HIDE DEF A, b, n
<1>7. 0 \in P
  <2>1. Fit(run[0])
    BY <1>2, <1>4 DEF Fit
  <2>2. ASSUME NEW m \in Msgs PROVE Held(b, m) + A(0, m) <= Held(r, m)
    <3>1. Tally(<<>>, FailedWith(m)) = 0
      BY <1>3, TallyFacts
    <3>2. /\ Tally(r.pending, With(m)) \in Nat /\ Tally(r.failed, FailedWith(m)) \in Nat
          /\ Tally(r.wire, With(m)) \in Nat /\ Open(r.box, r.acks, m) \in 0 .. 1
      BY HeldType
    <3>3. A(0, m) = Tally(r.failed, FailedWith(m))
      BY <1>5
    <3>. QED
      BY <1>4, <3>1, <3>2, <3>3 DEF Held
  <2>3. 0 \in 0 .. n
    BY <1>3
  <2>. QED
    BY <1>2, <1>4, <2>1, <2>2, <2>3
<1>8. ASSUME NEW i \in 1 .. n, i - 1 \in P PROVE i \in P
  <2>1. i \in 0 .. n /\ i - 1 \in 0 .. n
    BY <1>3
  <2>2. run[i - 1] \in Records /\ run[i] \in Records
    BY <1>1, <2>1
  <2>3. Good(i - 1)
    BY <1>8
  <2>4. \A m \in Msgs : /\ Held(run[i - 1], m) \in Nat /\ Held(run[i], m) \in Nat /\ Held(r, m) \in Nat
                        /\ A(i, m) \in Nat /\ A(i - 1, m) = A(i, m) + One(m \in q[i].frame.body)
                        /\ One(m \in q[i].frame.body) \in 0 .. 1
    BY <1>5, <1>6, <2>2, HeldType
  <2>5. CASE ~ run[i - 1].ok
    <3>1. run[i] = run[i - 1]
      BY <1>2, <2>5
    <3>. QED
      BY <2>1, <2>3, <2>4, <3>1
  <2>6. CASE run[i - 1].ok
    <3>1. run[i] \in {RetryOne(run[i - 1], q[i], io), [run[i - 1] EXCEPT !.failed = Append(@, q[i])]}
      BY <1>2, <2>6
    <3>2. Frugal(run[i - 1], run[i], q[i].frame.body)
      BY <1>3, <2>2, <2>3, <3>1, RetryOneFrugal
    <3>3. Good(i)
      BY <2>3, <2>4, <3>2 DEF Frugal
    <3>. QED
      BY <2>1, <3>3
  <2>. QED
    BY <2>5, <2>6
<1>. HIDE DEF P
<1>9. \A i \in 0 .. n : i \in P
  BY <1>3, <1>7, <1>8, UpTo
<1>10. n \in P /\ n \in 0 .. n
  BY <1>3, <1>9
<1>11. Good(n)
  BY <1>10 DEF P
<1>12. run[n] \in Records
  BY <1>1, <1>10
<1>13. \A m \in Msgs : /\ Held(run[n], m) \in Nat /\ Held(r, m) \in Nat /\ A(n, m) \in Nat /\ One(m \in {}) = 0
  BY <1>5, <1>12, HeldType DEF One
<1>14. Frugal(r, run[n], {})
  BY <1>11, <1>13 DEF Frugal
<1>. QED
  BY <1>1, <1>14 DEF n

\* Messages that are kept from the agent leave the inbox.
LEMMA SuppressFrugal ==
    ASSUME NEW r \in Records, Fit(r)
    PROVE  /\ Suppress(r) \in Records /\ Frugal(r, Suppress(r), {})
           /\ Suppress(r).acks = r.acks
           /\ \A m \in Msgs : m \notin stale => Suppress(r).box[m] = r.box[m]
<1>. DEFINE s == [r EXCEPT !.box = [m \in Msgs |-> IF m \in Mail \cap stale THEN "cur" ELSE @[m]]]
            t == Closed(s, Mail \cap stale, "logged")
<1>1. t = Suppress(r)
  BY DEF Suppress
<1>2. /\ s.pending = r.pending /\ s.failed = r.failed /\ s.acks = r.acks /\ s.wire = r.wire /\ s.fate = r.fate
      /\ s.box = [m \in Msgs |-> IF m \in Mail \cap stale THEN "cur" ELSE r.box[m]]
  BY DEF Records
<1>3. s \in Records
  BY DEF Records, Boxes
<1>. HIDE DEF s
<1>4. Frugal(r, s, {})
  <2>1. ASSUME NEW m \in Msgs PROVE Held(s, m) <= Held(r, m) + One(m \in {})
    <3>1. Open(s.box, s.acks, m) <= Open(r.box, r.acks, m)
      BY <1>2 DEF Open, One
    <3>2. /\ Tally(r.pending, With(m)) \in Nat /\ Tally(r.failed, FailedWith(m)) \in Nat
          /\ Tally(r.wire, With(m)) \in Nat /\ Open(r.box, r.acks, m) \in 0 .. 1
          /\ Open(s.box, s.acks, m) \in 0 .. 1 /\ One(m \in {}) = 0
      BY <1>3, HeldType DEF One
    <3>. QED
      BY <1>2, <3>1, <3>2 DEF Held
  <2>. QED
    BY <1>2, <2>1 DEF Frugal, Fit
<1>5. t \in Records /\ Frugal(s, t, {})
  <2>1. Fit(s)
    BY <1>4 DEF Frugal
  <2>. QED
    BY <1>3, <2>1, ClosedType, ClosedFrugal DEF Fates
<1>6. t.acks = s.acks /\ t.box = s.box
  BY <1>3 DEF Closed, Records
<1>. HIDE DEF t
<1>7. Frugal(r, t, {})
  BY <1>3, <1>4, <1>5, FrugalAgain
<1>. QED
  BY <1>1, <1>2, <1>5, <1>6, <1>7

-----------------------------------------------------------------------------
(* How many copies of a message there are. *)

\* Those the daemon holds or has sent, those in the shim, those the shim has sent
\* back and those the agent was given.
Copies(m) == Held(Now, m) + Tally(shimq, With(m)) + Tally(events, RefusedWith(m)) + given[m]

\* Of a member without batches: a message that was never sent was never given, and
\* unless something fails there is one copy of a message, wherever it is.
Fresh == \A m \in Msgs : fate[m] = "unsent" => given[m] = 0
Lone  == ~Supervisor => /\ Fresh /\ Fit(Now)
                        /\ faults = 0 => \A m \in Msgs : Copies(m) <= 1

\* What the numbers of copies are made of.
Numbers(m) ==
    /\ Tally(pending, With(m)) \in Nat /\ Tally(failed, FailedWith(m)) \in Nat
    /\ Tally(wire, With(m)) \in Nat /\ Open(box, acks, m) \in 0 .. 1
    /\ Held(Now, m) = Tally(pending, With(m)) + Tally(failed, FailedWith(m))
                        + Tally(wire, With(m)) + Open(box, acks, m)
    /\ Held(Now, m) \in Nat /\ Tally(shimq, With(m)) \in Nat
    /\ Tally(events, RefusedWith(m)) \in Nat /\ given[m] \in 0 .. 2 /\ Copies(m) \in Nat

\* Numbers of copies are numbers.
LEMMA CopiesType == Typed => faults \in Nat /\ \A m \in Msgs : Numbers(m)
<1>0. ASSUME Typed PROVE faults \in Nat
  BY <1>0, DeliveryAssumption DEF Typed, TypeOK
<1>. SUFFICES ASSUME Typed, NEW m \in Msgs PROVE Numbers(m)
  BY <1>0
<1>1. /\ shimq \in Seq(Frame) /\ events \in Seq(Notices) /\ given \in [Msgs -> 0 .. 2]
  BY DEF Typed, TypeOK
<1>2. Tally(shimq, With(m)) \in Nat /\ Tally(events, RefusedWith(m)) \in Nat
  BY <1>1, TallyFacts
<1>3. given[m] \in 0 .. 2
  BY <1>1
<1>4. /\ Now.pending = pending /\ Now.failed = failed /\ Now.wire = wire /\ Now.box = box /\ Now.acks = acks
  BY DEF Now
<1>5. /\ Tally(pending, With(m)) \in Nat /\ Tally(failed, FailedWith(m)) \in Nat
      /\ Tally(wire, With(m)) \in Nat /\ Open(box, acks, m) \in 0 .. 1
      /\ Held(Now, m) \in Nat
  BY <1>4, NowType, HeldType
<1>6. Held(Now, m) = Tally(pending, With(m)) + Tally(failed, FailedWith(m))
                       + Tally(wire, With(m)) + Open(box, acks, m)
  BY <1>4 DEF Held
<1>7. Copies(m) \in Nat
  BY <1>2, <1>3, <1>5 DEF Copies
<1>. QED
  BY <1>2, <1>3, <1>5, <1>6, <1>7 DEF Numbers

\* Likewise in the next state.
LEMMA CopiesTypeNext == Typed' => faults' \in Nat /\ \A m \in Msgs : Numbers(m)'
<1>1. (faults \in Nat /\ \A m \in Msgs : Numbers(m))' <=> faults' \in Nat /\ \A m \in Msgs : Numbers(m)'
  OBVIOUS
<1>. QED
  BY <1>1, CopiesType, PTL

\* There is no copy of a message that was never sent.
LEMMA UnsentNone ==
    ASSUME Inv, Fresh, NEW m \in Msgs, fate[m] = "unsent" PROVE Copies(m) = 0
<1>1. \A f \in InUse : m \notin f.body
  BY DEF Inv, Tracked, Sent
<1>2. /\ Queued(pending) \cap With(m) = {} /\ Queued(wire) \cap With(m) = {} /\ Queued(shimq) \cap With(m) = {}
  BY <1>1 DEF InUse, With
<1>3. Queued(failed) \cap FailedWith(m) = {}
  BY <1>1 DEF InUse, Fails, FailedWith
<1>4. Queued(events) \cap RefusedWith(m) = {}
  BY <1>1 DEF InUse, Refusals, RefusedWith
<1>5. Open(box, acks, m) = 0
  BY DEF Inv, Tracked, Sent, Open, One
<1>6. /\ pending \in Seq(Frame) /\ failed \in Seq(Failures) /\ wire \in Seq(Frame \cup {NoFrame})
      /\ shimq \in Seq(Frame) /\ events \in Seq(Notices)
  BY DEF Inv, Typed, TypeOK
<1>7. /\ Tally(pending, With(m)) = 0 /\ Tally(failed, FailedWith(m)) = 0 /\ Tally(wire, With(m)) = 0
      /\ Tally(shimq, With(m)) = 0 /\ Tally(events, RefusedWith(m)) = 0
  BY <1>2, <1>3, <1>4, <1>6, TallyFacts
<1>8. given[m] = 0
  BY DEF Fresh
<1>9. Held(Now, m) = Tally(pending, With(m)) + Tally(failed, FailedWith(m))
                       + Tally(wire, With(m)) + Open(box, acks, m)
  BY CopiesType DEF Inv, Numbers
<1>. QED
  BY <1>5, <1>7, <1>8, <1>9 DEF Copies

\* A step that makes no second copy keeps the invariant.
LEMMA StepLone ==
    ASSUME Inv, Inv', Lone, ~Supervisor, faults' \in {faults, faults + 1}, Fit(Now)',
           \A m \in Msgs : fate[m] # "unsent" => fate'[m] # "unsent",
           \A m \in Msgs : given'[m] = given[m] \/ fate'[m] # "unsent",
           faults' = 0 => \A m \in Msgs : \/ Copies(m)' <= Copies(m)
                                          \/ fate[m] = "unsent" /\ Copies(m)' <= 1
    PROVE  Lone'
<1>1. faults \in Nat /\ \A m \in Msgs : Copies(m) \in Nat
  BY CopiesType DEF Inv, Numbers
<1>2. Fresh /\ (faults = 0 => \A m \in Msgs : Copies(m) <= 1)
  BY DEF Lone
<1>3. Fresh'
  BY <1>2 DEF Fresh
<1>4. \A m \in Msgs : Copies(m)' \in Nat
  BY CopiesTypeNext DEF Inv, Numbers
<1>5. ASSUME faults' = 0, NEW m \in Msgs PROVE Copies(m)' <= 1
  <2>1. faults = 0
    BY <1>1, <1>5
  <2>2. Copies(m) <= 1 /\ Copies(m) \in Nat /\ Copies(m)' \in Nat
    BY <1>1, <1>2, <1>4, <2>1
  <2>. QED
    BY <1>5, <2>2
<1>. QED
  BY <1>3, <1>5 DEF Lone

\* The events: none is added, or one is read.
LEMMA FewerReports ==
    ASSUME Typed, \/ events' = events
                  \/ events # <<>> /\ events' = Tail(events)
    PROVE  \A m : Tally(events', RefusedWith(m)) <= Tally(events, RefusedWith(m))
<1>1. events \in Seq(Notices)
  BY DEF Typed
<1>2. \A m : Tally(events, RefusedWith(m)) \in Nat
  BY <1>1, TallyFacts
<1>3. CASE events' = events
  BY <1>2, <1>3
<1>4. CASE events # <<>> /\ events' = Tail(events)
  <2>1. \A m : Tally(Tail(events), RefusedWith(m)) + One(Head(events) \in RefusedWith(m))
                 <= Tally(events, RefusedWith(m))
    BY <1>1, <1>4, TallyFacts
  <2>2. Tail(events) \in Seq(Notices)
    BY <1>1, <1>4
  <2>3. \A m : Tally(Tail(events), RefusedWith(m)) \in Nat
    BY <2>2, TallyFacts
  <2>4. \A m : One(Head(events) \in RefusedWith(m)) \in 0 .. 1
    BY DEF One
  <2>. QED
    BY <1>2, <1>4, <2>1, <2>3, <2>4
<1>. QED
  BY <1>3, <1>4

\* Routing from a state with no more copies than there are, of messages that were
\* never sent.
LEMMA RoutedLone ==
    ASSUME Inv, Inv', Lone, ~Supervisor, NEW b \in Records, NEW t \in Records, NEW S,
           Frugal(b, t, S), Becomes(t),
           \A m \in Msgs : Held(b, m) <= Held(Now, m),
           \A m \in Msgs : fate[m] # "unsent" => b.fate[m] # "unsent",
           \A m \in Msgs : m \in S => fate[m] = "unsent",
           \/ events' = events
           \/ events # <<>> /\ events' = Tail(events),
           faults' \in {faults, faults + 1}, UNCHANGED <<shimq, given>>
    PROVE  Lone'
<1>1. /\ pending' = t.pending /\ failed' = t.failed /\ acks' = t.acks /\ box' = t.box
      /\ wire' = t.wire /\ fate' = t.fate
  BY DEF Becomes
<1>2. Fit(Now)'
  BY <1>1 DEF Frugal, Fit, Now
<1>3. \A m \in Msgs : fate[m] # "unsent" => fate'[m] # "unsent"
  BY <1>1 DEF Frugal
<1>4. ASSUME NEW m \in Msgs
      PROVE  Copies(m)' <= Copies(m) \/ (fate[m] = "unsent" /\ Copies(m)' <= 1)
  <2>1. Held(Now, m)' = Held(t, m)
    BY <1>1 DEF Held, Now
  <2>2. Numbers(m) /\ Held(b, m) \in Nat /\ Held(t, m) \in Nat
    BY CopiesType, HeldType DEF Inv
  <2>3. Held(t, m) <= Held(b, m) + One(m \in S) /\ Held(b, m) <= Held(Now, m)
    BY DEF Frugal
  <2>4. Tally(events', RefusedWith(m)) <= Tally(events, RefusedWith(m)) /\ Numbers(m)'
    BY FewerReports, CopiesTypeNext DEF Inv
  <2>5. Copies(m)' = Held(t, m) + Tally(shimq, With(m)) + Tally(events', RefusedWith(m)) + given[m]
    BY <2>1 DEF Copies
  <2>6. Tally(events', RefusedWith(m)) \in Nat
    BY <2>4 DEF Numbers
  <2>7. /\ Held(Now, m) \in Nat /\ Tally(shimq, With(m)) \in Nat
        /\ Tally(events, RefusedWith(m)) \in Nat /\ given[m] \in 0 .. 2
        /\ Copies(m) = Held(Now, m) + Tally(shimq, With(m)) + Tally(events, RefusedWith(m)) + given[m]
    BY <2>2 DEF Copies, Numbers
  <2>8. CASE m \in S
    <3>1. Copies(m) = 0 /\ fate[m] = "unsent" /\ One(m \in S) = 1
      BY <2>8, UnsentNone DEF Lone, One
    <3>2. Copies(m)' <= Copies(m) + 1
      BY <2>2, <2>3, <2>4, <2>5, <2>6, <2>7, <3>1
    <3>. QED
      BY <3>1, <3>2
  <2>9. CASE m \notin S
    <3>1. One(m \in S) = 0
      BY <2>9 DEF One
    <3>. QED
      BY <2>2, <2>3, <2>4, <2>5, <2>6, <2>7, <3>1
  <2>. QED
    BY <2>8, <2>9
<1>. QED
  BY <1>2, <1>3, <1>4, StepLone

\* Draining the queue makes no second copy.
LEMMA DrainLone ==
    ASSUME Inv, Inv', Lone, ~Supervisor, NEW r \in Records, NEW io \in BOOLEAN,
           r.pending = pending, r.failed = failed, r.wire = wire, r.acks = acks, r.box = box,
           r.fate = fate, Becomes(Drain(r, io)) \/ Becomes(r), NEW x, Errs(io, x),
           \/ events' = events
           \/ events # <<>> /\ events' = Tail(events),
           UNCHANGED <<shimq, given>>
    PROVE  Lone'
<1>1. Fit(r)
  BY DEF Lone, Fit, Now
<1>2. \A m \in Msgs : Held(r, m) = Held(Now, m) /\ Held(r, m) \in Nat
  BY HeldType DEF Held, Now
<1>3. \A m \in Msgs : Held(r, m) <= Held(Now, m)
  BY <1>2
<1>4. faults' \in {faults, faults + 1}
  BY ErrsFacts DEF Inv
<1>5. Frugal(r, Drain(r, io), {}) /\ Drain(r, io) \in Records
  BY <1>1, DrainFrugal, DrainRun
<1>6. Frugal(r, r, {})
  BY <1>1, <1>2 DEF Frugal, One
<1>7. \A m \in Msgs : fate[m] # "unsent" => r.fate[m] # "unsent"
  OBVIOUS
<1>8. \A m \in Msgs : m \in {} => fate[m] = "unsent"
  OBVIOUS
<1>. QED
  BY <1>3, <1>4, <1>5, <1>6, <1>7, <1>8, RoutedLone

\* Draining when the shim is ready, when it is idle again, when the daemon takes it
\* for idle.
LEMMA DrainsLone ==
    ASSUME Inv, Inv', Lone, ~Supervisor, OnReady \/ OnStateChanged \/ ForceIdle PROVE Lone'
<1>. DEFINE rr == IF handle = "Working" THEN Now ELSE [Now EXCEPT !.handle = "Idle", !.inflight = NoFrame]
            rs == [Now EXCEPT !.handle = Arg]
            rf == [Now EXCEPT !.handle = "Idle"]
<1>1. /\ Now \in Records /\ Now.pending = pending /\ Now.failed = failed /\ Now.wire = wire
      /\ Now.acks = acks /\ Now.box = box /\ Now.fate = fate
  BY NowType DEF Inv, Now
<1>2. CASE OnReady
  <2>1. PICK io \in BOOLEAN : Errs(io, Drain(rr, io)) /\ Becomes(Drain(rr, io))
    BY <1>2 DEF OnReady
  <2>2. /\ rr \in Records /\ rr.pending = pending /\ rr.failed = failed /\ rr.wire = wire
        /\ rr.acks = acks /\ rr.box = box /\ rr.fate = fate
    BY <1>1, RecordTypes DEF Handles, Now
  <2>3. UNCHANGED <<shimq, given>> /\ events # <<>> /\ events' = Tail(events)
    BY <1>2 DEF OnReady, Poll
  <2>. HIDE DEF rr
  <2>. QED
    BY <2>1, <2>2, <2>3, DrainLone
<1>3. CASE OnStateChanged
  <2>1. PICK io \in BOOLEAN : /\ Errs(io, IF Arg = "Idle" THEN Drain(rs, io) ELSE rs)
                              /\ Becomes(IF Arg = "Idle" THEN Drain(rs, io) ELSE rs)
    BY <1>3 DEF OnStateChanged
  <2>2. /\ rs \in Records /\ rs.pending = pending /\ rs.failed = failed /\ rs.wire = wire
        /\ rs.acks = acks /\ rs.box = box /\ rs.fate = fate
    BY <1>1, <1>3, RecordTypes, PollType DEF Now, Inv, OnStateChanged
  <2>3. UNCHANGED <<shimq, given>> /\ events # <<>> /\ events' = Tail(events)
    BY <1>3 DEF OnStateChanged, Poll
  <2>. HIDE DEF rs
  <2>4. Becomes(Drain(rs, io)) \/ Becomes(rs)
    BY <2>1
  <2>. QED
    BY <2>1, <2>2, <2>3, <2>4, DrainLone
<1>4. CASE ForceIdle
  <2>1. PICK io \in BOOLEAN : Errs(io, Drain(rf, io)) /\ Becomes(Drain(rf, io))
    BY <1>4 DEF ForceIdle
  <2>2. /\ rf \in Records /\ rf.pending = pending /\ rf.failed = failed /\ rf.wire = wire
        /\ rf.acks = acks /\ rf.box = box /\ rf.fate = fate
    BY <1>1, RecordTypes DEF Handles, Now
  <2>3. UNCHANGED <<shimq, given, events>>
    BY <1>4 DEF ForceIdle
  <2>. HIDE DEF rf
  <2>. QED
    BY <2>1, <2>2, <2>3, DrainLone
<1>. QED
  BY <1>2, <1>3, <1>4

\* A message of the daemon itself: the first copy.
LEMMA DaemonMessageLone ==
    ASSUME Inv, Inv', Lone, ~Supervisor, NEW m \in Msgs, DaemonMessage(m) PROVE Lone'
<1>. DEFINE b == [Now EXCEPT !.fate[m] = "none"]
            t(io) == Route(b, Live(m), io)
<1>1. PICK io \in BOOLEAN : Errs(io, t(io)) /\ Becomes(t(io))
  BY DEF DaemonMessage
<1>2. b \in Records /\ Live(m) \in Frame /\ Live(m).body = {m} /\ Live(m).id.of = "live"
  BY NowType, RecordTypes, FrameTypes, FrameFacts DEF Inv
<1>3. /\ b.pending = pending /\ b.failed = failed /\ b.wire = wire /\ b.acks = acks /\ b.box = box
      /\ b.fate = [fate EXCEPT ![m] = "none"]
  BY DEF Now
<1>. HIDE DEF b
<1>4. fate \in [Msgs -> Fates] /\ fate[m] = "unsent" /\ UNCHANGED <<events, shimq, given>>
  BY DEF Inv, Typed, TypeOK, DaemonMessage
<1>5. \A k \in Msgs : (fate[k] # "unsent" => b.fate[k] # "unsent") /\ (k \in {m} => fate[k] = "unsent")
  BY <1>3, <1>4
<1>6. Fit(b)
  BY <1>3 DEF Lone, Fit, Now
<1>7. \A k \in Msgs : Held(b, k) <= Held(Now, k)
  <2>1. \A k \in Msgs : Held(b, k) = Held(Now, k) /\ Held(b, k) \in Nat
    BY <1>2, <1>3, HeldType DEF Held, Now
  <2>. QED
    BY <2>1
<1>8. t(io) \in Records /\ Frugal(b, t(io), {m})
  BY <1>2, <1>6, RouteType, RouteFrugal
<1>9. faults' \in {faults, faults + 1}
  BY <1>1, ErrsFacts DEF Inv
<1>. HIDE DEF t
<1>. QED
  BY <1>1, <1>2, <1>4, <1>5, <1>7, <1>8, <1>9, RoutedLone

\* A retry makes no second copy.
LEMMA RetryLone ==
    ASSUME Inv, Inv', Lone, ~Supervisor, NEW due \in SUBSET DOMAIN failed, Retry(due) PROVE Lone'
<1>. DEFINE t(io) == RetryEach(Now, due, io)
<1>1. PICK io \in BOOLEAN : Errs(io, t(io)) /\ Becomes(t(io))
  BY DEF Retry
<1>2. Now \in Records /\ Now.failed = failed /\ Now.fate = fate
  BY NowType DEF Inv, Now
<1>3. Fit(Now)
  BY DEF Lone
<1>4. t(io) \in Records /\ Frugal(Now, t(io), {})
  BY <1>2, <1>3, RetryRun, RetryFrugal
<1>5. faults' \in {faults, faults + 1} /\ UNCHANGED <<events, shimq, given>>
  BY <1>1, ErrsFacts DEF Inv, Retry
<1>6. \A k \in Msgs : /\ Held(Now, k) <= Held(Now, k)
                      /\ fate[k] # "unsent" => Now.fate[k] # "unsent"
                      /\ k \in {} => fate[k] = "unsent"
  BY <1>2, HeldType
<1>. HIDE DEF t
<1>. QED
  BY <1>1, <1>2, <1>4, <1>5, <1>6, RoutedLone

\* Old messages that go to the inbox leave the queue.
LEMMA ExpireLone ==
    ASSUME Inv, Inv', Lone, ~Supervisor, NEW old \in SUBSET DOMAIN pending, Expire(old) PROVE Lone'
<1>. DEFINE newest == CHOOSE i \in old : \A j \in old : j <= i
            put == IF Cardinality(old) <= DigestThreshold THEN old ELSE {newest}
            filed == UNION {pending[i].body : i \in put}
            dropped == (UNION {pending[i].body : i \in old \ put}) \ filed
            kept == [Now EXCEPT !.pending = Without(@, old)]
            c == Closed(kept, dropped, "superseded")
            t(io) == InboxFallback(c, filed, io)
<1>1. PICK io \in BOOLEAN : Errs(io, t(io)) /\ Becomes(t(io))
  BY DEF Expire
<1>2. /\ Now \in Records /\ Now.pending = pending /\ pending \in Seq(Frame) /\ Len(pending) \in Nat
      /\ DOMAIN pending = 1 .. Len(pending)
  <2>1. Typed
    BY DEF Inv
  <2>2. Now \in Records
    BY <2>1, NowType
  <2>3. Now.pending = pending
    BY DEF Now
  <2>4. pending \in Seq(Frame)
    BY <2>1 DEF Typed, TypeOK
  <2>. QED
    BY <2>2, <2>3, <2>4
<1>3. put \subseteq old
  <2>1. CASE old = {}
    <3>1. Cardinality(old) = 0
      BY <2>1, FS_EmptySet
    <3>2. Cardinality(old) <= DigestThreshold
      BY <3>1, DeliveryAssumption
    <3>. QED
      BY <3>2
  <2>2. CASE old # {}
    <3>1. \E i \in old : \A j \in old : j <= i
      BY <1>2, <2>2, LastPosition
    <3>2. newest \in old
      BY <3>1
    <3>. HIDE DEF newest
    <3>. QED
      BY <3>2
  <2>. QED
    BY <2>1, <2>2
<1>4. \A m \in filed : \E i \in DOMAIN pending \cap old : m \in pending[i].body
  BY <1>3
<1>. HIDE DEF put, filed, dropped
<1>5. Without(pending, old) \in Seq(Frame) /\ Queued(Without(pending, old)) \subseteq Queued(pending)
  <2>1. Queued(Without(pending, old)) = {pending[i] : i \in DOMAIN pending \ old}
    BY <1>2, QueuedWithout
  <2>. QED
    BY <1>2, <2>1, WithoutType DEF Queued
<1>6. kept \in Records /\ kept = [Now EXCEPT !.pending = Without(pending, old)]
  BY <1>2, <1>5, RecordTypes
<1>7. /\ kept.pending = Without(pending, old) /\ kept.failed = failed /\ kept.wire = wire /\ kept.acks = acks
      /\ kept.box = box /\ kept.fate = fate
  BY <1>6 DEF Now
<1>. HIDE DEF kept
<1>8. Fit(kept)
  BY <1>5, <1>7 DEF Lone, Fit, Now, OwnQueue
<1>9. c \in Records /\ Frugal(kept, c, {})
  BY <1>6, <1>8, ClosedType, ClosedFrugal DEF Fates
<1>. HIDE DEF c
<1>10. t(io) \in Records /\ Frugal(c, t(io), filed)
  BY <1>9, InboxFallbackType, InboxFallbackFrugal DEF Frugal
<1>. HIDE DEF t
<1>11. Frugal(kept, t(io), filed)
  BY <1>6, <1>9, <1>10, FrugalAgain
<1>12. ASSUME NEW m \in Msgs PROVE Held(kept, m) + One(m \in filed) <= Held(Now, m)
  <2>1. Numbers(m)
    BY CopiesType DEF Inv
  <2>2. /\ Tally(pending, With(m)) \in Nat /\ Tally(failed, FailedWith(m)) \in Nat
        /\ Tally(wire, With(m)) \in Nat /\ Open(box, acks, m) \in 0 .. 1
        /\ Held(Now, m) = Tally(pending, With(m)) + Tally(failed, FailedWith(m))
                            + Tally(wire, With(m)) + Open(box, acks, m)
    BY <2>1 DEF Numbers
  <2>3. Held(kept, m) = Tally(Without(pending, old), With(m)) + Tally(failed, FailedWith(m))
                          + Tally(wire, With(m)) + Open(box, acks, m)
    BY <1>7 DEF Held
  <2>4. Tally(Without(pending, old), With(m)) \in Nat
    BY <1>2, TallyWithout
  <2>5. CASE m \in filed
    <3>1. PICK i \in DOMAIN pending \cap old : m \in pending[i].body
      BY <1>4, <2>5
    <3>2. pending[i] \in With(m)
      BY <1>2, <3>1 DEF With
    <3>3. Tally(Without(pending, old), With(m)) + 1 <= Tally(pending, With(m))
      BY <1>2, <3>1, <3>2, TallyWithout
    <3>4. One(m \in filed) = 1
      BY <2>5 DEF One
    <3>. QED
      BY <2>2, <2>3, <2>4, <3>3, <3>4
  <2>6. CASE m \notin filed
    <3>1. Tally(Without(pending, old), With(m)) <= Tally(pending, With(m))
      BY <1>2, TallyWithout
    <3>2. One(m \in filed) = 0
      BY <2>6 DEF One
    <3>. QED
      BY <2>2, <2>3, <2>4, <3>1, <3>2
  <2>. QED
    BY <2>5, <2>6
<1>13. Frugal(Now, t(io), {})
  <2>1. \A m \in Msgs : /\ Held(kept, m) \in Nat /\ Held(t(io), m) \in Nat /\ Held(Now, m) \in Nat
                        /\ One(m \in filed) \in 0 .. 1 /\ One(m \in {}) = 0
    BY <1>2, <1>6, <1>10, HeldType DEF One
  <2>2. Now.fate = fate
    BY DEF Now
  <2>. QED
    BY <1>7, <1>11, <1>12, <2>1, <2>2 DEF Frugal
<1>14. faults' \in {faults, faults + 1} /\ UNCHANGED <<events, shimq, given>>
  BY <1>1, ErrsFacts DEF Inv, Expire
<1>15. \A k \in Msgs : /\ Held(Now, k) <= Held(Now, k)
                       /\ fate[k] # "unsent" => Now.fate[k] # "unsent"
                       /\ k \in {} => fate[k] = "unsent"
  BY <1>2, HeldType DEF Now
<1>. QED
  BY <1>1, <1>2, <1>10, <1>13, <1>14, <1>15, RoutedLone

\* deliver_inbox_messages sends what no entry of pending_shim_acks stands for.
LEMMA DeliverInboxLone ==
    ASSUME Inv, Inv', Lone, ~Supervisor, DeliverInbox PROVE Lone'
<1>. DEFINE r == Suppress(Now)
            Q == {m \in Mail \ (stale \cup {}) : ~PendingAck(r, m)}
<1>1. /\ Now \in Records /\ Now.acks = acks /\ Now.box = box /\ Now.fate = fate /\ Fit(Now) /\ Mail \subseteq Msgs
  BY NowType DEF Inv, Now, Lone, Mail
<1>2. InboxPass(r, {}) /\ UNCHANGED <<events, shimq, given, faults>>
  BY DEF DeliverInbox, Supervisor, Batches
<1>3. PICK order \in SetToSeqs(Q) : Becomes(SendEach(r, order))
  BY <1>2 DEF InboxPass
<1>4. /\ r \in Records /\ Frugal(Now, r, {})
      /\ \A m \in Msgs : m \notin stale => r.box[m] = box[m]
  BY <1>1, SuppressFrugal
<1>5. Q \in SUBSET Msgs /\ \A m \in Q : r.box[m] = "new" /\ \A a \in r.acks : m \notin a.files
  BY <1>1, <1>4 DEF Mail, PendingAck
<1>. HIDE DEF r, Q
<1>6. /\ order \in Seq(Msgs)
      /\ \A i \in 1 .. Len(order) : order[i] \in Q
      /\ \A i, j \in 1 .. Len(order) : order[i] = order[j] => i = j
  BY <1>3, <1>5, OrderType
<1>. DEFINE t == SendEach(r, order)
<1>7. t \in Records /\ Frugal(r, t, {})
  <2>1. Fit(r)
    BY <1>4 DEF Frugal
  <2>2. \A i \in 1 .. Len(order) : r.box[order[i]] = "new" /\ \A a \in r.acks : order[i] \notin a.files
    BY <1>5, <1>6
  <2>. QED
    BY <1>4, <1>6, <2>1, <2>2, SendEachFrugal, SendEachRun
<1>8. Becomes(t)
  BY <1>3
<1>. HIDE DEF t
<1>9. Frugal(Now, t, {})
  BY <1>1, <1>4, <1>7, FrugalAgain
<1>10. \A k \in Msgs : /\ Held(Now, k) <= Held(Now, k)
                       /\ fate[k] # "unsent" => Now.fate[k] # "unsent"
                       /\ k \in {} => fate[k] = "unsent"
  BY <1>1, HeldType
<1>. QED
  BY <1>1, <1>2, <1>7, <1>8, <1>9, <1>10, RoutedLone

\* Every place holds as many copies as before, or fewer.
Dwindles(m) ==
    /\ Tally(pending', With(m)) <= Tally(pending, With(m))
    /\ Tally(failed', FailedWith(m)) <= Tally(failed, FailedWith(m))
    /\ Tally(wire', With(m)) <= Tally(wire, With(m))
    /\ Open(box', acks', m) <= Open(box, acks, m)
    /\ Tally(shimq', With(m)) <= Tally(shimq, With(m))
    /\ Tally(events', RefusedWith(m)) <= Tally(events, RefusedWith(m))

\* A step that copies nothing and gives nothing.
LEMMA DwindlesLone ==
    ASSUME Inv, Inv', Lone, ~Supervisor, faults' \in {faults, faults + 1}, given' = given, Fit(Now)',
           \A m \in Msgs : fate[m] # "unsent" => fate'[m] # "unsent",
           faults' = 0 => \A m \in Msgs : Dwindles(m)
    PROVE  Lone'
<1>1. ASSUME faults' = 0, NEW m \in Msgs PROVE Copies(m)' <= Copies(m)
  <2>1. Numbers(m) /\ Numbers(m)' /\ Dwindles(m)
    BY <1>1, CopiesType, CopiesTypeNext DEF Inv
  <2>2. Held(Now, m)' <= Held(Now, m)
    BY <2>1 DEF Numbers, Dwindles
  <2>3. /\ Held(Now, m) \in Nat /\ Held(Now, m)' \in Nat
        /\ Tally(shimq, With(m)) \in Nat /\ Tally(shimq', With(m)) \in Nat
        /\ Tally(events, RefusedWith(m)) \in Nat /\ Tally(events', RefusedWith(m)) \in Nat
        /\ given[m] \in 0 .. 2
        /\ Tally(shimq', With(m)) <= Tally(shimq, With(m))
        /\ Tally(events', RefusedWith(m)) <= Tally(events, RefusedWith(m))
    BY <2>1 DEF Numbers, Dwindles
  <2>4. /\ Copies(m) = Held(Now, m) + Tally(shimq, With(m)) + Tally(events, RefusedWith(m)) + given[m]
        /\ Copies(m)' = Held(Now, m)' + Tally(shimq', With(m)) + Tally(events', RefusedWith(m)) + given[m]
    BY DEF Copies
  <2>. QED
    BY <2>2, <2>3, <2>4
<1>. QED
  BY <1>1, StepLone

\* What stays as it is.
LEMMA SameTally ==
    ASSUME Typed
    PROVE  \A m \in Msgs :
             /\ pending' = pending => Tally(pending', With(m)) <= Tally(pending, With(m))
             /\ failed' = failed => Tally(failed', FailedWith(m)) <= Tally(failed, FailedWith(m))
             /\ wire' \in {wire, <<>>} => Tally(wire', With(m)) <= Tally(wire, With(m))
             /\ wire # <<>> /\ wire' = Tail(wire) => Tally(wire', With(m)) <= Tally(wire, With(m))
             /\ box' = box /\ acks' = acks => Open(box', acks', m) <= Open(box, acks, m)
             /\ shimq' \in {shimq, <<>>} => Tally(shimq', With(m)) <= Tally(shimq, With(m))
             /\ events' \in {events, <<>>} => Tally(events', RefusedWith(m)) <= Tally(events, RefusedWith(m))
<1>. SUFFICES ASSUME NEW m \in Msgs
              PROVE  /\ pending' = pending => Tally(pending', With(m)) <= Tally(pending, With(m))
                     /\ failed' = failed => Tally(failed', FailedWith(m)) <= Tally(failed, FailedWith(m))
                     /\ wire' \in {wire, <<>>} => Tally(wire', With(m)) <= Tally(wire, With(m))
                     /\ wire # <<>> /\ wire' = Tail(wire) => Tally(wire', With(m)) <= Tally(wire, With(m))
                     /\ box' = box /\ acks' = acks => Open(box', acks', m) <= Open(box, acks, m)
                     /\ shimq' \in {shimq, <<>>} => Tally(shimq', With(m)) <= Tally(shimq, With(m))
                     /\ events' \in {events, <<>>} => Tally(events', RefusedWith(m)) <= Tally(events, RefusedWith(m))
  OBVIOUS
<1>1. /\ wire \in Seq(Frame \cup {NoFrame}) /\ shimq \in Seq(Frame) /\ events \in Seq(Notices)
  BY DEF Typed, TypeOK
<1>2. Numbers(m)
  BY CopiesType
<1>3. /\ Tally(pending, With(m)) \in Nat /\ Tally(failed, FailedWith(m)) \in Nat
      /\ Tally(wire, With(m)) \in Nat /\ Open(box, acks, m) \in 0 .. 1
      /\ Tally(shimq, With(m)) \in Nat /\ Tally(events, RefusedWith(m)) \in Nat
  BY <1>2 DEF Numbers
<1>4. Tally(<<>>, With(m)) = 0 /\ Tally(<<>>, RefusedWith(m)) = 0
  BY <1>1, TallyFacts
<1>5. wire # <<>> => Tally(Tail(wire), With(m)) <= Tally(wire, With(m))
  <2>. SUFFICES ASSUME wire # <<>> PROVE Tally(Tail(wire), With(m)) <= Tally(wire, With(m))
    OBVIOUS
  <2>1. Tail(wire) \in Seq(Frame \cup {NoFrame})
    BY <1>1
  <2>2. /\ Tally(Tail(wire), With(m)) \in Nat
        /\ Tally(Tail(wire), With(m)) + One(Head(wire) \in With(m)) <= Tally(wire, With(m))
    BY <1>1, <2>1, TallyFacts
  <2>3. One(Head(wire) \in With(m)) \in 0 .. 1
    BY DEF One
  <2>. QED
    BY <1>3, <2>2, <2>3
<1>6. /\ pending' = pending => Tally(pending', With(m)) <= Tally(pending, With(m))
      /\ failed' = failed => Tally(failed', FailedWith(m)) <= Tally(failed, FailedWith(m))
  BY <1>3
<1>7. wire' \in {wire, <<>>} => Tally(wire', With(m)) <= Tally(wire, With(m))
  BY <1>3, <1>4
<1>8. box' = box /\ acks' = acks => Open(box', acks', m) <= Open(box, acks, m)
  BY <1>3
<1>9. shimq' \in {shimq, <<>>} => Tally(shimq', With(m)) <= Tally(shimq, With(m))
  BY <1>3, <1>4
<1>10. events' \in {events, <<>>} => Tally(events', RefusedWith(m)) <= Tally(events, RefusedWith(m))
  BY <1>3, <1>4
<1>. QED
  BY <1>5, <1>6, <1>7, <1>8, <1>9, <1>10

\* The inbox takes note of the shim's answer.
LEMMA OnMessageDeliveredLone ==
    ASSUME Inv, Inv', Lone, ~Supervisor, OnMessageDelivered PROVE Lone'
<1>. DEFINE done == UNION {a.files : a \in {b \in acks : b.id = Arg}}
<1>1. /\ box' = [m \in Msgs |-> IF m \in done /\ box[m] = "new" THEN "cur" ELSE box[m]]
      /\ acks' = {a \in acks : a.id # Arg}
      /\ UNCHANGED <<kind, shimq, given, pending, failed, wire, fate, faults>>
      /\ events # <<>> /\ events' = Tail(events)
  BY DEF OnMessageDelivered, Poll
<1>2. ASSUME NEW m \in Msgs PROVE Open(box', acks', m) <= Open(box, acks, m)
  <2>1. box'[m] = "new" /\ (\A a \in acks' : m \notin a.files)
          => box[m] = "new" /\ \A a \in acks : m \notin a.files
    BY <1>1
  <2>. HIDE DEF done
  <2>. QED
    BY <2>1 DEF Open, One
<1>. HIDE DEF done
<1>3. Fit(Now)'
  BY <1>1 DEF Lone, Fit, Now, ExactAcks
<1>4. \A m \in Msgs : Dwindles(m)
  BY <1>1, <1>2, SameTally, FewerReports DEF Dwindles, Inv
<1>. QED
  BY <1>1, <1>3, <1>4, DwindlesLone

\* A refused message of the daemon's own is recorded once, another may be sent from
\* the inbox again.
LEMMA OnDeliveryFailedLone ==
    ASSUME Inv, Inv', Lone, ~Supervisor, OnDeliveryFailed PROVE Lone'
<1>. DEFINE known == {a \in acks : a.id = Arg.id}
            again == \E a \in known : a.files = {} /\ \A i \in DOMAIN failed : failed[i].frame.body # Arg.body
            e == [frame |-> Arg, attempts |-> 1]
            k == Arg.id.key
<1>1. /\ acks' = acks \ known
      /\ failed' = IF again THEN Append(failed, e) ELSE failed
      /\ UNCHANGED <<kind, shimq, given, pending, box, wire, fate, faults>>
  BY DEF OnDeliveryFailed, Poll
<1>2. events # <<>> /\ events' = Tail(events) /\ Head(events).op = "DeliveryFailed" /\ Arg \in Frame
  BY PollType DEF OnDeliveryFailed, Poll, Inv
<1>3. events \in Seq(Notices) /\ Head(events) \in Notices /\ Tail(events) \in Seq(Notices) /\ Head(events).arg = Arg
  BY <1>2 DEF Inv, Typed, Arg
<1>4. e \in Failures /\ failed \in Seq(Failures) /\ e.frame = Arg
  BY <1>2, DeliveryAssumption DEF Failures, Inv, Typed, TypeOK
<1>5. Arg.id.of # "batch" => Arg.body = {k}
  <2>1. Arg \in Refusals
    BY <1>2, ReadEvent DEF Inv, Arg
  <2>2. Arg \in InUse /\ Arg # NoFrame
    BY <1>2, <2>1, FrameTypes DEF InUse
  <2>. QED
    BY <2>2 DEF Inv, Tracked, Proper
<1>6. ExactAcks(acks)
  BY DEF Lone, Fit, Now
<1>7. again => Arg.id.of = "live" /\ \A a \in known : a.files = {}
  BY <1>6 DEF ExactAcks
<1>8. ~again => \A a \in known : (\A m \in a.files : m \in Arg.body)
  BY <1>5, <1>6 DEF ExactAcks
<1>9. Arg.id.of = "batch" => known = {}
  BY <1>6 DEF ExactAcks
<1>. HIDE DEF e, again
<1>10. Fit(Now)'
  BY <1>1 DEF Lone, Fit, Now, ExactAcks
<1>11. ASSUME NEW m \in Msgs PROVE Copies(m)' <= Copies(m)
  <2>1. Numbers(m) /\ Numbers(m)'
    BY CopiesType, CopiesTypeNext DEF Inv
  <2>2. Tally(events', RefusedWith(m)) + One(m \in Arg.body) <= Tally(events, RefusedWith(m))
    <3>1. Head(events) \in RefusedWith(m) <=> m \in Arg.body
      BY <1>2, <1>3 DEF RefusedWith
    <3>2. Tally(Tail(events), RefusedWith(m)) + One(Head(events) \in RefusedWith(m)) <= Tally(events, RefusedWith(m))
      BY <1>2, <1>3, TallyFacts
    <3>. QED
      BY <1>2, <3>1, <3>2 DEF One
  <2>3. /\ Tally(pending, With(m)) \in Nat /\ Tally(failed, FailedWith(m)) \in Nat
        /\ Tally(wire, With(m)) \in Nat /\ Open(box, acks, m) \in 0 .. 1 /\ Open(box', acks', m) \in 0 .. 1
        /\ Tally(shimq, With(m)) \in Nat /\ Tally(events, RefusedWith(m)) \in Nat
        /\ Tally(events', RefusedWith(m)) \in Nat /\ given[m] \in 0 .. 2
        /\ One(m \in Arg.body) \in 0 .. 1
    BY <2>1 DEF Numbers, One
  <2>4. /\ Copies(m) = Tally(pending, With(m)) + Tally(failed, FailedWith(m)) + Tally(wire, With(m))
                         + Open(box, acks, m) + Tally(shimq, With(m)) + Tally(events, RefusedWith(m)) + given[m]
        /\ Copies(m)' = Tally(pending, With(m)) + Tally(failed', FailedWith(m)) + Tally(wire, With(m))
                         + Open(box', acks', m) + Tally(shimq, With(m)) + Tally(events', RefusedWith(m)) + given[m]
    BY <1>1, <2>1 DEF Copies, Numbers
  <2>5. Tally(failed', FailedWith(m)) + Open(box', acks', m)
          <= Tally(failed, FailedWith(m)) + Open(box, acks, m) + One(m \in Arg.body)
    <3>1. CASE again
      <4>1. (\A a \in acks' : m \notin a.files) <=> (\A a \in acks : m \notin a.files)
        BY <1>1, <1>7, <3>1
      <4>2. Open(box', acks', m) = Open(box, acks, m)
        BY <1>1, <4>1 DEF Open, One
      <4>3. e \in FailedWith(m) <=> m \in Arg.body
        BY <1>4 DEF FailedWith
      <4>4. Tally(failed', FailedWith(m)) = Tally(failed, FailedWith(m)) + One(e \in FailedWith(m))
        BY <1>1, <1>4, <3>1, TallyFacts
      <4>5. One(e \in FailedWith(m)) = One(m \in Arg.body)
        BY <4>3 DEF One
      <4>. QED
        BY <2>3, <4>2, <4>4, <4>5
    <3>2. CASE ~again
      <4>1. failed' = failed
        BY <1>1, <3>2
      <4>2. CASE m \in Arg.body
        <5>1. One(m \in Arg.body) = 1
          BY <4>2 DEF One
        <5>. QED
          BY <2>3, <4>1, <5>1
      <4>3. CASE m \notin Arg.body
        <5>1. (\A a \in acks' : m \notin a.files) => (\A a \in acks : m \notin a.files)
          BY <1>1, <1>8, <3>2, <4>3
        <5>2. Open(box', acks', m) <= Open(box, acks, m)
          BY <1>1, <5>1 DEF Open, One
        <5>. QED
          BY <2>3, <4>1, <5>2
      <4>. QED
        BY <4>2, <4>3
    <3>. QED
      BY <3>1, <3>2
  <2>6. Tally(failed', FailedWith(m)) \in Nat
    BY <2>1 DEF Numbers
  <2>. QED
    BY <2>2, <2>3, <2>4, <2>5, <2>6
<1>. QED
  BY <1>1, <1>10, <1>11, StepLone

\* Steps that touch no message.
LEMMA QuietLone ==
    ASSUME Inv, Inv', Lone, ~Supervisor,
           \/ OnCompletion \/ PollDone \/ NotStuck \/ SkipInbox \/ SweepTiers
           \/ \E m \in Msgs : BecomesStale(m)
           \/ UNCHANGED vars
    PROVE  Lone'
<1>1. /\ UNCHANGED <<pending, failed, acks, wire, shimq, given, faults>>
      /\ events' = events \/ (events # <<>> /\ events' = Tail(events))
      /\ \/ box' = box /\ fate' = fate
         \/ \E m \in Msgs : /\ box[m] = "tierNew" /\ box' = [box EXCEPT ![m] = "tierCur"]
                            /\ fate' = [fate EXCEPT ![m] = "expired"]
  BY DEF OnCompletion, Poll, PollDone, NotStuck, SkipInbox, SweepTiers, BecomesStale, vars, memory, channel, count
<1>2. Fit(Now)'
  BY <1>1 DEF Lone, Fit, Now
<1>3. box \in [Msgs -> Boxes] /\ fate \in [Msgs -> Fates] /\ faults \in Nat
  BY CopiesType DEF Inv, Typed, TypeOK
<1>4. ASSUME NEW m \in Msgs
      PROVE  /\ Open(box', acks', m) <= Open(box, acks, m)
             /\ fate[m] # "unsent" => fate'[m] # "unsent"
  <2>1. box'[m] = box[m] \/ (box[m] # "new" /\ box'[m] # "new")
    BY <1>1, <1>3
  <2>2. Open(box', acks', m) = Open(box, acks, m) /\ Open(box, acks, m) \in 0 .. 1
    BY <1>1, <2>1 DEF Open, One
  <2>. QED
    BY <1>1, <1>3, <2>2
<1>5. \A m \in Msgs : Dwindles(m)
  BY <1>1, <1>4, SameTally, FewerReports DEF Dwindles, Inv
<1>. QED
  BY <1>1, <1>2, <1>3, <1>4, <1>5, DwindlesLone

\* The context is exhausted: the shim is told to shut down.
LEMMA OnContextExhaustedLone ==
    ASSUME Inv, Inv', Lone, ~Supervisor, OnContextExhausted PROVE Lone'
<1>1. /\ UNCHANGED <<pending, failed, acks, box, fate, shimq, given, faults>>
      /\ wire' = Append(wire, NoFrame) /\ events # <<>> /\ events' = Tail(events)
  BY DEF OnContextExhausted, Poll
<1>2. Fit(Now)'
  BY <1>1 DEF Lone, Fit, Now
<1>3. wire \in Seq(Frame \cup {NoFrame}) /\ faults \in Nat
  BY CopiesType DEF Inv, Typed, TypeOK
<1>4. ASSUME NEW m \in Msgs PROVE Tally(wire', With(m)) <= Tally(wire, With(m))
  <2>1. One(NoFrame \in With(m)) = 0
    BY FrameFacts DEF With, One
  <2>2. Tally(Append(wire, NoFrame), With(m)) = Tally(wire, With(m)) + One(NoFrame \in With(m))
    BY <1>3, TallyFacts
  <2>3. Tally(wire, With(m)) \in Nat
    BY <1>3, TallyFacts
  <2>. QED
    BY <1>1, <2>1, <2>2, <2>3
<1>5. \A m \in Msgs : Dwindles(m)
  BY <1>1, <1>4, SameTally, FewerReports DEF Dwindles, Inv
<1>. QED
  BY <1>1, <1>2, <1>3, <1>5, DwindlesLone

\* A new shim, or a new daemon: what was in the sockets is gone.
LEMMA RestartsLone ==
    ASSUME Inv, Inv', Lone, ~Supervisor, OnDied \/ ColdRespawn \/ DaemonRestart PROVE Lone'
<1>1. CASE OnDied \/ ColdRespawn
  <2>1. /\ UNCHANGED <<pending, failed, acks, box, fate, given>>
        /\ wire' \in {wire, <<>>} /\ shimq' \in {shimq, <<>>} /\ faults' \in {faults, faults + 1}
        /\ events' = <<>> \/ (events # <<>> /\ events' = Tail(events))
    BY <1>1 DEF OnDied, ColdRespawn, Respawn, Fault
  <2>2. Fit(Now)'
    BY <2>1 DEF Lone, Fit, Now
  <2>3. \A m \in Msgs : Tally(events', RefusedWith(m)) <= Tally(events, RefusedWith(m))
    BY <2>1, SameTally, FewerReports DEF Inv
  <2>4. \A m \in Msgs : Dwindles(m)
    BY <2>1, <2>3, SameTally DEF Dwindles, Inv
  <2>. QED
    BY <2>1, <2>2, <2>4, DwindlesLone
<1>2. CASE DaemonRestart
  <2>1. /\ pending' = <<>> /\ acks' = {} /\ given' = given /\ fate' = fate /\ faults' = faults + 1
    BY <1>2 DEF DaemonRestart, Fault
  <2>2. Fit(Now)'
    BY <2>1 DEF Fit, Now, ExactAcks, OwnQueue, Queued
  <2>3. faults' # 0
    BY <2>1, CopiesType DEF Inv
  <2>. QED
    BY <2>1, <2>2, <2>3, DwindlesLone
<1>. QED
  BY <1>1, <1>2

\* A message that is put into the inbox: the first copy.
LEMMA InboxMessageLone ==
    ASSUME Inv, Inv', Lone, ~Supervisor, NEW x \in Msgs, InboxMessage(x) PROVE Lone'
<1>1. /\ UNCHANGED <<pending, failed, acks, wire, shimq, events, given, faults>>
      /\ fate[x] = "unsent" /\ fate' = [fate EXCEPT ![x] = "none"]
      /\ \E b : box' = [box EXCEPT ![x] = b]
  BY DEF InboxMessage, memory, channel, count
<1>2. Fit(Now)'
  BY <1>1 DEF Lone, Fit, Now
<1>3. box \in [Msgs -> Boxes] /\ fate \in [Msgs -> Fates] /\ faults \in Nat
  BY CopiesType DEF Inv, Typed, TypeOK
<1>4. ASSUME NEW m \in Msgs
      PROVE  Copies(m)' <= Copies(m) \/ (fate[m] = "unsent" /\ Copies(m)' <= 1)
  <2>1. Numbers(m) /\ Numbers(m)'
    BY CopiesType, CopiesTypeNext DEF Inv
  <2>2. /\ Tally(pending, With(m)) \in Nat /\ Tally(failed, FailedWith(m)) \in Nat
        /\ Tally(wire, With(m)) \in Nat /\ Open(box, acks, m) \in 0 .. 1 /\ Open(box', acks', m) \in 0 .. 1
        /\ Tally(shimq, With(m)) \in Nat /\ Tally(events, RefusedWith(m)) \in Nat /\ given[m] \in 0 .. 2
        /\ Copies(m) = Tally(pending, With(m)) + Tally(failed, FailedWith(m)) + Tally(wire, With(m))
                         + Open(box, acks, m) + Tally(shimq, With(m)) + Tally(events, RefusedWith(m)) + given[m]
        /\ Copies(m)' = Tally(pending, With(m)) + Tally(failed, FailedWith(m)) + Tally(wire, With(m))
                         + Open(box', acks', m) + Tally(shimq, With(m)) + Tally(events, RefusedWith(m)) + given[m]
    BY <1>1, <2>1 DEF Copies, Numbers
  <2>3. CASE m = x
    <3>1. Copies(m) = 0 /\ fate[m] = "unsent"
      BY <1>1, <2>3, UnsentNone DEF Lone
    <3>2. Copies(m)' <= Copies(m) + 1
      BY <2>2
    <3>. QED
      BY <3>1, <3>2
  <2>4. CASE m # x
    <3>1. box'[m] = box[m]
      BY <1>1, <1>3, <2>4
    <3>2. Open(box', acks', m) = Open(box, acks, m)
      BY <1>1, <3>1 DEF Open
    <3>. QED
      BY <2>2, <3>2
  <2>. QED
    BY <2>3, <2>4
<1>5. \A m \in Msgs : fate[m] # "unsent" => fate'[m] # "unsent"
  BY <1>1, <1>3
<1>. QED
  BY <1>1, <1>2, <1>3, <1>4, <1>5, StepLone

\* The shim's events are no reports of failed writes.
LEMMA EmitTally ==
    ASSUME Typed, NEW s \in Seq(Notices), Emit(s), \A e \in Queued(s) : e.op # "DeliveryFailed"
    PROVE  \A m : Tally(events', RefusedWith(m)) = Tally(events, RefusedWith(m))
<1>1. events \in Seq(Notices) /\ events' = events \o s
  BY DEF Typed, Emit
<1>2. \A m : Queued(s) \cap RefusedWith(m) = {}
  BY DEF RefusedWith
<1>. QED
  BY <1>1, <1>2, TallyJoin

\* What the shim moves, it takes from where it was.
LEMMA MovesLone ==
    ASSUME Inv, Inv', Lone, ~Supervisor, UNCHANGED <<pending, failed, acks, box, fate, faults>>,
           \A m \in Msgs : given'[m] = given[m] \/ fate[m] # "unsent",
           \A m \in Msgs :
             Tally(wire', With(m)) + Tally(shimq', With(m)) + Tally(events', RefusedWith(m)) + given'[m]
               <= Tally(wire, With(m)) + Tally(shimq, With(m)) + Tally(events, RefusedWith(m)) + given[m]
    PROVE  Lone'
<1>1. Fit(Now)'
  BY DEF Lone, Fit, Now
<1>2. faults' \in {faults, faults + 1}
  OBVIOUS
<1>3. ASSUME NEW m \in Msgs PROVE Copies(m)' <= Copies(m)
  <2>1. Numbers(m) /\ Numbers(m)'
    BY CopiesType, CopiesTypeNext DEF Inv
  <2>2. /\ Tally(pending, With(m)) \in Nat /\ Tally(failed, FailedWith(m)) \in Nat
        /\ Open(box, acks, m) \in 0 .. 1
        /\ Tally(wire, With(m)) \in Nat /\ Tally(wire', With(m)) \in Nat
        /\ Tally(shimq, With(m)) \in Nat /\ Tally(shimq', With(m)) \in Nat
        /\ Tally(events, RefusedWith(m)) \in Nat /\ Tally(events', RefusedWith(m)) \in Nat
        /\ given[m] \in 0 .. 2 /\ given'[m] \in 0 .. 2
        /\ Copies(m) = Tally(pending, With(m)) + Tally(failed, FailedWith(m)) + Tally(wire, With(m))
                         + Open(box, acks, m) + Tally(shimq, With(m)) + Tally(events, RefusedWith(m)) + given[m]
        /\ Copies(m)' = Tally(pending, With(m)) + Tally(failed, FailedWith(m)) + Tally(wire', With(m))
                         + Open(box, acks, m) + Tally(shimq', With(m)) + Tally(events', RefusedWith(m)) + given'[m]
    BY <2>1 DEF Copies, Numbers
  <2>. QED
    BY <2>2
<1>. QED
  BY <1>1, <1>2, <1>3, StepLone

\* A frame at the head of a queue.
LEMMA HeadTally ==
    ASSUME NEW F, NEW q \in Seq(F), q # <<>>, NEW X
    PROVE  /\ Head(q) \in F /\ Tail(q) \in Seq(F) /\ Head(q) \in Queued(q)
           /\ Tally(q, X) \in Nat /\ Tally(Tail(q), X) \in Nat /\ One(Head(q) \in X) \in 0 .. 1
           /\ Tally(Tail(q), X) + One(Head(q) \in X) <= Tally(q, X)
<1>1. Head(q) \in F /\ Tail(q) \in Seq(F)
  OBVIOUS
<1>2. Head(q) \in Queued(q)
  BY QueuedFacts
<1>3. Tally(q, X) \in Nat /\ Tally(Tail(q), X) \in Nat
  BY <1>1, TallyFacts
<1>4. Tally(Tail(q), X) + One(Head(q) \in X) <= Tally(q, X)
  BY TallyFacts
<1>5. One(Head(q) \in X) \in 0 .. 1
  BY DEF One
<1>. QED
  BY <1>1, <1>2, <1>3, <1>4, <1>5

\* Giving a frame counts once for the messages it carries.
LEMMA GiveOnce ==
    ASSUME Inv, NEW f \in Frame \cap InUse, Give(f)
    PROVE  \A m \in Msgs : /\ given[m] \in 0 .. 2 /\ given'[m] \in 0 .. 2
                           /\ given'[m] <= given[m] + One(f \in With(m))
                           /\ given'[m] = given[m] \/ fate[m] # "unsent"
<1>. SUFFICES ASSUME NEW m \in Msgs
              PROVE  /\ given[m] \in 0 .. 2 /\ given'[m] \in 0 .. 2
                     /\ given'[m] <= given[m] + One(f \in With(m))
                     /\ given'[m] = given[m] \/ fate[m] # "unsent"
  OBVIOUS
<1>1. given[m] \in 0 .. 2
  BY DEF Inv, Typed, TypeOK
<1>2. given'[m] = IF m \in f.body /\ given[m] < 2 THEN given[m] + 1 ELSE given[m]
  BY DEF Give
<1>3. m \in f.body <=> f \in With(m)
  BY DEF With
<1>4. m \in f.body => fate[m] # "unsent"
  BY DEF Inv, Tracked, Sent
<1>5. CASE m \in f.body
  <2>1. One(f \in With(m)) = 1
    BY <1>3, <1>5 DEF One
  <2>. QED
    BY <1>1, <1>2, <1>4, <2>1
<1>6. CASE m \notin f.body
  <2>1. One(f \in With(m)) = 0
    BY <1>3, <1>6 DEF One
  <2>. QED
    BY <1>1, <1>2, <1>6, <2>1
<1>. QED
  BY <1>5, <1>6

\* A write to the agent, right away or at the end of a turn.
LEMMA ShimGivesLone ==
    ASSUME Inv, Inv', Lone, ~Supervisor, ShimWrites \/ ShimTurnEnds PROVE Lone'
<1>. USE DEF ShimStep, memory
<1>0. /\ wire \in Seq(Frame \cup {NoFrame}) /\ shimq \in Seq(Frame)
      /\ Queued(wire) \cup Queued(shimq) \subseteq InUse
  BY DEF Inv, Typed, TypeOK, InUse
<1>1. CASE ShimWrites
  <2>. DEFINE f == Head(wire)
              s == <<Event("MessageDelivered", f.id), Event("StateChanged", "Working")>>
  <2>1. /\ wire # <<>> /\ f # NoFrame /\ wire' = Tail(wire) /\ Give(f) /\ Emit(s)
        /\ UNCHANGED <<pending, failed, acks, box, fate, faults, shimq>>
    BY <1>1 DEF ShimWrites
  <2>2. f \in Frame \cap InUse
    BY <1>0, <2>1, HeadTally
  <2>3. \A m : Tally(events', RefusedWith(m)) = Tally(events, RefusedWith(m))
    <3>1. Event("MessageDelivered", f.id) \in Notices /\ Event("StateChanged", "Working") \in Notices
      BY <2>2, FrameTypes, NoticeTypes DEF Handles
    <3>2. s \in Seq(Notices) /\ \A e \in Queued(s) : e.op # "DeliveryFailed"
      BY <3>1, QueuedSmall DEF Event
    <3>. HIDE DEF s
    <3>. QED
      BY <2>1, <3>2, EmitTally DEF Inv
  <2>. HIDE DEF f, s
  <2>4. ASSUME NEW m \in Msgs
        PROVE  Tally(wire', With(m)) + Tally(shimq', With(m)) + Tally(events', RefusedWith(m)) + given'[m]
                 <= Tally(wire, With(m)) + Tally(shimq, With(m)) + Tally(events, RefusedWith(m)) + given[m]
    <3>1. /\ Tally(wire, With(m)) \in Nat /\ Tally(wire', With(m)) \in Nat /\ One(f \in With(m)) \in 0 .. 1
          /\ Tally(wire', With(m)) + One(f \in With(m)) <= Tally(wire, With(m))
      BY <1>0, <2>1, HeadTally DEF f
    <3>2. given[m] \in 0 .. 2 /\ given'[m] \in 0 .. 2 /\ given'[m] <= given[m] + One(f \in With(m))
      BY <2>1, <2>2, GiveOnce
    <3>3. Numbers(m)
      BY CopiesType DEF Inv
    <3>4. Tally(shimq, With(m)) \in Nat /\ Tally(events, RefusedWith(m)) \in Nat
      BY <3>3 DEF Numbers
    <3>5. Tally(shimq', With(m)) = Tally(shimq, With(m)) /\ Tally(events', RefusedWith(m)) = Tally(events, RefusedWith(m))
      BY <2>1, <2>3
    <3>. QED
      BY <3>1, <3>2, <3>4, <3>5
  <2>5. \A m \in Msgs : given'[m] = given[m] \/ fate[m] # "unsent"
    BY <2>1, <2>2, GiveOnce
  <2>. QED
    BY <2>1, <2>4, <2>5, MovesLone
<1>2. CASE ShimTurnEnds /\ shimq = <<>>
  <2>. DEFINE s == <<Event("StateChanged", "Idle"), Event("Completion", None)>>
  <2>1. Emit(s) /\ UNCHANGED <<pending, failed, acks, box, fate, faults, wire, shimq, given>>
    BY <1>2 DEF ShimTurnEnds
  <2>2. \A m : Tally(events', RefusedWith(m)) = Tally(events, RefusedWith(m))
    <3>1. Event("StateChanged", "Idle") \in Notices /\ Event("Completion", None) \in Notices
      BY NoticeTypes DEF Handles
    <3>2. s \in Seq(Notices) /\ \A e \in Queued(s) : e.op # "DeliveryFailed"
      BY <3>1, QueuedSmall DEF Event
    <3>. HIDE DEF s
    <3>. QED
      BY <2>1, <3>2, EmitTally DEF Inv
  <2>3. ASSUME NEW m \in Msgs
        PROVE  Tally(wire', With(m)) + Tally(shimq', With(m)) + Tally(events', RefusedWith(m)) + given'[m]
                 <= Tally(wire, With(m)) + Tally(shimq, With(m)) + Tally(events, RefusedWith(m)) + given[m]
    <3>1. Numbers(m)
      BY CopiesType DEF Inv
    <3>2. /\ Tally(wire, With(m)) \in Nat /\ Tally(shimq, With(m)) \in Nat
          /\ Tally(events, RefusedWith(m)) \in Nat /\ given[m] \in 0 .. 2
      BY <3>1 DEF Numbers
    <3>. QED
      BY <2>1, <2>2, <3>2
  <2>. QED
    BY <2>1, <2>3, MovesLone
<1>3. CASE ShimTurnEnds /\ shimq # <<>>
  <2>. DEFINE f == Head(shimq)
              s == <<Event("StateChanged", "Idle"), Event("Completion", None), Event("StateChanged", "Working")>>
  <2>1. /\ shimq' = Tail(shimq) /\ Give(f) /\ Emit(s)
        /\ UNCHANGED <<pending, failed, acks, box, fate, faults, wire>>
    BY <1>3 DEF ShimTurnEnds
  <2>2. f \in Frame \cap InUse
    BY <1>0, <1>3, HeadTally
  <2>3. \A m : Tally(events', RefusedWith(m)) = Tally(events, RefusedWith(m))
    <3>1. /\ Event("StateChanged", "Idle") \in Notices /\ Event("Completion", None) \in Notices
          /\ Event("StateChanged", "Working") \in Notices
      BY NoticeTypes DEF Handles
    <3>2. s \in Seq(Notices) /\ \A e \in Queued(s) : e.op # "DeliveryFailed"
      BY <3>1, QueuedSmall DEF Event
    <3>. HIDE DEF s
    <3>. QED
      BY <2>1, <3>2, EmitTally DEF Inv
  <2>. HIDE DEF f, s
  <2>4. ASSUME NEW m \in Msgs
        PROVE  Tally(wire', With(m)) + Tally(shimq', With(m)) + Tally(events', RefusedWith(m)) + given'[m]
                 <= Tally(wire, With(m)) + Tally(shimq, With(m)) + Tally(events, RefusedWith(m)) + given[m]
    <3>1. /\ Tally(shimq, With(m)) \in Nat /\ Tally(shimq', With(m)) \in Nat /\ One(f \in With(m)) \in 0 .. 1
          /\ Tally(shimq', With(m)) + One(f \in With(m)) <= Tally(shimq, With(m))
      BY <1>0, <1>3, <2>1, HeadTally DEF f
    <3>2. given[m] \in 0 .. 2 /\ given'[m] \in 0 .. 2 /\ given'[m] <= given[m] + One(f \in With(m))
      BY <2>1, <2>2, GiveOnce
    <3>3. Numbers(m)
      BY CopiesType DEF Inv
    <3>4. Tally(wire, With(m)) \in Nat /\ Tally(events, RefusedWith(m)) \in Nat
      BY <3>3 DEF Numbers
    <3>5. Tally(wire', With(m)) = Tally(wire, With(m)) /\ Tally(events', RefusedWith(m)) = Tally(events, RefusedWith(m))
      BY <2>1, <2>3
    <3>. QED
      BY <3>1, <3>2, <3>4, <3>5
  <2>5. \A m \in Msgs : given'[m] = given[m] \/ fate[m] # "unsent"
    BY <2>1, <2>2, GiveOnce
  <2>. QED
    BY <2>1, <2>4, <2>5, MovesLone
<1>. QED
  BY <1>1, <1>2, <1>3

\* A write that fails sends the frame back; a busy shim queues it.
LEMMA ShimKeepsLone ==
    ASSUME Inv, Inv', Lone, ~Supervisor, ShimWriteFails \/ ShimQueues PROVE Lone'
<1>. USE DEF ShimStep, memory
<1>. DEFINE f == Head(wire)
<1>0. /\ wire \in Seq(Frame \cup {NoFrame}) /\ shimq \in Seq(Frame) /\ events \in Seq(Notices)
      /\ wire # <<>> /\ f # NoFrame /\ wire' = Tail(wire)
      /\ UNCHANGED <<pending, failed, acks, box, fate, faults, given>>
  BY DEF Inv, Typed, TypeOK, ShimWriteFails, ShimQueues
<1>1. f \in Frame
  BY <1>0, HeadTally
<1>2. \A m \in Msgs : /\ Tally(wire, With(m)) \in Nat /\ Tally(wire', With(m)) \in Nat /\ One(f \in With(m)) \in 0 .. 1
                      /\ Tally(wire', With(m)) + One(f \in With(m)) <= Tally(wire, With(m))
  BY <1>0, HeadTally
<1>3. \A m \in Msgs : /\ Tally(shimq, With(m)) \in Nat /\ Tally(events, RefusedWith(m)) \in Nat
                      /\ given[m] \in 0 .. 2
  BY CopiesType DEF Inv, Numbers
<1>. DEFINE e == Event("DeliveryFailed", f)
<1>4. CASE ShimWriteFails
  <2>1. events' = events \o <<e>> /\ shimq' = shimq
    BY <1>4 DEF ShimWriteFails, Emit
  <2>2. e \in Notices /\ \A m : e \in RefusedWith(m) <=> f \in With(m)
    <3>1. e \in Notices /\ e.op = "DeliveryFailed" /\ e.arg = f
      BY <1>1, NoticeTypes DEF Event
    <3>. QED
      BY <1>1, <3>1 DEF RefusedWith, With
  <2>. HIDE DEF e, f
  <2>3. events' = Append(events, e)
    BY <1>0, <2>1, <2>2
  <2>4. ASSUME NEW m \in Msgs
        PROVE  Tally(wire', With(m)) + Tally(shimq', With(m)) + Tally(events', RefusedWith(m)) + given'[m]
                 <= Tally(wire, With(m)) + Tally(shimq, With(m)) + Tally(events, RefusedWith(m)) + given[m]
    <3>1. Tally(events', RefusedWith(m)) = Tally(events, RefusedWith(m)) + One(e \in RefusedWith(m))
      BY <1>0, <2>2, <2>3, TallyFacts
    <3>2. One(e \in RefusedWith(m)) = One(f \in With(m))
      BY <2>2 DEF One
    <3>3. Tally(shimq', With(m)) = Tally(shimq, With(m)) /\ given'[m] = given[m]
      BY <1>0, <2>1
    <3>. QED
      BY <1>2, <1>3, <3>1, <3>2, <3>3
  <2>. QED
    BY <1>0, <2>4, MovesLone
<1>5. CASE ShimQueues
  <2>1. shimq' = Append(shimq, f) /\ events' = events
    BY <1>5 DEF ShimQueues
  <2>. HIDE DEF f
  <2>2. ASSUME NEW m \in Msgs
        PROVE  Tally(wire', With(m)) + Tally(shimq', With(m)) + Tally(events', RefusedWith(m)) + given'[m]
                 <= Tally(wire, With(m)) + Tally(shimq, With(m)) + Tally(events, RefusedWith(m)) + given[m]
    <3>1. Tally(shimq', With(m)) = Tally(shimq, With(m)) + One(f \in With(m))
      BY <1>0, <1>1, <2>1, TallyFacts
    <3>2. Tally(events', RefusedWith(m)) = Tally(events, RefusedWith(m)) /\ given'[m] = given[m]
      BY <1>0, <2>1
    <3>. QED
      BY <1>2, <1>3, <3>1, <3>2
  <2>. QED
    BY <1>0, <2>2, MovesLone
<1>. QED
  BY <1>4, <1>5

\* A shim that starts, discards a frame, dies or ends.
LEMMA ShimEndsLone ==
    ASSUME Inv, Inv', Lone, ~Supervisor,
           ShimReady \/ ShimDiscards \/ AgentDies \/ ContextFull \/ ShimShutdown \/ ShimKilled
    PROVE  Lone'
<1>. USE DEF ShimStep, memory
<1>1. /\ UNCHANGED <<pending, failed, acks, box, fate, given>>
      /\ shimq' \in {shimq, <<>>}
      /\ wire' \in {wire, <<>>} \/ (wire # <<>> /\ wire' = Tail(wire))
      /\ faults' \in {faults, faults + 1}
  BY DEF ShimReady, ShimDiscards, AgentDies, ContextFull, ShimShutdown, ShimKilled, Fault
<1>2. \/ events' = events
      \/ Emit(<<>>)
      \/ Emit(<<Event("Ready", None)>>)
      \/ Emit(<<Event("StateChanged", "Dead"), Event("Died", None)>>)
      \/ Emit(<<Event("StateChanged", "ContextExhausted"), Event("ContextExhausted", None)>>)
  BY DEF ShimReady, ShimDiscards, AgentDies, ContextFull, ShimShutdown, ShimKilled
<1>3. \A m \in Msgs : Tally(events', RefusedWith(m)) <= Tally(events, RefusedWith(m))
  <2>1. \A m \in Msgs : Tally(events, RefusedWith(m)) \in Nat
    BY CopiesType DEF Inv, Numbers
  <2>2. ASSUME NEW s \in Seq(Notices), Emit(s), \A e \in Queued(s) : e.op # "DeliveryFailed"
        PROVE  \A m \in Msgs : Tally(events', RefusedWith(m)) <= Tally(events, RefusedWith(m))
    BY <2>1, <2>2, EmitTally DEF Inv
  <2>3. /\ Event("Ready", None) \in Notices /\ Event("Died", None) \in Notices
        /\ Event("ContextExhausted", None) \in Notices /\ Event("StateChanged", "Dead") \in Notices
        /\ Event("StateChanged", "ContextExhausted") \in Notices
    BY NoticeTypes DEF Handles, Terminal
  <2>4. CASE events' = events
    BY <2>1, <2>4
  <2>5. CASE Emit(<<>>)
    <3>1. <<>> \in Seq(Notices) /\ \A e \in Queued(<<>>) : e.op # "DeliveryFailed"
      BY QueuedSmall
    <3>. QED
      BY <2>2, <2>5, <3>1
  <2>6. CASE Emit(<<Event("Ready", None)>>)
    <3>. DEFINE s == <<Event("Ready", None)>>
    <3>1. s \in Seq(Notices) /\ \A e \in Queued(s) : e.op # "DeliveryFailed"
      BY <2>3, QueuedSmall DEF Event
    <3>. HIDE DEF s
    <3>2. Emit(s)
      BY <2>6 DEF s
    <3>. QED
      BY <2>2, <3>1, <3>2
  <2>7. CASE Emit(<<Event("StateChanged", "Dead"), Event("Died", None)>>)
    <3>. DEFINE s == <<Event("StateChanged", "Dead"), Event("Died", None)>>
    <3>1. s \in Seq(Notices) /\ \A e \in Queued(s) : e.op # "DeliveryFailed"
      BY <2>3, QueuedSmall DEF Event
    <3>. HIDE DEF s
    <3>2. Emit(s)
      BY <2>7 DEF s
    <3>. QED
      BY <2>2, <3>1, <3>2
  <2>8. CASE Emit(<<Event("StateChanged", "ContextExhausted"), Event("ContextExhausted", None)>>)
    <3>. DEFINE s == <<Event("StateChanged", "ContextExhausted"), Event("ContextExhausted", None)>>
    <3>1. s \in Seq(Notices) /\ \A e \in Queued(s) : e.op # "DeliveryFailed"
      BY <2>3, QueuedSmall DEF Event
    <3>. HIDE DEF s
    <3>2. Emit(s)
      BY <2>8 DEF s
    <3>. QED
      BY <2>2, <3>1, <3>2
  <2>. QED
    BY <1>2, <2>4, <2>5, <2>6, <2>7, <2>8
<1>4. Fit(Now)'
  BY <1>1 DEF Lone, Fit, Now
<1>5. \A m \in Msgs : Dwindles(m)
  BY <1>1, <1>3, SameTally DEF Dwindles, Inv
<1>. QED
  BY <1>1, <1>4, <1>5, DwindlesLone

\* Nothing has been sent at the start.
LEMMA InitLone == Init => Lone
<1>. SUFFICES ASSUME Init PROVE Lone
  OBVIOUS
<1>1. Inv
  BY InitInv
<1>2. Fresh
  BY DEF Init, Fresh
<1>3. Fit(Now)
  BY DEF Init, Fit, Now, ExactAcks, OwnQueue, Queued
<1>4. \A m \in Msgs : Copies(m) = 0
  BY <1>1, <1>2, UnsentNone DEF Init
<1>. QED
  BY <1>2, <1>3, <1>4 DEF Lone

\* No step makes a second copy.
LEMMA NextLone == Inv /\ Lone /\ [Next]_vars => Lone'
<1>. SUFFICES ASSUME Inv, Lone, [Next]_vars PROVE Lone'
  OBVIOUS
<1>1. Inv'
  BY NextInv
<1>2. CASE Supervisor
  <2>1. kind' = kind
    BY DEF Next, Tick, Handler, Shim, OnReady, OnStateChanged, OnMessageDelivered, OnCompletion, OnDeliveryFailed,
           OnContextExhausted, Poll, OnDied, PollDone, ColdRespawn, ForceIdle, NotStuck, DeliverInbox, SkipInbox,
           RetryFailed, Retry, ExpirePending, Expire, SweepTiers, DaemonMessage, InboxMessage, BecomesStale,
           DaemonRestart, ShimReady, ShimWrites, ShimWriteFails, ShimQueues, ShimDiscards, ShimTurnEnds, AgentDies,
           ContextFull, ShimShutdown, ShimKilled, ShimStep, vars
  <2>. QED
    BY <1>2, <2>1 DEF Lone, Supervisor
<1>3. CASE ~Supervisor
  <2>1. CASE OnReady \/ OnStateChanged \/ ForceIdle
    BY <1>1, <1>3, <2>1, DrainsLone
  <2>2. CASE OnMessageDelivered \/ OnDeliveryFailed \/ OnContextExhausted
    BY <1>1, <1>3, <2>2, OnMessageDeliveredLone, OnDeliveryFailedLone, OnContextExhaustedLone
  <2>3. CASE OnDied \/ ColdRespawn \/ DaemonRestart
    BY <1>1, <1>3, <2>3, RestartsLone
  <2>4. CASE \/ OnCompletion \/ PollDone \/ NotStuck \/ SkipInbox \/ SweepTiers
             \/ \E m \in Msgs : BecomesStale(m)
             \/ UNCHANGED vars
    BY <1>1, <1>3, <2>4, QuietLone
  <2>5. CASE DeliverInbox
    BY <1>1, <1>3, <2>5, DeliverInboxLone
  <2>6. CASE RetryFailed \/ ExpirePending
    BY <1>1, <1>3, <2>6, RetryLone, ExpireLone DEF RetryFailed, ExpirePending
  <2>7. CASE \E m \in Msgs : DaemonMessage(m) \/ InboxMessage(m)
    BY <1>1, <1>3, <2>7, DaemonMessageLone, InboxMessageLone
  <2>8. CASE Shim
    BY <1>1, <1>3, <2>8, ShimGivesLone, ShimKeepsLone, ShimEndsLone DEF Shim
  <2>. QED
    BY <2>1, <2>2, <2>3, <2>4, <2>5, <2>6, <2>7, <2>8 DEF Next, Tick, Handler
<1>. QED
  BY <1>2, <1>3

\* An engineer is given a message at most once unless something fails: there is one
\* copy of it, in the queue, in the list of failed deliveries, in the socket, in the
\* shim, in its report of a failed write or in the inbox, and a copy that is given is
\* gone from there.
THEOREM DeliveryGivesOnce == Spec => []GivenOnce
<1>1. Init => Inv /\ Lone
  BY InitInv, InitLone
<1>2. Inv /\ Lone /\ [Next]_vars => (Inv /\ Lone)'
  BY NextInv, NextLone
<1>3. Inv /\ Lone => GivenOnce
  <2>. SUFFICES ASSUME Inv, Lone, ~Supervisor, faults = 0, NEW m \in Msgs PROVE given[m] <= 1
    BY DEF GivenOnce
  <2>1. Numbers(m) /\ Copies(m) <= 1
    BY CopiesType DEF Inv, Lone
  <2>2. /\ Held(Now, m) \in Nat /\ Tally(shimq, With(m)) \in Nat
        /\ Tally(events, RefusedWith(m)) \in Nat /\ given[m] \in 0 .. 2
    BY <2>1 DEF Numbers
  <2>. QED
    BY <2>1, <2>2 DEF Copies
<1>. QED
  BY <1>1, <1>2, <1>3, PTL DEF Spec
=============================================================================
