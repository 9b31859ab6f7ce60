------------------------ MODULE WatchdogBreakerProofs ------------------------
(***************************************************************************)
(* The circuit breaker of Watchdog: whatever the threshold, the window and *)
(* the crashes, no watchdog launches its daemon more than Threshold times  *)
(* within a window; and the limits of the records and timers that TypeOK   *)
(* names.                                                                  *)
(***************************************************************************)
EXTENDS WatchdogProofs, FiniteSetTheorems, WellFoundedInduction, SequenceTheorems

-----------------------------------------------------------------------------
(* What a tick leaves of a list of ages. *)

\* A set of naturals that is bounded and not empty has a greatest element.
LEMMA GreatestExists ==
    ASSUME NEW n \in Nat, NEW T, T \subseteq 1 .. n, T # {}
    PROVE  Max(T) \in T /\ \A y \in T : y <= Max(T)
<1>. DEFINE D == {d \in Nat : n - d \in T}
            R == OpToRel(<, Nat)
<1>1. D \subseteq Nat /\ D # {}
  <2>1. PICK x \in T : TRUE
    OBVIOUS
  <2>2. n - x \in Nat /\ n - (n - x) = x
    OBVIOUS
  <2>. QED
    BY <2>1, <2>2
<1>2. IsWellFoundedOn(R, Nat)
  BY NatLessThanWellFounded
<1>. HIDE DEF R, D
<1>3. PICK d \in D : \A y \in D : ~ (<<y, d>> \in R)
  BY <1>1, <1>2, WFMin
<1>4. \A y \in D : ~ (y < d)
  BY <1>1, <1>3 DEF R, OpToRel
<1>5. d \in Nat /\ n - d \in T
  BY DEF D
<1>6. ASSUME NEW y \in T PROVE n - d >= y
  <2>1. y \in 1 .. n /\ n - y \in Nat /\ n - (n - y) = y
    OBVIOUS
  <2>2. n - y \in D
    BY <2>1 DEF D
  <2>. QED
    BY <1>4, <1>5, <2>1, <2>2
<1>7. \E x \in T : \A y \in T : x >= y
  BY <1>5, <1>6
<1>8. Max(T) \in T /\ \A y \in T : Max(T) >= y
  BY <1>7 DEF Max
<1>. QED
  BY <1>8

\* What is retained is what comes after the last age that is too old.
LEMMA RetainedSuffix ==
    ASSUME NEW ages \in Seq(Nat)
    PROVE  \E n \in 0 .. Len(ages) :
             /\ Retained(ages) = SubSeq(ages, n + 1, Len(ages))
             /\ n > 0 => ages[n] >= Window
             /\ \A k \in n + 1 .. Len(ages) : ages[k] < Window
<1>. DEFINE Old == {k \in 1 .. Len(ages) : ages[k] >= Window}
            n   == IF Old # {} THEN Max(Old) ELSE 0
<1>1. Retained(ages) = SubSeq(ages, n + 1, Len(ages))
  BY DEF Retained, SelectLastInSeq
<1>2. Window \in Nat
  BY WatchdogAssumption
<1>3. n \in 0 .. Len(ages) /\ (n > 0 => n \in Old) /\ \A k \in Old : k <= n
  <2>1. CASE Old = {}
    BY <2>1
  <2>2. CASE Old # {}
    <3>1. Old \subseteq 1 .. Len(ages) /\ Len(ages) \in Nat
      OBVIOUS
    <3>2. Max(Old) \in Old /\ \A k \in Old : k <= Max(Old)
      BY <2>2, <3>1, GreatestExists
    <3>. QED
      BY <2>2, <3>1, <3>2
  <2>. QED
    BY <2>1, <2>2
<1>4. \A k \in n + 1 .. Len(ages) : ages[k] < Window
  BY <1>2, <1>3, SMTT(30)
<1>. QED
  BY <1>1, <1>3, <1>4

\* One tick: the ages that stay below the window are kept, one greater.
LEMMA OlderSuffix ==
    ASSUME NEW ages \in Seq(Nat)
    PROVE  \E n \in 0 .. Len(ages) :
             /\ Older(ages) \in Seq(Nat) /\ Len(Older(ages)) = Len(ages) - n
             /\ \A k \in 1 .. Len(ages) - n : Older(ages)[k] = ages[n + k] + 1
             /\ n > 0 => ages[n] + 1 >= Window
             /\ \A k \in n + 1 .. Len(ages) : ages[k] + 1 < Window
<1>. DEFINE later == [k \in DOMAIN ages |-> ages[k] + 1]
<1>1. later \in Seq(Nat) /\ Len(later) = Len(ages) /\ \A k \in 1 .. Len(ages) : later[k] = ages[k] + 1
  OBVIOUS
<1>2. Older(ages) = Retained(later)
  BY DEF Older
<1>. HIDE DEF later
<1>3. PICK n \in 0 .. Len(later) :
        /\ Retained(later) = SubSeq(later, n + 1, Len(later))
        /\ n > 0 => later[n] >= Window
        /\ \A k \in n + 1 .. Len(later) : later[k] < Window
  BY <1>1, RetainedSuffix
<1>4. /\ SubSeq(later, n + 1, Len(later)) \in Seq(Nat)
      /\ Len(SubSeq(later, n + 1, Len(later))) = Len(ages) - n
      /\ \A k \in 1 .. Len(ages) - n : SubSeq(later, n + 1, Len(later))[k] = later[n + k]
  BY <1>1
<1>5. ASSUME NEW k \in n + 1 .. Len(ages) PROVE ages[k] + 1 < Window
  <2>1. later[k] < Window
    BY <1>1, <1>3
  <2>2. k \in 1 .. Len(ages)
    BY <1>1
  <2>. QED
    BY <1>1, <2>1, <2>2
<1>6. n > 0 => ages[n] + 1 >= Window
  BY <1>1, <1>3
<1>7. \A k \in 1 .. Len(ages) - n : later[n + k] = ages[n + k] + 1
  BY <1>1, <1>3
<1>8. Len(Older(ages)) = Len(ages) - n /\ Older(ages) \in Seq(Nat) /\ n \in 0 .. Len(ages)
  BY <1>1, <1>2, <1>3, <1>4
<1>9. \A k \in 1 .. Len(ages) - n : Older(ages)[k] = ages[n + k] + 1
  BY <1>2, <1>3, <1>4, <1>7
<1>. QED
  BY <1>5, <1>6, <1>8, <1>9


\* Counted from the last, each of the launches L, but for the last d, was followed
\* by a crash of its own in C.
Follows(C, L, d) ==
    \A k \in 0 .. Len(L) - 1 - d :
        k < Len(C) /\ C[Len(C) - k] <= L[Len(L) - d - k]

\* Time passes for the crashes as it does for the launches: a crash is dropped
\* only when the launch before it is dropped as well.
LEMMA FollowsTick ==
    ASSUME NEW C \in Seq(Nat), NEW L \in Seq(Nat), NEW d \in {0, 1}, Follows(C, L, d)
    PROVE  Follows(Older(C), Older(L), d)
<1>1. PICK n \in 0 .. Len(L) :
        /\ Older(L) \in Seq(Nat) /\ Len(Older(L)) = Len(L) - n
        /\ \A j \in 1 .. Len(L) - n : Older(L)[j] = L[n + j] + 1
        /\ \A j \in n + 1 .. Len(L) : L[j] + 1 < Window
  BY OlderSuffix
<1>2. PICK c \in 0 .. Len(C) :
        /\ Older(C) \in Seq(Nat) /\ Len(Older(C)) = Len(C) - c
        /\ \A j \in 1 .. Len(C) - c : Older(C)[j] = C[c + j] + 1
        /\ c > 0 => C[c] + 1 >= Window
  BY OlderSuffix
<1>3. Window \in Nat /\ Len(C) \in Nat /\ Len(L) \in Nat /\ d \in 0 .. 1
  BY WatchdogAssumption
<1>. SUFFICES ASSUME NEW k \in 0 .. Len(L) - n - 1 - d
     PROVE  /\ k < Len(C) - c
            /\ Older(C)[Len(C) - c - k] <= Older(L)[Len(L) - n - d - k]
  BY <1>1, <1>2 DEF Follows
<1>4. ASSUME NEW j \in 0 .. k
      PROVE  /\ j < Len(C) /\ C[Len(C) - j] <= L[Len(L) - d - j]
             /\ L[Len(L) - d - j] + 1 < Window
             /\ C[Len(C) - j] \in Nat /\ L[Len(L) - d - j] \in Nat
  <2>1. j \in 0 .. Len(L) - 1 - d
    BY <1>3
  <2>2. j < Len(C)
    BY <2>1 DEF Follows
  <2>3. C[Len(C) - j] <= L[Len(L) - d - j]
    BY <2>1 DEF Follows
  <2>4. Len(C) - j \in 1 .. Len(C)
    BY <1>3, <2>2
  <2>5. Len(L) - d - j \in n + 1 .. Len(L) /\ Len(L) - d - j \in 1 .. Len(L)
    BY <1>3
  <2>6. L[Len(L) - d - j] + 1 < Window
    BY <1>1, <2>5
  <2>7. C[Len(C) - j] \in Nat /\ L[Len(L) - d - j] \in Nat
    BY <2>4, <2>5, ElementOfSeq
  <2>. QED
    BY <2>2, <2>3, <2>6, <2>7
<1>5. k < Len(C) - c
  <2>. SUFFICES ASSUME k >= Len(C) - c PROVE FALSE
    BY <1>3
  <2>1. Len(C) - c \in 0 .. k /\ Len(C) - (Len(C) - c) = c
    BY <1>3
  <2>2. Len(C) - c < Len(C) /\ C[Len(C) - (Len(C) - c)] + 1 < Window
    <3>. DEFINE j == Len(C) - c
    <3>1. j \in 0 .. k
      BY <2>1
    <3>. HIDE DEF j
    <3>2. /\ j < Len(C) /\ C[Len(C) - j] <= L[Len(L) - d - j]
          /\ L[Len(L) - d - j] + 1 < Window
          /\ C[Len(C) - j] \in Nat /\ L[Len(L) - d - j] \in Nat
      BY <1>4, <3>1
    <3>3. C[Len(C) - j] + 1 < Window
      <4>. DEFINE x == C[Len(C) - j]
                  y == L[Len(L) - d - j]
      <4>1. x \in Nat /\ y \in Nat /\ x <= y /\ y + 1 < Window
        BY <3>2
      <4>. HIDE DEF x, y
      <4>2. x + 1 < Window
        BY <1>3, <4>1
      <4>. QED
        BY <4>2 DEF x
    <3>. QED
      BY <3>2, <3>3 DEF j
  <2>. QED
    BY <1>2, <1>3, <2>1, <2>2
<1>6. Len(C) - c - k \in 1 .. Len(C) - c /\ c + (Len(C) - c - k) = Len(C) - k
  BY <1>3, <1>5
<1>7. Len(L) - n - d - k \in 1 .. Len(L) - n /\ n + (Len(L) - n - d - k) = Len(L) - d - k
  BY <1>3
<1>8. Older(C)[Len(C) - c - k] = C[Len(C) - k] + 1
  BY <1>2, <1>6
<1>9. Older(L)[Len(L) - n - d - k] = L[Len(L) - d - k] + 1
  BY <1>1, <1>7
<1>10. k \in 0 .. k
  OBVIOUS
<1>11. /\ C[Len(C) - k] <= L[Len(L) - d - k]
       /\ C[Len(C) - k] \in Nat /\ L[Len(L) - d - k] \in Nat
  BY <1>4, <1>10
<1>12. C[Len(C) - k] + 1 <= L[Len(L) - d - k] + 1
  <2>. DEFINE x == C[Len(C) - k]
              y == L[Len(L) - d - k]
  <2>1. x \in Nat /\ y \in Nat /\ x <= y
    BY <1>11
  <2>. HIDE DEF x, y
  <2>2. x + 1 <= y + 1
    BY <2>1
  <2>. QED
    BY <2>2 DEF x, y
<1>. QED
  BY <1>5, <1>8, <1>9, <1>12

\* A launch is open until its exit is observed.
LEMMA FollowsLaunch ==
    ASSUME NEW C \in Seq(Nat), NEW L \in Seq(Nat), Follows(C, L, 0)
    PROVE  Follows(C, Append(L, 0), 1)
<1>1. /\ Append(L, 0) \in Seq(Nat) /\ Len(Append(L, 0)) = Len(L) + 1 /\ Len(L) \in Nat
      /\ \A k \in 1 .. Len(L) : Append(L, 0)[k] = L[k]
  OBVIOUS
<1>2. ASSUME NEW k \in 0 .. Len(L) - 1
      PROVE  k < Len(C) /\ C[Len(C) - k] <= Append(L, 0)[Len(L) - k]
  <2>1. k \in 0 .. Len(L) - 1 - 0 /\ Len(L) - 0 - k = Len(L) - k /\ Len(L) - k \in 1 .. Len(L)
    BY <1>1
  <2>2. k < Len(C) /\ C[Len(C) - k] <= L[Len(L) - 0 - k]
    BY <2>1 DEF Follows
  <2>. QED
    BY <1>1, <2>1, <2>2
<1>3. ASSUME NEW k \in 0 .. Len(Append(L, 0)) - 1 - 1
      PROVE  k \in 0 .. Len(L) - 1 /\ Len(Append(L, 0)) - 1 - k = Len(L) - k
  BY <1>1
<1>. QED
  BY <1>2, <1>3 DEF Follows

\* The crash that is recorded belongs to the launch that was open.
LEMMA FollowsCrash ==
    ASSUME NEW C \in Seq(Nat), NEW L \in Seq(Nat), Follows(C, L, 1)
    PROVE  Follows(Append(C, 0), L, 0)
<1>1. /\ Append(C, 0) \in Seq(Nat) /\ Len(Append(C, 0)) = Len(C) + 1
      /\ Len(C) \in Nat /\ Len(L) \in Nat
      /\ \A k \in 1 .. Len(C) : Append(C, 0)[k] = C[k]
      /\ Append(C, 0)[Len(C) + 1] = 0
  OBVIOUS
<1>. SUFFICES ASSUME NEW k \in 0 .. Len(L) - 1
     PROVE  k < Len(C) + 1 /\ Append(C, 0)[Len(C) + 1 - k] <= L[Len(L) - k]
  BY <1>1 DEF Follows
<1>2. CASE k = 0
  <2>1. Len(L) \in 1 .. Len(L)
    BY <1>1, <1>2
  <2>2. L[Len(L)] \in Nat
    BY <2>1, ElementOfSeq
  <2>. QED
    BY <1>1, <1>2, <2>2
<1>3. CASE k > 0
  <2>1. k - 1 \in 0 .. Len(L) - 1 - 1
    BY <1>1, <1>3
  <2>2. k - 1 < Len(C) /\ C[Len(C) - (k - 1)] <= L[Len(L) - 1 - (k - 1)]
    BY <2>1 DEF Follows
  <2>3. /\ Len(C) + 1 - k = Len(C) - (k - 1) /\ Len(L) - 1 - (k - 1) = Len(L) - k
        /\ Len(C) + 1 - k \in 1 .. Len(C)
    BY <1>1, <1>3, <2>2
  <2>. QED
    BY <1>1, <2>2, <2>3
<1>. QED
  BY <1>1, <1>2, <1>3

-----------------------------------------------------------------------------
(* The inductive invariant. *)

\* The launch a watchdog has not yet seen the end of.
Open(i) == IF watch[i] \in {"poll", "closing"} THEN 1 ELSE 0

\* Every launch but the open one has its crash in the record, so the breaker
\* counts no less than the launches; and where the watchdog may launch once more
\* it has launched less than Threshold times.
Paired(i) == Follows(crashes[i], launches[i], Open(i))
Room(i) ==
    /\ watch[i] \in {"unborn", "boot"} => launches[i] = <<>>
    /\ watch[i] \in {"top", "backoff"} => Len(launches[i]) < Threshold
    /\ Len(launches[i]) <= Threshold

Ages ==
    /\ record \in Seq(Nat)
    /\ crashes \in [Runs -> Seq(Nat)] /\ launches \in [Runs -> Seq(Nat)]

BreakerInv == Ages /\ \A i \in Runs : Paired(i) /\ Room(i)

\* A watchdog that has launched nothing, or nothing that it still knows of.
LEMMA ClearedRoom ==
    ASSUME NEW i \in Runs, launches'[i] = <<>>
    PROVE  Paired(i)' /\ Room(i)'
<1>1. Len(<<>>) = 0 /\ Threshold \in Nat /\ Threshold >= 2
  BY WatchdogAssumption
<1>2. Open(i)' \in {0, 1}
  BY DEF Open
<1>3. Paired(i)'
  BY <1>1, <1>2 DEF Paired, Follows
<1>4. Room(i)'
  BY <1>1 DEF Room
<1>. QED
  BY <1>3, <1>4

\* A step that leaves a watchdog where it is, or moves it within the places before
\* a launch or after one, keeps its part of the invariant.
LEMMA SameRoom ==
    ASSUME NEW i \in Runs, Paired(i), Room(i),
           crashes'[i] = crashes[i], launches'[i] = launches[i],
           \/ watch'[i] = watch[i]
           \/ watch[i] = "poll" /\ watch'[i] = "closing"
           \/ watch[i] = "backoff" /\ watch'[i] = "top"
    PROVE  Paired(i)' /\ Room(i)'
<1>1. Open(i)' = Open(i)
  BY DEF Open
<1>. QED
  BY <1>1 DEF Paired, Room

\* One watchdog ends; the others stay as they are.
LEMMA EndsRoom ==
    ASSUME Shape, BreakerInv, NEW i \in Runs, WatchdogEnds(i)
    PROVE  /\ crashes' \in [Runs -> Seq(Nat)] /\ launches' \in [Runs -> Seq(Nat)]
           /\ \A j \in Runs : Paired(j)' /\ Room(j)'
<1>1. /\ watch' = [watch EXCEPT ![i] = "gone"] /\ crashes' = [crashes EXCEPT ![i] = <<>>]
      /\ launches' = [launches EXCEPT ![i] = <<>>]
  BY DEF WatchdogEnds
<1>2. crashes' \in [Runs -> Seq(Nat)] /\ launches' \in [Runs -> Seq(Nat)]
  BY <1>1 DEF BreakerInv, Ages
<1>3. ASSUME NEW j \in Runs PROVE Paired(j)' /\ Room(j)'
  <2>1. CASE j = i
    BY <1>1, <2>1, ClearedRoom DEF BreakerInv, Ages
  <2>2. CASE j # i
    BY <1>1, <2>2, SameRoom DEF BreakerInv, Ages, Shape
  <2>. QED
    BY <2>1, <2>2
<1>. QED
  BY <1>2, <1>3

\* A step that leaves the watchdogs and the record alone.
LEMMA OthersRoom ==
    ASSUME BreakerInv, UNCHANGED <<record, watch, crashes, launches>>
    PROVE  BreakerInv'
<1>1. ASSUME NEW j \in Runs PROVE Paired(j)' /\ Room(j)'
  BY SameRoom DEF BreakerInv
<1>. QED
  BY <1>1 DEF BreakerInv, Ages

\* Every step keeps the invariant.
LEMMA BreakerNext ==
    ASSUME LifeInv, BreakerInv, [Next]_vars
    PROVE  BreakerInv'
<1>. USE DEF LifeInv
<1>0. record \in Seq(Nat) /\ <<>> \in Seq(Nat)
  BY DEF BreakerInv, Ages
<1>1. CASE UNCHANGED vars
  BY <1>1, OthersRoom DEF vars, files, watchdog
<1>2. ASSUME NEW i \in Runs, Boot(i) PROVE BreakerInv'
  <2>1. /\ watch' = [watch EXCEPT ![i] = "top"] /\ crashes' = [crashes EXCEPT ![i] = record]
        /\ launches[i] = <<>> /\ UNCHANGED <<launches, record>>
    BY <1>2 DEF Boot, BreakerInv, Room, files
  <2>2. ASSUME NEW j \in Runs PROVE Paired(j)' /\ Room(j)'
    <3>1. CASE j = i
      BY <2>1, <3>1, ClearedRoom
    <3>2. CASE j # i
      BY <2>1, <3>2, SameRoom DEF BreakerInv, Ages, Shape
    <3>. QED
      BY <3>1, <3>2
  <2>3. Ages'
    BY <2>1 DEF BreakerInv, Ages
  <2>. QED
    BY <2>2, <2>3 DEF BreakerInv
<1>3. ASSUME NEW i \in Runs, StopAtTop(i) \/ StopWatchdog(i) PROVE BreakerInv'
  <2>1. WatchdogEnds(i) /\ record' = crashes[i]
    BY <1>3 DEF StopAtTop, StopWatchdog
  <2>2. record' \in Seq(Nat)
    BY <2>1 DEF BreakerInv, Ages
  <2>. QED
    BY <2>1, <2>2, EndsRoom DEF BreakerInv, Ages
<1>4. ASSUME NEW i \in Runs, WatchdogFails(i) \/ Killed(i) PROVE BreakerInv'
  <2>1. WatchdogEnds(i) /\ record' \in {record, <<>>}
    BY <1>4 DEF WatchdogFails, Killed, RecordKeptOrLost
  <2>2. record' \in Seq(Nat)
    BY <1>0, <2>1
  <2>. QED
    BY <2>1, <2>2, EndsRoom DEF BreakerInv, Ages
<1>5. ASSUME NEW i \in Runs, Launch(i) PROVE BreakerInv'
  <2>1. /\ watch[i] = "top" /\ watch' = [watch EXCEPT ![i] = "poll"] /\ UNCHANGED crashes
        /\ launches' = [launches EXCEPT ![i] = Append(@, 0)] /\ record' = crashes[i]
    BY <1>5 DEF Launch
  <2>2. launches'[i] = Append(launches[i], 0) /\ watch'[i] = "poll"
    BY <2>1 DEF BreakerInv, Ages, Shape
  <2>3. Open(i) = 0 /\ Open(i)' = 1
    BY <2>1, <2>2 DEF Open
  <2>4. crashes[i] \in Seq(Nat) /\ launches[i] \in Seq(Nat)
    BY DEF BreakerInv, Ages
  <2>5. Paired(i)'
    BY <2>1, <2>2, <2>3, <2>4, FollowsLaunch DEF BreakerInv, Paired
  <2>6. Room(i)'
    <3>1. Len(launches[i]) < Threshold /\ Len(launches[i]) \in Nat
      BY <2>1, <2>4 DEF BreakerInv, Room
    <3>2. Len(launches'[i]) = Len(launches[i]) + 1 /\ Threshold \in Nat
      BY <2>2, <2>4, WatchdogAssumption
    <3>. QED
      BY <2>2, <3>1, <3>2 DEF Room
  <2>7. ASSUME NEW j \in Runs PROVE Paired(j)' /\ Room(j)'
    <3>1. CASE j # i
      BY <2>1, <3>1, SameRoom DEF BreakerInv, Ages, Shape
    <3>. QED
      BY <2>5, <2>6, <3>1
  <2>8. Ages'
    BY <2>1, <2>4 DEF BreakerInv, Ages
  <2>. QED
    BY <2>7, <2>8 DEF BreakerInv
<1>6. ASSUME NEW i \in Runs, StopDaemon(i) \/ BackoffEnds(i) PROVE BreakerInv'
  <2>1. /\ UNCHANGED <<crashes, launches, record>>
        /\ \/ watch[i] = "poll" /\ watch' = [watch EXCEPT ![i] = "closing"]
           \/ watch[i] = "backoff" /\ watch' = [watch EXCEPT ![i] = "top"]
    BY <1>6 DEF StopDaemon, BackoffEnds, files
  <2>2. ASSUME NEW j \in Runs PROVE Paired(j)' /\ Room(j)'
    BY <2>1, SameRoom DEF BreakerInv, Shape
  <2>. QED
    BY <2>1, <2>2 DEF BreakerInv, Ages
<1>7. ASSUME NEW i \in Runs, Observe(i) PROVE BreakerInv'
  <2>. DEFINE ages == Append(crashes[i], 0)
              over == category[i] = "unrecoverable" \/ Trips(ages)
  <2>1. crashes[i] \in Seq(Nat) /\ launches[i] \in Seq(Nat) /\ ages \in Seq(Nat)
    BY DEF BreakerInv, Ages
  <2>2. watch[i] = "poll" /\ record' = ages
    BY <1>7 DEF Observe
  <2>3. CASE over
    <3>1. WatchdogEnds(i)
      BY <1>7, <2>3 DEF Observe
    <3>. QED
      BY <2>1, <2>2, <3>1, EndsRoom DEF BreakerInv, Ages
  <2>4. CASE ~over
    <3>1. /\ watch' = [watch EXCEPT ![i] = "backoff"] /\ crashes' = [crashes EXCEPT ![i] = ages]
          /\ UNCHANGED launches /\ ~(Len(ages) >= Threshold)
      BY <1>7, <2>4 DEF Observe, Trips
    <3>. HIDE DEF ages
    <3>2. crashes'[i] = ages /\ watch'[i] = "backoff"
      BY <3>1 DEF BreakerInv, Ages, Shape
    <3>3. Open(i) = 1 /\ Open(i)' = 0
      BY <2>2, <3>2 DEF Open
    <3>4. Follows(ages, launches[i], 0)
      BY <2>1, <3>3, FollowsCrash DEF BreakerInv, Paired, ages
    <3>5. Paired(i)'
      BY <3>1, <3>2, <3>3, <3>4 DEF Paired
    <3>6. Room(i)'
      <4>1. Len(launches[i]) <= Len(ages)
        <5>. DEFINE l == Len(launches[i])
        <5>1. l \in Nat /\ Len(ages) \in Nat
          BY <2>1
        <5>2. l > 0 => l - 1 < Len(ages)
          BY <3>4, <5>1 DEF Follows
        <5>. QED
          BY <5>1, <5>2
      <4>2. Len(launches[i]) \in Nat /\ Len(ages) \in Nat /\ Threshold \in Nat
        BY <2>1, WatchdogAssumption
      <4>. QED
        BY <3>1, <3>2, <4>1, <4>2 DEF Room
    <3>7. ASSUME NEW j \in Runs PROVE Paired(j)' /\ Room(j)'
      <4>1. CASE j # i
        BY <3>1, <4>1, SameRoom DEF BreakerInv, Ages, Shape
      <4>. QED
        BY <3>5, <3>6, <4>1
    <3>8. Ages'
      BY <2>1, <2>2, <3>1 DEF BreakerInv, Ages
    <3>. QED
      BY <3>7, <3>8 DEF BreakerInv
  <2>. QED
    BY <2>3, <2>4
<1>8. ASSUME NEW i \in Runs, DaemonStep(i) PROVE BreakerInv'
  BY <1>8, OthersRoom
     DEF DaemonStep, ComesUp, NoSession, SessionGone, SaveClean, ExitClean, files, watchdog
<1>9. ASSUME NEW i \in Runs, StartupFails(i) \/ Crash(i) \/ Heartbeat(i) \/ HotReload(i)
      PROVE  BreakerInv'
  BY <1>9, OthersRoom DEF StartupFails, Crash, Heartbeat, HotReload, files, watchdog
<1>10. CASE \/ StartTeam \/ BuildLayout \/ StartFails \/ CheckSpawned \/ WritePid \/ WritePidFails
            \/ StopTeam \/ RestartIfStale
  BY <1>10, OthersRoom
     DEF StartTeam, BuildLayout, StartFails, CheckSpawned, WritePid, WritePidFails, StopTeam,
         RestartIfStale, files, watchdog
<1>11. CASE \/ WaitClean \/ WaitGone \/ WaitTimesOut \/ KillSession \/ KillSessionFails
            \/ WriteMarker \/ SessionLost
  BY <1>11, OthersRoom
     DEF WaitClean, WaitGone, WaitTimesOut, KillSession, KillSessionFails, WriteMarker, SessionLost,
         files, watchdog
<1>12. CASE SpawnWatchdog
  <2>1. Spawned
    BY <1>12, SpawnEffect
  <2>. DEFINE i == spawned + 1
  <2>2. /\ i \in Runs /\ watch' = [watch EXCEPT ![i] = "boot"] /\ watch[i] = "unborn"
        /\ UNCHANGED <<record, crashes, launches>>
    BY <1>12, <2>1, WatchdogAssumption DEF Spawned, SpawnWatchdog, Shape, ControlOK, Runs
  <2>. HIDE DEF i
  <2>3. ASSUME NEW j \in Runs PROVE Paired(j)' /\ Room(j)'
    <3>1. CASE j = i
      BY <2>2, <3>1, ClearedRoom DEF BreakerInv, Room
    <3>2. CASE j # i
      BY <2>2, <3>2, SameRoom DEF BreakerInv, Shape
    <3>. QED
      BY <3>1, <3>2
  <2>. QED
    BY <2>2, <2>3 DEF BreakerInv, Ages
<1>13. CASE RequestShutdown
  <2>1. record' = record
    BY <1>13 DEF RequestShutdown, files
  <2>2. CASE UNCHANGED <<watch, crashes, launches>>
    BY <2>1, <2>2, OthersRoom
  <2>3. CASE pid # 0 /\ WatchdogEnds(pid)
    <3>1. pid \in Runs
      BY <2>3, WatchdogAssumption DEF Shape, Runs
    <3>. QED
      BY <2>1, <2>3, <3>1, EndsRoom DEF BreakerInv, Ages
  <2>. QED
    BY <1>13, <2>2, <2>3 DEF RequestShutdown, watchdog
<1>14. CASE ForceKill
  <2>1. CASE UNCHANGED <<record, watchdog>>
    BY <2>1, OthersRoom DEF watchdog
  <2>2. CASE pid # 0 /\ WatchdogEnds(pid) /\ record' \in {record, <<>>}
    <3>1. pid \in Runs
      BY <2>2, WatchdogAssumption DEF Shape, Runs
    <3>2. record' \in Seq(Nat)
      BY <1>0, <2>2
    <3>. QED
      BY <2>2, <3>1, <3>2, EndsRoom DEF BreakerInv, Ages
  <2>. QED
    BY <1>14, <2>1, <2>2 DEF ForceKill, RecordKeptOrLost
<1>15. CASE Tick
  <2>1. /\ record' = Older(record) /\ UNCHANGED watch
        /\ crashes' = [i \in Runs |-> Older(crashes[i])]
        /\ launches' = [i \in Runs |-> Older(launches[i])]
    BY <1>15 DEF Tick
  <2>2. ASSUME NEW i \in Runs
        PROVE  /\ Older(crashes[i]) \in Seq(Nat) /\ Older(launches[i]) \in Seq(Nat)
               /\ Len(Older(launches[i])) <= Len(launches[i])
    <3>1. crashes[i] \in Seq(Nat) /\ launches[i] \in Seq(Nat)
      BY DEF BreakerInv, Ages
    <3>2. PICK n \in 0 .. Len(launches[i]) : Len(Older(launches[i])) = Len(launches[i]) - n
      BY <3>1, OlderSuffix
    <3>3. Len(Older(launches[i])) <= Len(launches[i])
      BY <3>1, <3>2
    <3>. QED
      BY <3>1, <3>3, OlderSuffix
  <2>3. Ages'
    <3>1. Older(record) \in Seq(Nat)
      BY OlderSuffix DEF BreakerInv, Ages
    <3>. QED
      BY <2>1, <2>2, <3>1 DEF Ages
  <2>4. ASSUME NEW i \in Runs PROVE Paired(i)' /\ Room(i)'
    <3>1. crashes[i] \in Seq(Nat) /\ launches[i] \in Seq(Nat) /\ Open(i)' = Open(i)
      BY <2>1 DEF BreakerInv, Ages, Open
    <3>2. crashes'[i] = Older(crashes[i]) /\ launches'[i] = Older(launches[i])
      BY <2>1
    <3>3. Open(i) \in {0, 1}
      BY DEF Open
    <3>4. Paired(i)'
      BY <3>1, <3>2, <3>3, FollowsTick DEF BreakerInv, Paired
    <3>5. Room(i)'
      <4>1. /\ Len(Older(launches[i])) \in Nat /\ Len(launches[i]) \in Nat /\ Threshold \in Nat
            /\ Len(Older(launches[i])) <= Len(launches[i])
        BY <2>2, <3>1, WatchdogAssumption, SMTT(30)
      <4>2. launches[i] = <<>> => Older(launches[i]) = <<>>
        BY <2>2, <4>1
      <4>. QED
        BY <2>1, <3>2, <4>1, <4>2 DEF BreakerInv, Room
    <3>. QED
      BY <3>4, <3>5
  <2>. QED
    BY <2>3, <2>4 DEF BreakerInv
<1>. QED
  BY <1>1, <1>2, <1>3, <1>4, <1>5, <1>6, <1>7, <1>8, <1>9, <1>10, <1>11, <1>12, <1>13, <1>14, <1>15
     DEF Next, WatchdogStep, Fault, CommandStep

\* The initial state.
LEMMA BreakerInit == Init => BreakerInv
<1>. SUFFICES ASSUME Init PROVE BreakerInv
  OBVIOUS
<1>1. Ages
  BY DEF Init, Ages
<1>2. ASSUME NEW i \in Runs PROVE Paired(i) /\ Room(i)
  <2>1. launches[i] = <<>> /\ Len(<<>>) = 0 /\ Open(i) = 0 /\ Threshold \in Nat /\ Threshold >= 2
    BY WatchdogAssumption DEF Init, Open
  <2>. QED
    BY <2>1 DEF Paired, Follows, Room
<1>. QED
  BY <1>1, <1>2 DEF BreakerInv

\* record_watchdog_crash keeps its promise for every threshold and window: in no
\* window does a watchdog launch its daemon more than Threshold times, however the
\* crashes, the back-off and the record of an earlier watchdog fall.
THEOREM BreakerHolds == Spec => []LaunchesBounded
<1>1. LifeInv /\ BreakerInv /\ [Next]_vars => BreakerInv'
  BY BreakerNext
<1>2. BreakerInv => LaunchesBounded
  BY DEF BreakerInv, Room, LaunchesBounded
<1>. QED
  BY <1>1, <1>2, BreakerInit, LifeInvariant, PTL DEF Spec

-----------------------------------------------------------------------------
(* The limits that TypeOK names. *)

\* The watchdogs that have ended.
Gone == {i \in Runs : watch[i] = "gone"}

\* A crash that trips the breaker makes a record longer than Threshold - 1, and
\* ends its watchdog; the next watchdog reads it.
Fits(ages) == Len(ages) <= Threshold - 1 + Cardinality(Gone)
Counted == Fits(record) /\ \A i \in Runs : Fits(crashes[i])

\* A watchdog looks after its daemon at one place only, and a daemon that has
\* exited is one it has still to look at.
Held ==
    \A i \in Runs :
        /\ Watching(i) /\ Alive(i) => watch[i] = "poll"
        /\ child[i] = "dead" => watch[i] \in {"poll", "closing"}

Timers == left \in [Runs -> 0 .. MaxBackoff] /\ waited \in [Runs -> 0 .. SessionWait]

Limits == Held /\ Timers /\ Counted /\ op.on <= spawned

\* A power of two is a natural number: it counts the subsets of a set.
LEMMA PowerOfTwo ==
    ASSUME NEW n \in Nat
    PROVE  2 ^ n \in Nat
<1>1. IsFiniteSet(1 .. n) /\ Cardinality(1 .. n) = n
  BY FS_Interval
<1>2. Cardinality(SUBSET (1 .. n)) = 2 ^ n /\ IsFiniteSet(SUBSET (1 .. n))
  BY <1>1, FS_SUBSET
<1>3. Cardinality(SUBSET (1 .. n)) \in Nat
  BY <1>2, FS_CardinalityType
<1>. QED
  BY <1>2, <1>3

\* The back-off after a crash is within its cap.
LEMMA BackoffCapped ==
    ASSUME NEW ages \in Seq(Nat), Len(ages) > 0
    PROVE  Backoff(ages) \in 0 .. MaxBackoff
<1>1. Len(ages) - 1 \in Nat /\ MaxBackoff \in Nat
  BY WatchdogAssumption
<1>2. 2 ^ (Len(ages) - 1) \in Nat
  BY <1>1, PowerOfTwo
<1>. QED
  BY <1>1, <1>2 DEF Backoff

\* There are as many ended watchdogs as were spawned, or less.
LEMMA GoneBounded ==
    ASSUME Shape, ControlOK
    PROVE  IsFiniteSet(Gone) /\ Cardinality(Gone) \in Nat /\ Cardinality(Gone) <= spawned
<1>1. spawned \in Nat
  BY DEF Shape
<1>2. IsFiniteSet(1 .. spawned) /\ Cardinality(1 .. spawned) = spawned
  BY <1>1, FS_Interval
<1>3. Gone \in SUBSET (1 .. spawned)
  <2>1. ASSUME NEW i \in Gone PROVE i \in 1 .. spawned
    <3>1. i \in Runs /\ watch[i] # "unborn"
      BY DEF Gone
    <3>2. i \in Nat /\ i >= 1 /\ ~(i > spawned)
      BY <3>1, WatchdogAssumption DEF ControlOK, Runs
    <3>. QED
      BY <1>1, <3>2
  <2>. QED
    BY <2>1
<1>4. IsFiniteSet(Gone) /\ Cardinality(Gone) <= Cardinality(1 .. spawned)
  BY <1>2, <1>3, FS_Subset
<1>. QED
  BY <1>2, <1>4, FS_CardinalityType

\* A record that gets no longer goes on fitting, since no watchdog comes back.
LEMMA CountKept ==
    ASSUME Shape, Shape', ControlOK, ControlOK', Ages, Ages', Counted, Gone \subseteq Gone',
           \/ Len(record') <= Len(record) \/ Len(record') < Threshold
           \/ \E i \in Runs : Len(record') <= Len(crashes[i]),
           \A j \in Runs : \/ Len(crashes'[j]) <= Len(crashes[j])
                           \/ Len(crashes'[j]) <= Len(record)
                           \/ Len(crashes'[j]) < Threshold
    PROVE  Counted'
<1>. DEFINE g == Cardinality(Gone)
            h == Cardinality(Gone)'
<1>1. IsFiniteSet(Gone) /\ g \in Nat
  BY GoneBounded
<1>2. IsFiniteSet(Gone)' /\ h \in Nat
  <2>1. IsFiniteSet(Runs) /\ Gone' \subseteq Runs
    BY WatchdogAssumption, FS_Interval DEF Runs, Gone
  <2>. QED
    BY <2>1, FS_Subset, FS_CardinalityType
<1>3. g <= h
  BY <1>1, <1>2, FS_Subset
<1>. HIDE DEF g, h
<1>4. Threshold \in Nat
  BY WatchdogAssumption
<1>5. /\ Len(record) \in Nat /\ Len(record') \in Nat
      /\ \A j \in Runs : Len(crashes[j]) \in Nat /\ Len(crashes'[j]) \in Nat
  BY DEF Ages
<1>6. Len(record) <= Threshold - 1 + g /\ \A j \in Runs : Len(crashes[j]) <= Threshold - 1 + g
  BY DEF Counted, Fits, g
<1>7. Len(record') <= Threshold - 1 + h
  BY <1>1, <1>2, <1>3, <1>4, <1>5, <1>6
<1>8. ASSUME NEW j \in Runs PROVE Len(crashes'[j]) <= Threshold - 1 + h
  BY <1>1, <1>2, <1>3, <1>4, <1>5, <1>6, SMTT(30)
<1>. QED
  BY <1>7, <1>8 DEF Counted, Fits, h

\* The crash that ends a watchdog may make the record longer by one.
LEMMA CountCrash ==
    ASSUME Shape, Shape', ControlOK, ControlOK', Ages, Ages', Counted,
           NEW i \in Runs, watch[i] # "gone", WatchdogEnds(i),
           record' = Append(crashes[i], 0)
    PROVE  Counted'
<1>. DEFINE g == Cardinality(Gone)
            h == Cardinality(Gone)'
<1>1. IsFiniteSet(Gone) /\ g \in Nat
  BY GoneBounded
<1>2. Gone' = Gone \cup {i} /\ i \notin Gone
  BY DEF Gone, WatchdogEnds, Shape
<1>3. h = g + 1
  BY <1>1, <1>2, FS_AddElement
<1>. HIDE DEF g, h
<1>4. Threshold \in Nat
  BY WatchdogAssumption
<1>5. /\ Len(record') = Len(crashes[i]) + 1
      /\ \A j \in Runs : Len(crashes[j]) \in Nat /\ Len(crashes'[j]) \in Nat
  BY DEF Ages
<1>6. \A j \in Runs : Len(crashes[j]) <= Threshold - 1 + g
  BY DEF Counted, Fits, g
<1>7. Len(record') <= Threshold - 1 + h
  BY <1>1, <1>3, <1>4, <1>5, <1>6
<1>8. ASSUME NEW j \in Runs PROVE Len(crashes'[j]) <= Threshold - 1 + h
  <2>1. crashes' = [crashes EXCEPT ![i] = <<>>]
    BY DEF WatchdogEnds
  <2>2. Len(crashes'[j]) <= Len(crashes[j])
    <3>1. CASE j = i
      BY <1>5, <2>1, <3>1 DEF Ages
    <3>2. CASE j # i
      BY <1>5, <2>1, <3>2 DEF Ages
    <3>. QED
      BY <3>1, <3>2
  <2>. QED
    BY <1>1, <1>3, <1>4, <1>5, <1>6, <2>2
<1>. QED
  BY <1>7, <1>8 DEF Counted, Fits, h

\* One watchdog moves on, and the records stay: no ended watchdog comes back.
LEMMA GoneGrows ==
    ASSUME Shape, NEW i \in Runs, NEW at, watch' = [watch EXCEPT ![i] = at], watch[i] # "gone" \/ at = "gone"
    PROVE  Gone \subseteq Gone'
BY DEF Gone, Shape

\* The end of a watchdog leaves the other records and the timers within their limits.
LEMMA EndsLimits ==
    ASSUME Shape, Ages, Timers, NEW i \in Runs, WatchdogEnds(i)
    PROVE  /\ Gone \subseteq Gone' /\ left' \in [Runs -> 0 .. MaxBackoff]
           /\ \A j \in Runs : Len(crashes'[j]) <= Len(crashes[j])
<1>1. /\ watch' = [watch EXCEPT ![i] = "gone"] /\ crashes' = [crashes EXCEPT ![i] = <<>>]
      /\ left' = [left EXCEPT ![i] = 0]
  BY DEF WatchdogEnds
<1>2. Gone \subseteq Gone'
  BY <1>1, GoneGrows
<1>3. 0 \in 0 .. MaxBackoff
  BY WatchdogAssumption
<1>4. left' \in [Runs -> 0 .. MaxBackoff]
  BY <1>1, <1>3 DEF Timers
<1>5. ASSUME NEW j \in Runs PROVE Len(crashes'[j]) <= Len(crashes[j])
  <2>1. Len(crashes[j]) \in Nat /\ Len(<<>>) = 0
    BY DEF Ages
  <2>2. CASE j = i
    BY <1>1, <2>1, <2>2 DEF Ages
  <2>3. CASE j # i
    BY <1>1, <2>1, <2>3 DEF Ages
  <2>. QED
    BY <2>2, <2>3
<1>. QED
  BY <1>2, <1>4, <1>5

\* Every step keeps the records within their limits.
LEMMA CountNext ==
    ASSUME LifeInv, LifeInv', BreakerInv, BreakerInv', Timers, Counted, [Next]_vars
    PROVE  Counted'
<1>. USE DEF LifeInv, BreakerInv
<1>0. /\ Len(record) \in Nat /\ Len(record') \in Nat /\ Threshold \in Nat
      /\ \A j \in Runs : Len(crashes[j]) \in Nat /\ Len(crashes'[j]) \in Nat
  BY WatchdogAssumption, SMTT(30) DEF Ages
<1>1. CASE UNCHANGED <<record, watch, crashes>>
  <2>1. Gone \subseteq Gone'
    BY <1>1 DEF Gone
  <2>. QED
    BY <1>0, <1>1, <2>1, CountKept
<1>2. ASSUME NEW i \in Runs, Boot(i) PROVE Counted'
  <2>1. /\ watch' = [watch EXCEPT ![i] = "top"] /\ crashes' = [crashes EXCEPT ![i] = record]
        /\ watch[i] = "boot" /\ record' = record
    BY <1>2 DEF Boot, files
  <2>2. Gone \subseteq Gone'
    BY <2>1, GoneGrows
  <2>3. ASSUME NEW j \in Runs
        PROVE  Len(crashes'[j]) <= Len(crashes[j]) \/ Len(crashes'[j]) <= Len(record)
    BY <1>0, <2>1 DEF Ages
  <2>. QED
    BY <1>0, <2>1, <2>2, <2>3, CountKept
<1>3. ASSUME NEW i \in Runs, WatchdogEnds(i), record' \in {record, crashes[i], <<>>}
      PROVE  Counted'
  <2>1. Len(record') <= Len(record) \/ Len(record') <= Len(crashes[i])
    BY <1>0, <1>3
  <2>. QED
    BY <1>0, <1>3, <2>1, EndsLimits, CountKept
<1>4. ASSUME NEW i \in Runs, Launch(i) \/ StopDaemon(i) \/ BackoffEnds(i) PROVE Counted'
  <2>1. \E at \in {"poll", "closing", "top"} : watch' = [watch EXCEPT ![i] = at] /\ watch[i] # "gone"
    BY <1>4 DEF Launch, StopDaemon, BackoffEnds
  <2>2. UNCHANGED crashes /\ record' \in {record, crashes[i]}
    BY <1>4 DEF Launch, StopDaemon, BackoffEnds, files
  <2>3. Gone \subseteq Gone'
    BY <2>1, GoneGrows
  <2>. QED
    BY <1>0, <2>2, <2>3, CountKept
<1>5. ASSUME NEW i \in Runs, Observe(i) PROVE Counted'
  <2>. DEFINE ages == Append(crashes[i], 0)
              over == category[i] = "unrecoverable" \/ Trips(ages)
  <2>1. watch[i] = "poll" /\ record' = ages
    BY <1>5 DEF Observe
  <2>2. CASE over
    <3>1. WatchdogEnds(i)
      BY <1>5, <2>2 DEF Observe
    <3>. QED
      BY <2>1, <3>1, CountCrash
  <2>3. CASE ~over
    <3>1. /\ watch' = [watch EXCEPT ![i] = "backoff"] /\ crashes' = [crashes EXCEPT ![i] = ages]
          /\ ~(Len(ages) >= Threshold)
      BY <1>5, <2>3 DEF Observe, Trips
    <3>2. Gone \subseteq Gone'
      BY <2>1, <3>1, GoneGrows
    <3>. HIDE DEF ages
    <3>3. Len(ages) \in Nat /\ Len(ages) < Threshold
      BY <1>0, <2>1, <3>1
    <3>4. ASSUME NEW j \in Runs
          PROVE  Len(crashes'[j]) <= Len(crashes[j]) \/ Len(crashes'[j]) < Threshold
      BY <1>0, <3>1, <3>3 DEF Ages
    <3>5. Len(record') < Threshold
      BY <2>1, <3>3
    <3>. QED
      BY <3>2, <3>4, <3>5, CountKept
  <2>. QED
    BY <2>2, <2>3
<1>6. CASE SpawnWatchdog
  <2>1. Spawned
    BY <1>6, SpawnEffect
  <2>2. /\ spawned + 1 \in Runs /\ watch' = [watch EXCEPT ![spawned + 1] = "boot"]
        /\ watch[spawned + 1] = "unborn" /\ UNCHANGED <<record, crashes>>
    BY <1>6, <2>1, WatchdogAssumption DEF Spawned, SpawnWatchdog, Shape, ControlOK, Runs
  <2>3. Gone \subseteq Gone'
    BY <2>2, GoneGrows
  <2>. QED
    BY <1>0, <2>2, <2>3, CountKept
<1>7. CASE Tick
  <2>1. /\ record' = Older(record) /\ UNCHANGED watch
        /\ crashes' = [i \in Runs |-> Older(crashes[i])]
    BY <1>7 DEF Tick
  <2>2. ASSUME NEW ages \in Seq(Nat) PROVE Len(Older(ages)) <= Len(ages)
    <3>1. PICK n \in 0 .. Len(ages) : Len(Older(ages)) = Len(ages) - n
      BY OlderSuffix
    <3>. QED
      BY <3>1
  <2>3. Len(record') <= Len(record) /\ \A j \in Runs : Len(crashes'[j]) <= Len(crashes[j])
    BY <2>1, <2>2 DEF Ages
  <2>4. Gone \subseteq Gone'
    BY <2>1 DEF Gone
  <2>. QED
    BY <2>3, <2>4, CountKept
<1>8. CASE RequestShutdown \/ ForceKill
  <2>1. \/ UNCHANGED <<record, watch, crashes>>
        \/ pid # 0 /\ WatchdogEnds(pid) /\ record' \in {record, <<>>}
    BY <1>8 DEF RequestShutdown, ForceKill, RecordKeptOrLost, files, watchdog
  <2>2. pid # 0 => pid \in Runs
    BY WatchdogAssumption DEF Shape, Runs
  <2>. QED
    BY <1>1, <1>3, <2>1, <2>2
<1>9. ASSUME NEW i \in Runs,
             DaemonStep(i) \/ StartupFails(i) \/ Crash(i) \/ Heartbeat(i) \/ HotReload(i)
      PROVE  Counted'
  BY <1>1, <1>9 DEF DaemonStep, ComesUp, NoSession, SessionGone, SaveClean, ExitClean, StartupFails,
                    Crash, Heartbeat, HotReload, files, watchdog
<1>10. CASE \/ StartTeam \/ BuildLayout \/ StartFails \/ CheckSpawned \/ WritePid \/ WritePidFails
            \/ StopTeam \/ RestartIfStale \/ WaitClean \/ WaitGone \/ WaitTimesOut \/ KillSession
            \/ KillSessionFails \/ WriteMarker \/ SessionLost
  BY <1>1, <1>10 DEF StartTeam, BuildLayout, StartFails, CheckSpawned, WritePid, WritePidFails,
                     StopTeam, RestartIfStale, WaitClean, WaitGone, WaitTimesOut, KillSession,
                     KillSessionFails, WriteMarker, SessionLost, files, watchdog
<1>11. ASSUME NEW i \in Runs, StopAtTop(i) \/ StopWatchdog(i) \/ WatchdogFails(i) \/ Killed(i)
       PROVE  Counted'
  BY <1>3, <1>11 DEF StopAtTop, StopWatchdog, WatchdogFails, Killed, RecordKeptOrLost
<1>12. CASE UNCHANGED vars
  BY <1>1, <1>12 DEF vars, files, watchdog
<1>. QED
  BY <1>2, <1>4, <1>5, <1>6, <1>7, <1>8, <1>9, <1>10, <1>11, <1>12
     DEF Next, WatchdogStep, Fault, CommandStep

\* Every step keeps the timers within their limits: Tick waits for a daemon whose
\* wait is over.
LEMMA TimersNext ==
    ASSUME LifeInv, BreakerInv, Timers, [Next]_vars
    PROVE  Timers'
<1>. USE DEF LifeInv, BreakerInv, Timers
<1>0. 0 \in 0 .. MaxBackoff /\ 0 \in 0 .. SessionWait /\ SessionWait \in Nat /\ MaxBackoff \in Nat
  BY WatchdogAssumption
<1>1. CASE UNCHANGED <<left, waited>>
  BY <1>1
<1>2. ASSUME NEW i \in Runs, WatchdogEnds(i), waited' \in {waited, [waited EXCEPT ![i] = 0]}
      PROVE  Timers'
  BY <1>0, <1>2, EndsLimits
<1>3. ASSUME NEW i \in Runs, UNCHANGED left, waited' \in {waited, [waited EXCEPT ![i] = 0]}
      PROVE  Timers'
  BY <1>0, <1>3
<1>4. ASSUME NEW i \in Runs, Observe(i) PROVE Timers'
  <2>. DEFINE ages == Append(crashes[i], 0)
  <2>1. waited' = waited
    BY <1>4 DEF Observe
  <2>2. crashes[i] \in Seq(Nat)
    BY DEF Ages
  <2>3. ages \in Seq(Nat) /\ Len(ages) > 0
    BY <2>2
  <2>. HIDE DEF ages
  <2>4. Backoff(ages) \in 0 .. MaxBackoff
    BY <2>3, BackoffCapped
  <2>5. WatchdogEnds(i) \/ left' = [left EXCEPT ![i] = Backoff(ages)]
    BY <1>4 DEF Observe, ages
  <2>6. CASE WatchdogEnds(i)
    BY <1>2, <2>1, <2>6
  <2>7. CASE left' = [left EXCEPT ![i] = Backoff(ages)]
    BY <2>1, <2>4, <2>7
  <2>. QED
    BY <2>5, <2>6, <2>7
<1>5. CASE Tick
  <2>1. /\ left' = [i \in Runs |-> IF left[i] > 0 THEN left[i] - 1 ELSE 0]
        /\ waited' = [i \in Runs |-> IF child[i] = "starting" THEN waited[i] + 1 ELSE 0]
        /\ \A i \in Runs : child[i] = "starting" => waited[i] # SessionWait
    BY <1>5 DEF Tick, Urgent
  <2>2. ASSUME NEW i \in Runs PROVE (IF left[i] > 0 THEN left[i] - 1 ELSE 0) \in 0 .. MaxBackoff
    <3>1. left[i] \in 0 .. MaxBackoff
      OBVIOUS
    <3>. QED
      BY <1>0, <3>1
  <2>3. ASSUME NEW i \in Runs
        PROVE  (IF child[i] = "starting" THEN waited[i] + 1 ELSE 0) \in 0 .. SessionWait
    <3>1. waited[i] \in 0 .. SessionWait
      OBVIOUS
    <3>. QED
      BY <1>0, <2>1, <3>1
  <2>. QED
    BY <2>1, <2>2, <2>3
<1>6. CASE RequestShutdown \/ ForceKill
  <2>1. waited' = waited
    BY <1>6 DEF RequestShutdown, ForceKill, daemon
  <2>2. \/ UNCHANGED left
        \/ pid # 0 /\ WatchdogEnds(pid)
    BY <1>6 DEF RequestShutdown, ForceKill, watchdog
  <2>3. pid # 0 => pid \in Runs
    BY WatchdogAssumption DEF Shape, Runs
  <2>. QED
    BY <1>1, <1>2, <2>1, <2>2, <2>3
<1>7. ASSUME NEW i \in Runs,
             DaemonStep(i) \/ StartupFails(i) \/ Crash(i) \/ Heartbeat(i) \/ HotReload(i)
      PROVE  Timers'
  BY <1>3, <1>7 DEF DaemonStep, ComesUp, NoSession, SessionGone, SaveClean, ExitClean, StartupFails,
                    Crash, Heartbeat, HotReload, DaemonEnds, watchdog, daemon
<1>8. CASE \/ StartTeam \/ BuildLayout \/ SpawnWatchdog \/ StartFails \/ CheckSpawned \/ WritePid
           \/ WritePidFails \/ StopTeam \/ RestartIfStale \/ WaitClean \/ WaitGone \/ WaitTimesOut
           \/ KillSession \/ KillSessionFails \/ WriteMarker \/ SessionLost
  BY <1>1, <1>8 DEF StartTeam, BuildLayout, SpawnWatchdog, StartFails, CheckSpawned, WritePid,
                    WritePidFails, StopTeam, RestartIfStale, WaitClean, WaitGone, WaitTimesOut,
                    KillSession, KillSessionFails, WriteMarker, SessionLost, daemon, watchdog
<1>9. ASSUME NEW i \in Runs, StopAtTop(i) \/ StopWatchdog(i) \/ WatchdogFails(i) \/ Killed(i)
      PROVE  Timers'
  BY <1>2, <1>9 DEF StopAtTop, StopWatchdog, WatchdogFails, Killed, daemon
<1>10. ASSUME NEW i \in Runs, Boot(i) \/ Launch(i) \/ StopDaemon(i) \/ BackoffEnds(i)
       PROVE  Timers'
  BY <1>3, <1>10 DEF Boot, Launch, StopDaemon, BackoffEnds, daemon
<1>11. CASE UNCHANGED vars
  BY <1>1, <1>11 DEF vars, watchdog, daemon
<1>. QED
  BY <1>4, <1>5, <1>6, <1>7, <1>8, <1>9, <1>10, <1>11 DEF Next, WatchdogStep, Fault, CommandStep

\* Every step leaves a running daemon to a watchdog that polls it, and an exited one
\* to a watchdog that will look at it.
LEMMA HeldNext ==
    ASSUME LifeInv, Held, [Next]_vars
    PROVE  Held'
<1>. USE DEF LifeInv, Held, Watching, Alive
<1>1. CASE UNCHANGED <<watch, child>>
  BY <1>1
<1>2. ASSUME NEW i \in Runs, NEW at, NEW where,
             watch' = [watch EXCEPT ![i] = at], child' = [child EXCEPT ![i] = where],
             \/ at = "poll"
             \/ where = "none"
             \/ at = "gone" /\ where # "dead"
             \/ at = "closing" /\ where = "dead"
      PROVE  Held'
  BY <1>2 DEF Shape
<1>3. ASSUME NEW i \in Runs, UNCHANGED child, NEW at, watch' = [watch EXCEPT ![i] = at],
             \/ at = "top" /\ watch[i] \in {"boot", "backoff"}
             \/ at = "boot" /\ child[i] = "none"
             \/ at = "gone" /\ watch[i] \in {"boot", "top"}
      PROVE  Held'
  BY <1>3 DEF Shape
<1>4. ASSUME NEW i \in Runs, Boot(i) \/ BackoffEnds(i) \/ StopAtTop(i) PROVE Held'
  <2>1. UNCHANGED child
    BY <1>4 DEF Boot, BackoffEnds, StopAtTop, daemon
  <2>2. \/ watch[i] \in {"boot", "backoff"} /\ watch' = [watch EXCEPT ![i] = "top"]
        \/ watch[i] = "top" /\ watch' = [watch EXCEPT ![i] = "gone"]
    BY <1>4 DEF Boot, BackoffEnds, StopAtTop, WatchdogEnds
  <2>3. CASE watch[i] \in {"boot", "backoff"} /\ watch' = [watch EXCEPT ![i] = "top"]
    BY <1>3, <2>1, <2>3
  <2>4. CASE watch[i] = "top" /\ watch' = [watch EXCEPT ![i] = "gone"]
    BY <1>3, <2>1, <2>4
  <2>. QED
    BY <2>2, <2>3, <2>4
<1>5. ASSUME NEW i \in Runs, Launch(i) \/ StopDaemon(i) \/ StopWatchdog(i) PROVE Held'
  BY <1>2, <1>5 DEF Launch, StopDaemon, StopWatchdog, WatchdogEnds, Shape, Phases
<1>6. ASSUME NEW i \in Runs, Observe(i) PROVE Held'
  BY <1>2, <1>6 DEF Observe, WatchdogEnds
<1>7. ASSUME NEW i \in Runs, WatchdogFails(i) PROVE Held'
  BY <1>2, <1>7 DEF WatchdogFails, WatchdogEnds
<1>8. ASSUME NEW i \in Runs, WatchdogEnds(i), Orphan(i) PROVE Held'
  BY <1>2, <1>8 DEF WatchdogEnds, Orphan
<1>9. ASSUME NEW i \in Runs, UNCHANGED watch, NEW where, child' = [child EXCEPT ![i] = where],
             Alive(i) /\ (where = "dead" => Watching(i))
      PROVE  Held'
  BY <1>9 DEF Shape
<1>10. ASSUME NEW i \in Runs, DaemonStep(i) PROVE Held'
  BY <1>9, <1>10 DEF DaemonStep, ComesUp, NoSession, SessionGone, SaveClean, ExitClean, DaemonEnds, watchdog
<1>11. ASSUME NEW i \in Runs, StartupFails(i) \/ Crash(i) \/ HotReload(i) PROVE Held'
  BY <1>9, <1>11 DEF StartupFails, Crash, HotReload, DaemonEnds, watchdog
<1>12. ASSUME NEW i \in Runs, Heartbeat(i) PROVE Held'
  BY <1>1, <1>12 DEF Heartbeat, watchdog, daemon
<1>13. CASE SpawnWatchdog
  <2>1. Spawned
    BY <1>13, SpawnEffect
  <2>2. /\ spawned + 1 \in Runs /\ watch' = [watch EXCEPT ![spawned + 1] = "boot"]
        /\ child[spawned + 1] = "none" /\ UNCHANGED child
    BY <1>13, <2>1, WatchdogAssumption DEF Spawned, SpawnWatchdog, Shape, ControlOK, Runs, daemon
  <2>. QED
    BY <1>3, <2>2
<1>14. CASE RequestShutdown
  <2>1. pid # 0 => pid \in Runs
    BY WatchdogAssumption DEF Shape, Runs
  <2>2. UNCHANGED child
    BY <1>14 DEF RequestShutdown, daemon
  <2>3. UNCHANGED watch \/ (pid # 0 /\ watch[pid] = "boot" /\ watch' = [watch EXCEPT ![pid] = "gone"])
    BY <1>14 DEF RequestShutdown, watchdog, WatchdogEnds
  <2>. QED
    BY <1>1, <1>3, <2>1, <2>2, <2>3
<1>15. CASE ForceKill
  <2>1. pid # 0 => pid \in Runs
    BY WatchdogAssumption DEF Shape, Runs
  <2>2. UNCHANGED <<watch, child>> \/ (pid # 0 /\ WatchdogEnds(pid) /\ Orphan(pid))
    BY <1>15 DEF ForceKill, watchdog
  <2>. QED
    BY <1>1, <1>8, <2>1, <2>2
<1>16. CASE \/ StartTeam \/ BuildLayout \/ StartFails \/ CheckSpawned \/ WritePid \/ WritePidFails
            \/ StopTeam \/ RestartIfStale \/ WaitClean \/ WaitGone \/ WaitTimesOut \/ KillSession
            \/ KillSessionFails \/ WriteMarker \/ SessionLost \/ Tick
  BY <1>1, <1>16 DEF StartTeam, BuildLayout, StartFails, CheckSpawned, WritePid, WritePidFails,
                     StopTeam, RestartIfStale, WaitClean, WaitGone, WaitTimesOut, KillSession,
                     KillSessionFails, WriteMarker, SessionLost, Tick, daemon, watchdog
<1>17. CASE UNCHANGED vars
  BY <1>1, <1>17 DEF vars, watchdog, daemon
<1>18. ASSUME NEW i \in Runs, Killed(i) PROVE Held'
  BY <1>8, <1>18 DEF Killed
<1>. QED
  BY <1>4, <1>5, <1>6, <1>7, <1>10, <1>11, <1>12, <1>13, <1>14, <1>15, <1>16, <1>17, <1>18
     DEF Next, WatchdogStep, Fault, CommandStep

\* A command waits for a watchdog that was spawned.
LEMMA OpOnNext ==
    ASSUME LifeInv, op.on <= spawned, [Next]_vars
    PROVE  op'.on <= spawned'
<1>. USE DEF LifeInv, Shape
<1>0. spawned \in Nat /\ op.on \in Nat /\ pid \in Nat /\ pid <= spawned
  BY WatchdogAssumption
<1>1. op' = op \/ op'.on = 0 \/ op'.on = pid
  <2>1. CASE op' = Idle
    BY <2>1 DEF Idle
  <2>2. ASSUME NEW at, GoTo(at) PROVE op'.on = 0
    BY <2>2 DEF GoTo
  <2>3. ASSUME NEW cmd, NEW at, Begin(cmd, at) PROVE op'.on = 0
    BY <2>3 DEF Begin
  <2>4. ASSUME NEW graceful, Answer(graceful) PROVE op'.on = 0
    BY <2>1, <2>2, <2>4 DEF Answer, Idle
  <2>5. CASE RequestShutdown
    BY <2>4, <2>5 DEF RequestShutdown
  <2>6. CASE WaitClean \/ WaitGone \/ WaitTimesOut
    BY <2>4, <2>6 DEF WaitClean, WaitGone, WaitTimesOut
  <2>7. CASE StartTeam \/ StopTeam \/ RestartIfStale
    BY <2>3, <2>7 DEF StartTeam, StopTeam, RestartIfStale
  <2>8. CASE BuildLayout \/ SpawnWatchdog \/ ForceKill \/ KillSession \/ CheckSpawned
    BY <2>1, <2>2, <2>8 DEF BuildLayout, SpawnWatchdog, ForceKill, KillSession, CheckSpawned
  <2>9. CASE StartFails \/ WritePid \/ WritePidFails \/ KillSessionFails \/ WriteMarker
    BY <2>1, <2>9 DEF StartFails, WritePid, WritePidFails, KillSessionFails, WriteMarker
  <2>10. CASE SessionLost \/ Tick \/ UNCHANGED vars
    BY <2>10 DEF SessionLost, Tick, vars
  <2>11. ASSUME NEW i \in Runs, WatchdogStep(i) \/ DaemonStep(i) \/ Fault(i) PROVE op' = op
    BY <2>11 DEF WatchdogStep, DaemonStep, Fault, Boot, StopAtTop, Launch, StopDaemon, StopWatchdog,
                 Observe, BackoffEnds, ComesUp, NoSession, SessionGone, SaveClean, ExitClean,
                 WatchdogFails, Killed, StartupFails, Crash, Heartbeat, HotReload
  <2>. QED
    BY <2>5, <2>6, <2>7, <2>8, <2>9, <2>10, <2>11 DEF Next, CommandStep
<1>2. spawned' \in {spawned, spawned + 1}
  <2>1. CASE SpawnWatchdog
    BY <2>1 DEF SpawnWatchdog
  <2>2. CASE \/ RequestShutdown \/ WaitClean \/ WaitGone \/ WaitTimesOut \/ StartTeam \/ StopTeam
             \/ RestartIfStale \/ BuildLayout \/ StartFails \/ ForceKill \/ KillSession
             \/ KillSessionFails \/ CheckSpawned \/ WritePid \/ WritePidFails \/ WriteMarker
             \/ SessionLost \/ Tick \/ UNCHANGED vars
    BY <2>2 DEF RequestShutdown, WaitClean, WaitGone, WaitTimesOut, StartTeam, StopTeam,
                RestartIfStale, BuildLayout, StartFails, ForceKill, KillSession, KillSessionFails,
                CheckSpawned, WritePid, WritePidFails, WriteMarker, SessionLost, Tick, vars
  <2>3. ASSUME NEW i \in Runs, WatchdogStep(i) \/ DaemonStep(i) \/ Fault(i) PROVE spawned' = spawned
    BY <2>3 DEF WatchdogStep, DaemonStep, Fault, Boot, StopAtTop, Launch, StopDaemon, StopWatchdog,
                Observe, BackoffEnds, ComesUp, NoSession, SessionGone, SaveClean, ExitClean,
                WatchdogFails, Killed, StartupFails, Crash, Heartbeat, HotReload
  <2>. QED
    BY <2>1, <2>2, <2>3 DEF Next, CommandStep
<1>. QED
  BY <1>0, <1>1, <1>2

\* No process, no record, no time has passed.
LEMMA LimitsInit == Init => Limits
<1>. SUFFICES ASSUME Init PROVE Limits
  OBVIOUS
<1>1. Held
  BY DEF Init, Held, Watching
<1>2. Timers
  BY WatchdogAssumption DEF Init, Timers
<1>3. Gone = {} /\ Cardinality(Gone) = 0
  BY FS_EmptySet DEF Init, Gone
<1>4. record = <<>> /\ (\A i \in Runs : crashes[i] = <<>>) /\ Len(<<>>) = 0
  BY DEF Init
<1>5. Threshold - 1 + 0 \in Nat
  BY WatchdogAssumption
<1>6. Counted
  BY <1>3, <1>4, <1>5 DEF Counted, Fits
<1>7. op.on <= spawned
  BY DEF Init, Idle
<1>. QED
  BY <1>1, <1>2, <1>6, <1>7 DEF Limits

\* Every variable keeps its type and its limit: the crash records grow by one per
\* tripped breaker at most, the back-off keeps to its cap, a daemon waits for the
\* session no longer than it may, and none that has exited is left unreaped.
THEOREM WatchdogTypeCorrect == Spec => []TypeOK
<1>1. LifeInv /\ LifeInv' /\ BreakerInv /\ BreakerInv' /\ Limits /\ [Next]_vars => Limits'
  BY CountNext, TimersNext, HeldNext, OpOnNext DEF Limits
<1>2. LifeInv /\ BreakerInv /\ [Next]_vars => BreakerInv'
  BY BreakerNext
<1>3. ASSUME LifeInv, BreakerInv, Limits PROVE TypeOK
  <2>. USE DEF LifeInv, BreakerInv, Limits
  <2>1. /\ Threshold \in Nat /\ Threshold >= 2 /\ spawned \in Nat /\ op.on \in 0 .. spawned
        /\ Cardinality(Gone) \in Nat /\ Cardinality(Gone) <= spawned
    BY <1>3, WatchdogAssumption, GoneBounded DEF Shape
  <2>2. Len(record) \in Nat /\ Len(record) <= Threshold + spawned
    BY <1>3, <2>1 DEF Ages, Counted, Fits
  <2>3. ASSUME NEW i \in Runs PROVE Len(crashes[i]) < Threshold + spawned
    BY <1>3, <2>1 DEF Ages, Counted, Fits
  <2>4. ASSUME NEW i \in Runs, child[i] = "dead" PROVE Watching(i)
    BY <1>3, <2>4 DEF Held, Watching
  <2>5. ASSUME NEW i \in Runs
        PROVE  left[i] \in 0 .. MaxBackoff /\ waited[i] \in 0 .. SessionWait
    BY <1>3 DEF Timers
  <2>. QED
    BY <1>3, <2>1, <2>2, <2>3, <2>4, <2>5 DEF TypeOK, Shape, Places, Phases, Kinds
<1>. QED
  BY <1>1, <1>2, <1>3, BreakerInit, LimitsInit, LifeInvariant, PTL DEF Spec
=============================================================================
