---------------------------- MODULE MergeProofs ----------------------------
(***************************************************************************)
(* What MergePipeline does for every number of engineers and tasks, every  *)
(* length of the merge queue and any number of crashes: types, the commits *)
(* on task branches, what a failed verification takes back, and who owns   *)
(* what when dispatch begins.                                              *)
(***************************************************************************)
EXTENDS MergePipeline, FiniteSetTheorems, WellFoundedInduction, TLAPS

-----------------------------------------------------------------------------
(* The invariant: beside the types, a merge under way is that of a task and an *)
(* engineer.                                                                   *)

LanesOK ==
    /\ branch \in [Engineers -> Branches]
    /\ work \subseteq Branches \X Tasks
    /\ archived \subseteq Branches \X Tasks

JobOK == step \in {"merge", "verify"} => job.task \in Tasks /\ job.eng \in Engineers

IInv == TypeOK /\ JobOK

\* What TaskWorkKept says of one step.
WorkKept ==
    \A w \in work \ work' :
       (\A e \in Engineers : w[1] # Home(e)) => w \in archived' \/ w[2] \in main'

-----------------------------------------------------------------------------
(* Lanes. *)

\* A checkout archives what the branch had.
LEMMA CheckoutEffect ==
    ASSUME TypeOK, NEW e \in Engineers, NEW b \in Branches, CheckoutFromTrunk(e, b)
    PROVE  LanesOK' /\ WorkKept
<1>1. branch' \in [Engineers -> Branches]
  BY DEF CheckoutFromTrunk, TypeOK
<1>2. work' \subseteq Branches \X Tasks /\ archived' \subseteq Branches \X Tasks
  BY DEF CheckoutFromTrunk, TypeOK
<1>3. \A w \in work \ work' : w \in archived'
  BY DEF CheckoutFromTrunk
<1>. QED
  BY <1>1, <1>2, <1>3 DEF LanesOK, WorkKept

\* Nothing happens to the lanes.
LEMMA LanesSame ==
    ASSUME TypeOK, UNCHANGED lanes
    PROVE  LanesOK' /\ WorkKept
BY DEF TypeOK, lanes, LanesOK, WorkKept

\* A branch of an engineer for a task, and its base branch.
LEMMA BranchType ==
    ASSUME NEW e \in Engineers
    PROVE  Home(e) \in Branches /\ \A t \in Tasks : <<e, t>> \in Branches
BY DEF Home, Branches

\* A launch.
LEMMA LaunchEffect ==
    ASSUME TypeOK, NEW e \in Engineers, NEW t \in Tasks, NEW st, NEW cl, NEW pk, NEW started,
           Launch(e, t, st, cl, pk, started)
    PROVE  LanesOK' /\ WorkKept
<1>1. UNCHANGED lanes \/ CheckoutFromTrunk(e, <<e, t>>)
  BY DEF Launch
<1>. QED
  BY <1>1, CheckoutEffect, LanesSame, BranchType

\* The task's own marker.
LEMMA MarkType ==
    ASSUME NEW e \in Engineers, NEW t \in Tasks, NEW pk \in [Tasks -> Packets]
    PROVE  [pk EXCEPT ![t].branch = <<e, t>>] \in [Tasks -> Packets]
BY BranchType DEF Packets

\* An assignment.
LEMMA AssignEffect ==
    ASSUME TypeOK, NEW e \in Engineers, NEW t \in Tasks, NEW st, NEW cl, NEW pk \in [Tasks -> Packets],
           AssignAs(e, t, st, cl, pk)
    PROVE  LanesOK' /\ WorkKept /\ packet' \in [Tasks -> Packets]
<1>. DEFINE marked == [pk EXCEPT ![t].branch = <<e, t>>]
<1>1. \/ packet' = pk /\ UNCHANGED lanes
      \/ packet' = marked /\ \E started \in BOOLEAN : Launch(e, t, st, cl, marked, started)
  BY DEF AssignAs
<1>2. marked \in [Tasks -> Packets]
  BY MarkType
<1>. HIDE DEF marked
<1>. QED
  BY <1>1, <1>2, LaunchEffect, LanesSame

\* A merge puts what the branch has on main.
LEMMA LandEffect ==
    ASSUME TypeOK, NEW e \in Engineers, NEW returns \in BOOLEAN, Land(e, returns)
    PROVE  LanesOK' /\ WorkKept /\ main' \subseteq Tasks /\ main' = main \cup On(branch[e])
<1>1. branch[e] \in Branches /\ Home(e) \in Branches
  BY BranchType DEF TypeOK
<1>2. main' = main \cup On(branch[e]) /\ On(branch[e]) \subseteq Tasks
  BY DEF Land, On
<1>3. LanesOK'
  BY <1>1 DEF Land, LanesOK, TypeOK
<1>4. ASSUME NEW w \in work \ work', \A o \in Engineers : w[1] # Home(o)
      PROVE  w[2] \in main'
  <2>1. w[1] = branch[e]
    BY <1>4 DEF Land
  <2>2. w = <<w[1], w[2]>> /\ w[2] \in Tasks
    BY DEF TypeOK
  <2>. QED
    BY <1>2, <2>1, <2>2 DEF On
<1>. QED
  BY <1>2, <1>3, <1>4 DEF WorkKept, TypeOK

\* The end of an assignment.
LEMMA ClearEffect ==
    ASSUME TypeOK, NEW e \in Engineers, ClearActive(e)
    PROVE  /\ active' \in [Engineers -> Tasks \cup {NoTask}] /\ retries' \in [Engineers -> 0..2]
           /\ tries' \in [Engineers -> 0..IterationLimit] /\ narrated' \subseteq Tasks
BY PipelineAssumption DEF ClearActive, TypeOK

\* The end of a merge.
LEMMA OverEffect ==
    ASSUME TypeOK, MergeOver
    PROVE  /\ lock' \in {"free", "held", "stale"} /\ step' \in Steps
           /\ job' \in [task : Tasks \cup {NoTask}, eng : Engineers \cup {None}, direct : BOOLEAN,
                        pre : SUBSET Tasks, landed : SUBSET Tasks]
           /\ JobOK'
BY DEF MergeOver, NoJob, Steps, JobOK

-----------------------------------------------------------------------------
(* Reconciliation. *)

\* Whoever has an active task claims it, and it waits for no review.
Settled ==
    \A e \in Engineers :
       active[e] # NoTask => claim[active[e]] = e /\ status[active[e]] \notin {"review", "done"}

\* One round gives every engineer a task it claims, or none, and archives what it
\* removes from a base branch.
LEMMA ReconcileEffect ==
    ASSUME TypeOK, NEW audit \in BOOLEAN, Reconcile(audit)
    PROVE  /\ status' \in [Tasks -> Statuses] /\ claim' \in [Tasks -> Engineers \cup {None}]
           /\ active' \in [Engineers -> Tasks \cup {NoTask}] /\ retries' \in [Engineers -> 0..2]
           /\ tries' \in [Engineers -> 0..IterationLimit] /\ narrated' \subseteq Tasks
           /\ UNCHANGED <<flagged, packet>>
           /\ LanesOK' /\ WorkKept /\ Settled'
<1>. DEFINE released == {t \in Tasks : /\ status[t] \in {"review", "blocked"}
                                       /\ \E e \in Stale : active[e] = t}
            cl == [t \in Tasks |-> IF t \in released THEN None ELSE claim[t]]
            ended == {e \in Stale : status[active[e]] = "done"}
            owned(e) == Owned(e, status, cl)
            kept(e) == IF e \in Stale THEN NoTask ELSE active[e]
            choice(e) == IF owned(e) = {} THEN {kept(e)}
                         ELSE IF kept(e) \in owned(e) THEN {kept(e)} ELSE owned(e)
            align(e) == /\ audit
                        /\ active'[e] \in owned(e)
                        /\ \A o \in Engineers \ {e} : branch[o] # BranchFor(e, active'[e], packet)
            excess == {t \in Tasks : \E e \in Engineers :
                          /\ t \in owned(e) \ {active'[e]}
                          /\ packet[t].outcome # "retry"}
<1>1. /\ active' \in [Engineers -> Tasks \cup {NoTask}]
      /\ \A e \in Engineers : active'[e] \in choice(e)
      /\ status' = [t \in Tasks |-> IF t \in excess THEN "todo" ELSE status[t]]
      /\ claim'  = [t \in Tasks |-> IF t \in excess THEN None ELSE cl[t]]
      /\ retries'  = [e \in Engineers |-> IF e \in Stale THEN 0 ELSE retries[e]]
      /\ tries'    = [e \in Engineers |-> IF e \in Stale THEN 0 ELSE tries[e]]
      /\ narrated' = narrated \ {active[e] : e \in Stale}
      /\ branch' = [e \in Engineers |->
                       IF align(e) THEN BranchFor(e, active'[e], packet)
                       ELSE IF e \in ended THEN Home(e) ELSE branch[e]]
      /\ archived' = {w \in work : \E e \in ended : w[1] = Home(e)}
      /\ work' = work \ archived'
      /\ UNCHANGED <<flagged, packet>>
  BY DEF Reconcile
<1>2. cl \in [Tasks -> Engineers \cup {None}]
  BY DEF TypeOK
<1>3. \A e \in Engineers : owned(e) = {t \in Tasks : cl[t] = e /\ status[t] \notin {"review", "done"}}
  BY DEF Owned
<1>4. status' \in [Tasks -> Statuses] /\ claim' \in [Tasks -> Engineers \cup {None}]
  <2>. HIDE DEF excess, cl
  <2>. QED
    BY <1>1, <1>2 DEF TypeOK, Statuses
<1>5. retries' \in [Engineers -> 0..2] /\ tries' \in [Engineers -> 0..IterationLimit]
  BY <1>1, PipelineAssumption DEF TypeOK
<1>6. narrated' \subseteq Tasks
  BY <1>1 DEF TypeOK
<1>7. LanesOK'
  <2>1. ASSUME NEW e \in Engineers, align(e) PROVE BranchFor(e, active'[e], packet) \in Branches
    <3>1. active'[e] \in Tasks
      BY <1>3, <2>1
    <3>. QED
      BY <3>1, BranchType DEF BranchFor, TypeOK, Packets
  <2>2. \A e \in Engineers : Home(e) \in Branches /\ branch[e] \in Branches
    BY BranchType DEF TypeOK
  <2>. HIDE DEF align, ended
  <2>3. branch' \in [Engineers -> Branches]
    BY <1>1, <2>1, <2>2
  <2>. QED
    BY <1>1, <2>3 DEF LanesOK, TypeOK
<1>8. WorkKept
  BY <1>1 DEF WorkKept
<1>9. Settled'
  <2>. SUFFICES ASSUME NEW e \in Engineers, active'[e] # NoTask
                PROVE  claim'[active'[e]] = e /\ status'[active'[e]] \notin {"review", "done"}
    BY DEF Settled
  <2>1. active'[e] \in owned(e)
    <3>1. CASE owned(e) = {}
      <4>1. e \notin Stale /\ active'[e] = active[e]
        BY <1>1, <3>1
      <4>2. active[e] \in Tasks /\ claim[active[e]] = e
            /\ status[active[e]] \notin {"review", "blocked", "done"}
        BY <1>1, <4>1 DEF Stale
      <4>3. cl[active[e]] = e
        BY <4>2
      <4>. QED
        BY <1>3, <4>1, <4>2, <4>3
    <3>2. CASE owned(e) # {}
      BY <1>1, <3>2
    <3>. QED
      BY <3>1, <3>2
  <2>2. /\ active'[e] \in Tasks /\ cl[active'[e]] = e
        /\ status[active'[e]] \notin {"review", "done"}
    BY <1>3, <2>1
  <2>3. active'[e] \notin excess
    BY <1>3, <2>2
  <2>. HIDE DEF excess, cl
  <2>. QED
    BY <1>1, <2>2, <2>3
<1>. QED
  BY <1>1, <1>4, <1>5, <1>6, <1>7, <1>8, <1>9

-----------------------------------------------------------------------------
(* A restart. *)

\* A set of tasks that is not empty has a last one.
LEMMA LastExists ==
    ASSUME NEW T \in SUBSET Tasks, T # {}
    PROVE  \E x \in T : \A y \in T : y <= x
<1>. DEFINE D == {d \in Nat : NTasks - d \in T}
            R == OpToRel(<, Nat)
<1>. USE PipelineAssumption DEF Tasks
<1>1. D \subseteq Nat /\ D # {}
  <2>1. PICK x \in T : TRUE
    OBVIOUS
  <2>2. NTasks - x \in Nat /\ NTasks - (NTasks - x) = x
    OBVIOUS
  <2>. QED
    BY <2>1, <2>2
<1>2. IsWellFoundedOn(R, Nat)
  BY NatLessThanWellFounded
<1>. HIDE DEF R, D
<1>3. PICK d \in D : \A y \in D : ~ (<<y, d>> \in R)
  BY <1>1, <1>2, WFMin
<1>4. \A y \in D : ~ (y < d)
  BY <1>1, <1>3 DEF R, OpToRel
<1>5. d \in Nat /\ NTasks - d \in T
  BY DEF D
<1>6. ASSUME NEW y \in T PROVE y <= NTasks - d
  <2>1. y \in 1 .. NTasks /\ NTasks - y \in Nat /\ NTasks - (NTasks - y) = y
    OBVIOUS
  <2>2. NTasks - y \in D
    BY <2>1 DEF D
  <2>. QED
    BY <1>4, <1>5, <2>1, <2>2
<1>. QED
  BY <1>5, <1>6

\* The restart keeps the types.
LEMMA RestartEffect ==
    ASSUME TypeOK, Restart
    PROVE  IInv' /\ WorkKept
<1>. DEFINE held(e)  == {t \in Tasks : claim[t] = e /\ status[t] = "in-progress"}
            rank(t)  == Cardinality({u \in held(claim[t]) : u <= t})
            undone   == {t \in Tasks : /\ claim[t] # None
                                       /\ status[t] = "in-progress"
                                       /\ rank(t) % 2 = 0}
            last(e)  == CHOOSE t \in held(e) : \A u \in held(e) : u <= t
<1>1. /\ step' = "poll"
      /\ active' = [e \in Engineers |->
                       IF Cardinality(held(e)) % 2 = 1 THEN last(e) ELSE NoTask]
      /\ status' = [t \in Tasks |-> IF t \in undone THEN "todo" ELSE status[t]]
      /\ claim' = [t \in Tasks |-> IF t \in undone THEN None ELSE claim[t]]
      /\ UNCHANGED <<flagged, packet, retries, tries, narrated, lanes, queue, job, reset,
                     crashes, main, root, lock>>
  BY DEF Restart
<1>2. ASSUME NEW e \in Engineers, Cardinality(held(e)) % 2 = 1 PROVE last(e) \in Tasks
  <2>1. held(e) # {}
    <3>1. Cardinality({}) = 0 /\ 0 % 2 # 1
      BY FS_EmptySet
    <3>. QED
      BY <1>2, <3>1
  <2>2. held(e) \subseteq Tasks
    OBVIOUS
  <2>. HIDE DEF held
  <2>3. \E x \in held(e) : \A y \in held(e) : y <= x
    BY <2>1, <2>2, LastExists
  <2>. QED
    BY <2>2, <2>3
<1>. HIDE DEF held, last, undone
<1>3. active' \in [Engineers -> Tasks \cup {NoTask}]
  BY <1>1, <1>2
<1>4. status' \in [Tasks -> Statuses] /\ claim' \in [Tasks -> Engineers \cup {None}]
  BY <1>1 DEF TypeOK, Statuses
<1>5. LanesOK' /\ WorkKept
  BY <1>1, LanesSame
<1>. QED
  BY <1>1, <1>3, <1>4, <1>5 DEF IInv, TypeOK, LanesOK, JobOK, Steps, lanes

-----------------------------------------------------------------------------
(* Completions. *)

\* A completion of e that is not rejected.
LEMMA PacketTypes ==
    ASSUME TypeOK, NEW e \in Engineers, NEW t \in Tasks
    PROVE  /\ Passed(t) \in [Tasks -> Packets] /\ Recorded(e, t) \in [Tasks -> Packets]
           /\ \A o \in Outcomes : [packet EXCEPT ![t].outcome = o] \in [Tasks -> Packets]
<1>1. branch[e] \in Branches /\ "passed" \in Outcomes
  BY DEF TypeOK, Outcomes
<1>. QED
  BY <1>1 DEF TypeOK, Packets, Passed, Recorded

\* A move to review changes the board only, within its types.
LEMMA ReviewEffect ==
    ASSUME TypeOK, NEW e \in Engineers, NEW t \in Tasks, NEW pk \in [Tasks -> Packets],
           ToReview(e, t, pk)
    PROVE  /\ status' \in [Tasks -> Statuses] /\ claim' \in [Tasks -> Engineers \cup {None}]
           /\ flagged' \subseteq Tasks /\ packet' \in [Tasks -> Packets]
<1>1. ReviewOf(status[t]) \in Statuses
  BY DEF ReviewOf, Transition, Statuses, TypeOK
<1>. QED
  BY <1>1 DEF ToReview, TypeOK

\* A rejected completion.
LEMMA RejectedKeeps ==
    ASSUME IInv, NEW e \in Engineers, NEW outcome \in {"retry", "evidence"}, NEW narration \in BOOLEAN,
           CompleteRejected(e, outcome, narration)
    PROVE  IInv' /\ WorkKept
<1>. USE DEF IInv
<1>. DEFINE t == active[e]
            escalate == Escalates(e, narration)
            pk == [packet EXCEPT ![t].outcome = IF escalate THEN "escalated" ELSE outcome]
<1>1. /\ Completing(e) /\ AssignAs(e, t, status, claim, pk)
      /\ UNCHANGED <<claim, step, queue, job, reset, crashes, main, root, lock>>
  BY DEF CompleteRejected
<1>2. t \in Tasks
  BY <1>1 DEF Completing, TypeOK
<1>3. pk \in [Tasks -> Packets]
  BY <1>2, PacketTypes DEF Outcomes
<1>4. LanesOK' /\ WorkKept /\ packet' \in [Tasks -> Packets]
  <2>. HIDE DEF pk, t
  <2>. QED
    BY <1>1, <1>2, <1>3, AssignEffect
<1>5. /\ status' \in [Tasks -> Statuses] /\ flagged' \subseteq Tasks
      /\ active' \in [Engineers -> Tasks \cup {NoTask}] /\ retries' \in [Engineers -> 0..2]
      /\ tries' \in [Engineers -> 0..IterationLimit] /\ narrated' \subseteq Tasks
  <2>1. CASE /\ tries' = [tries EXCEPT ![e] = IF @ < IterationLimit THEN @ + 1 ELSE @]
             /\ narrated' = IF narration THEN narrated \cup {t} ELSE narrated
             /\ UNCHANGED <<status, flagged, active, retries>>
    BY <1>2, <2>1, PipelineAssumption DEF TypeOK
  <2>2. CASE /\ status' = [status EXCEPT ![t] = "blocked"]
             /\ flagged' = flagged \cup {t}
             /\ ClearActive(e)
    BY <1>2, <2>2, ClearEffect DEF TypeOK, Statuses
  <2>3. CASE /\ tries' = [tries EXCEPT ![e] = 0]
             /\ narrated' = IF narration THEN narrated \cup {t} ELSE narrated
             /\ UNCHANGED <<status, flagged, active, retries>>
    BY <1>2, <2>3, PipelineAssumption DEF TypeOK
  <2>. QED
    BY <2>1, <2>2, <2>3 DEF CompleteRejected
<1>. HIDE DEF t, pk, escalate
<1>. QED
  BY <1>1, <1>4, <1>5 DEF TypeOK, LanesOK, JobOK

\* No completion breaks the types or a task's branch.
LEMMA CompleteKeeps ==
    ASSUME IInv, NEW e \in Engineers, Complete(e)
    PROVE  IInv' /\ WorkKept
<1>. USE DEF IInv
<1>1. active[e] \in Tasks /\ step = "poll"
  BY DEF Complete, CompleteRecovery, CompleteRejected, CompletionErrors, CompleteQueued,
         CompleteForReview, CompleteDirect, CompletePassed, Completing, TypeOK
<1>2. [tries EXCEPT ![e] = 0] \in [Engineers -> 0..IterationLimit]
  BY PipelineAssumption DEF TypeOK
<1>3. CASE CompleteRecovery(e)
  <2>1. PICK t \in ScopeOf(e) : \E b \in RecoveryBranches(e, t) :
          packet' = [packet EXCEPT ![active[e]] = [branch |-> b, outcome |-> "recovery"]]
    BY <1>3 DEF CompleteRecovery
  <2>2. PICK b \in RecoveryBranches(e, t) :
          packet' = [packet EXCEPT ![active[e]] = [branch |-> b, outcome |-> "recovery"]]
    BY <2>1
  <2>3. t \in Tasks
    BY DEF ScopeOf, ByBranch, ByTree, Claimed
  <2>4. b \in Branches
    BY <2>3, BranchType DEF RecoveryBranches, BranchFor, TypeOK, Packets
  <2>5. packet' \in [Tasks -> Packets]
    BY <1>1, <2>2, <2>4 DEF TypeOK, Packets, Outcomes
  <2>6. /\ tries' = [tries EXCEPT ![e] = 0]
        /\ UNCHANGED <<status, claim, flagged, active, retries, narrated, lanes, step,
                       queue, job, reset, crashes, main, root, lock>>
    BY <1>3 DEF CompleteRecovery
  <2>7. LanesOK' /\ WorkKept
    BY <2>6, LanesSame
  <2>. QED
    BY <1>2, <2>5, <2>6, <2>7 DEF TypeOK, LanesOK, JobOK
<1>4. CASE \E o \in {"retry", "evidence"}, n \in BOOLEAN : CompleteRejected(e, o, n)
  BY <1>4, RejectedKeeps
<1>5. CASE CompletionErrors(e)
  <2>1. /\ tries' = [tries EXCEPT ![e] = 0]
        /\ UNCHANGED <<board, active, retries, narrated, lanes, step, queue, job, reset,
                       crashes, main, root, lock>>
    BY <1>5 DEF CompletionErrors
  <2>2. LanesOK' /\ WorkKept
    BY <2>1, LanesSame
  <2>. QED
    BY <1>2, <2>1, <2>2 DEF TypeOK, LanesOK, JobOK, board
<1>6. CASE CompleteQueued(e)
  <2>1. /\ ToReview(e, active[e], Recorded(e, active[e])) /\ Len(queue) < MaxQueue
        /\ queue' = Append(queue, [task |-> active[e], eng |-> e, branch |-> branch[e]])
        /\ tries' = [tries EXCEPT ![e] = 0]
        /\ narrated' = narrated \ {active[e]}
        /\ UNCHANGED <<active, retries, lanes, step, job, reset, crashes, main, root, lock>>
    BY <1>6 DEF CompleteQueued
  <2>2. /\ status' \in [Tasks -> Statuses] /\ claim' \in [Tasks -> Engineers \cup {None}]
        /\ flagged' \subseteq Tasks /\ packet' \in [Tasks -> Packets]
    BY <1>1, <2>1, PacketTypes, ReviewEffect
  <2>3. queue' \in Seq(Requests) /\ Len(queue') <= MaxQueue
    <3>1. [task |-> active[e], eng |-> e, branch |-> branch[e]] \in Requests
      BY <1>1 DEF Requests, TypeOK
    <3>. QED
      BY <2>1, <3>1, PipelineAssumption DEF TypeOK
  <2>4. LanesOK' /\ WorkKept
    BY <2>1, LanesSame
  <2>. QED
    BY <1>2, <2>1, <2>2, <2>3, <2>4 DEF TypeOK, LanesOK, JobOK
<1>7. CASE \E d \in {"queue", "manual", "override"} : CompleteForReview(e, d)
  <2>1. /\ \/ ToReview(e, active[e], Recorded(e, active[e]))
           \/ ToReview(e, active[e], Passed(active[e]))
        /\ ClearActive(e)
        /\ UNCHANGED <<lanes, step, queue, job, reset, crashes, main, root, lock>>
    BY <1>7 DEF CompleteForReview
  <2>2. /\ status' \in [Tasks -> Statuses] /\ claim' \in [Tasks -> Engineers \cup {None}]
        /\ flagged' \subseteq Tasks /\ packet' \in [Tasks -> Packets]
    BY <1>1, <2>1, PacketTypes, ReviewEffect
  <2>3. LanesOK' /\ WorkKept
    BY <2>1, LanesSame
  <2>4. /\ active' \in [Engineers -> Tasks \cup {NoTask}] /\ retries' \in [Engineers -> 0..2]
        /\ tries' \in [Engineers -> 0..IterationLimit] /\ narrated' \subseteq Tasks
    BY <2>1, ClearEffect
  <2>. QED
    BY <2>1, <2>2, <2>3, <2>4 DEF TypeOK, LanesOK, JobOK
<1>8. CASE CompleteDirect(e)
  <2>1. /\ packet' = Passed(active[e])
        /\ tries' = [tries EXCEPT ![e] = 0]
        /\ narrated' = narrated \ {active[e]}
        /\ UNCHANGED <<status, claim, flagged, active, retries, lanes, queue, reset,
                       crashes, main, root>>
    BY <1>8 DEF CompleteDirect
  <2>2. \/ /\ lock' = "held" /\ step' = "merge"
           /\ job' = [NoJob EXCEPT !.task = active[e], !.eng = e, !.direct = TRUE]
        \/ UNCHANGED <<lock, step, job>>
    BY <1>8 DEF CompleteDirect
  <2>3. /\ lock' \in {"free", "held", "stale"} /\ step' \in Steps /\ JobOK'
        /\ job' \in [task : Tasks \cup {NoTask}, eng : Engineers \cup {None}, direct : BOOLEAN,
                     pre : SUBSET Tasks, landed : SUBSET Tasks]
    <3>1. CASE UNCHANGED <<lock, step, job>>
      BY <3>1 DEF TypeOK, JobOK
    <3>2. CASE /\ lock' = "held" /\ step' = "merge"
               /\ job' = [NoJob EXCEPT !.task = active[e], !.eng = e, !.direct = TRUE]
      BY <1>1, <3>2 DEF NoJob, Steps, JobOK
    <3>. QED
      BY <2>2, <3>1, <3>2
  <2>4. packet' \in [Tasks -> Packets] /\ narrated' \subseteq Tasks
    BY <1>1, <2>1, PacketTypes DEF TypeOK
  <2>5. LanesOK' /\ WorkKept
    BY <2>1, LanesSame
  <2>. QED
    BY <1>2, <2>1, <2>3, <2>4, <2>5 DEF TypeOK, LanesOK
<1>. QED
  BY <1>3, <1>4, <1>5, <1>6, <1>7, <1>8 DEF Complete

-----------------------------------------------------------------------------
(* The merge queue. *)

\* A request that leaves the queue.
LEMMA RequestType ==
    ASSUME TypeOK, Processing
    PROVE  /\ Request \in Requests /\ Request.task \in Tasks /\ Request.eng \in Engineers
           /\ Tail(queue) \in Seq(Requests) /\ Len(Tail(queue)) <= MaxQueue
<1>1. queue \in Seq(Requests) /\ queue # <<>> /\ Len(queue) <= MaxQueue
  BY DEF TypeOK, Processing
<1>2. Request \in Requests /\ Tail(queue) \in Seq(Requests) /\ Len(Tail(queue)) = Len(queue) - 1
  BY <1>1 DEF Request
<1>3. Len(Tail(queue)) <= MaxQueue
  <2>1. Len(queue) \in Nat
    BY <1>1
  <2>. QED
    BY <1>1, <1>2, <2>1, PipelineAssumption
<1>. QED
  BY <1>2, <1>3 DEF Requests

\* The turn of a merge request, whatever becomes of the request.
LEMMA QueueKeeps ==
    ASSUME IInv, ProcessMergeQueue
    PROVE  IInv' /\ WorkKept
<1>. USE DEF IInv
<1>1. CASE QueueEmpty \/ SkipRequest \/ QueueErrors
  <2>1. /\ step' = "reconcile"
        /\ UNCHANGED <<board, daemon, lanes, job, reset, crashes, main, root, lock>>
    BY <1>1 DEF QueueEmpty, SkipRequest, QueueErrors
  <2>2. queue' \in Seq(Requests) /\ Len(queue') <= MaxQueue
    <3>1. <<>> \in Seq(Requests) /\ Len(<<>>) <= MaxQueue
      BY PipelineAssumption
    <3>. QED
      BY <1>1, <3>1, RequestType DEF QueueEmpty, SkipRequest, QueueErrors, TypeOK
  <2>3. LanesOK' /\ WorkKept
    BY <2>1, LanesSame
  <2>. QED
    BY <2>1, <2>2, <2>3 DEF TypeOK, LanesOK, JobOK, Steps, board, daemon
<1>2. CASE RedispatchRetry
  <2>. DEFINE r  == Request
              st == [status EXCEPT ![r.task] = "in-progress"]
              cl == [claim EXCEPT ![r.task] = r.eng]
  <2>1. /\ Processing /\ status' = st /\ claim' = cl /\ flagged' = flagged \ {r.task}
        /\ AssignAs(r.eng, r.task, st, cl, packet)
        /\ active' = [active EXCEPT ![r.eng] = r.task]
        /\ queue' = Tail(queue)
        /\ step' = "reconcile"
        /\ UNCHANGED <<retries, tries, narrated, job, reset, crashes, main, root, lock>>
    BY <1>2 DEF RedispatchRetry
  <2>2. /\ r.task \in Tasks /\ r.eng \in Engineers
        /\ queue' \in Seq(Requests) /\ Len(queue') <= MaxQueue
    BY <2>1, RequestType
  <2>3. packet \in [Tasks -> Packets]
    BY DEF TypeOK
  <2>4. /\ status' \in [Tasks -> Statuses] /\ claim' \in [Tasks -> Engineers \cup {None}]
        /\ active' \in [Engineers -> Tasks \cup {NoTask}] /\ flagged' \subseteq Tasks
    BY <2>1, <2>2 DEF TypeOK, Statuses
  <2>. HIDE DEF r, st, cl
  <2>5. LanesOK' /\ WorkKept /\ packet' \in [Tasks -> Packets]
    BY <2>1, <2>2, <2>3, AssignEffect
  <2>. QED
    BY <2>1, <2>2, <2>4, <2>5 DEF TypeOK, LanesOK, JobOK, Steps
<1>3. CASE BlockedByDirtyMain
  <2>1. /\ Processing /\ flagged' = flagged \cup {Request.task} /\ queue' = Tail(queue)
        /\ step' = "reconcile"
        /\ UNCHANGED <<status, claim, packet, daemon, lanes, job, reset, crashes, main, root, lock>>
    BY <1>3 DEF BlockedByDirtyMain
  <2>2. flagged' \subseteq Tasks /\ queue' \in Seq(Requests) /\ Len(queue') <= MaxQueue
    BY <2>1, RequestType DEF TypeOK
  <2>3. LanesOK' /\ WorkKept
    BY <2>1, LanesSame
  <2>. QED
    BY <2>1, <2>2, <2>3 DEF TypeOK, LanesOK, JobOK, Steps, daemon
<1>4. CASE StartMerge
  <2>1. /\ Processing /\ lock' = "held" /\ queue' = Tail(queue) /\ step' = "merge"
        /\ job' = [task |-> Request.task, eng |-> Request.eng, direct |-> FALSE,
                   pre |-> main, landed |-> {}]
        /\ UNCHANGED <<board, daemon, lanes, reset, crashes, main, root>>
    BY <1>4 DEF StartMerge, PreMergeHead
  <2>2. /\ Request.task \in Tasks /\ Request.eng \in Engineers
        /\ queue' \in Seq(Requests) /\ Len(queue') <= MaxQueue
    BY <2>1, RequestType
  <2>3. /\ JobOK'
        /\ job' \in [task : Tasks \cup {NoTask}, eng : Engineers \cup {None}, direct : BOOLEAN,
                     pre : SUBSET Tasks, landed : SUBSET Tasks]
    BY <2>1, <2>2 DEF JobOK, TypeOK
  <2>4. LanesOK' /\ WorkKept
    BY <2>1, LanesSame
  <2>. QED
    BY <2>1, <2>2, <2>3, <2>4 DEF TypeOK, LanesOK, Steps, board, daemon
<1>. QED
  BY <1>1, <1>2, <1>3, <1>4 DEF ProcessMergeQueue

-----------------------------------------------------------------------------
(* The merge. *)

\* The end of a merge: board and counters keep their types.
LEMMA FinishEffect ==
    ASSUME IInv, step \in {"merge", "verify"}, NEW ok \in BOOLEAN, Finish(ok)
    PROVE  /\ status' \in [Tasks -> Statuses] /\ flagged' \subseteq Tasks
           /\ UNCHANGED <<claim, packet>> /\ MergeOver
           /\ active' \in [Engineers -> Tasks \cup {NoTask}] /\ retries' \in [Engineers -> 0..2]
           /\ tries' \in [Engineers -> 0..IterationLimit] /\ narrated' \subseteq Tasks
<1>1. job.task \in Tasks /\ job.eng \in Engineers /\ TypeOK
  BY DEF IInv, JobOK
<1>2. /\ active' \in [Engineers -> Tasks \cup {NoTask}] /\ retries' \in [Engineers -> 0..2]
      /\ tries' \in [Engineers -> 0..IterationLimit] /\ narrated' \subseteq Tasks
  <2>1. ClearActive(job.eng)
    BY DEF Finish
  <2>. QED
    BY <1>1, <2>1, ClearEffect
<1>3. status' \in [Tasks -> Statuses] /\ flagged' \subseteq Tasks
  BY <1>1 DEF Finish, TypeOK, Statuses
<1>. QED
  BY <1>2, <1>3 DEF Finish

\* The merge, its failures, the verification and the revert.
LEMMA MergeKeeps ==
    ASSUME IInv, Merge
    PROVE  IInv' /\ WorkKept
<1>. USE DEF IInv
<1>1. step \in {"merge", "verify"} /\ job.task \in Tasks /\ job.eng \in Engineers
  BY DEF Merge, MergeConflict, MergeFails, MergeErrors, MergeLands, VerifyPasses, VerifyFails, JobOK
<1>2. CASE MergeConflict
  <2>1. /\ MergeOver
        /\ UNCHANGED <<status, claim, packet, lanes, queue, reset, crashes, main, root>>
    BY <1>2 DEF MergeConflict
  <2>2. /\ flagged' \subseteq Tasks
        /\ active' \in [Engineers -> Tasks \cup {NoTask}] /\ retries' \in [Engineers -> 0..2]
        /\ tries' \in [Engineers -> 0..IterationLimit] /\ narrated' \subseteq Tasks
    <3>1. CASE /\ retries[job.eng] + 1 <= 2
               /\ retries' = [retries EXCEPT ![job.eng] = retries[job.eng] + 1]
               /\ UNCHANGED <<flagged, active, tries, narrated>>
      <4>1. retries \in [Engineers -> 0..2] /\ retries[job.eng] + 1 \in 0..2
        <5>1. retries \in [Engineers -> 0..2] /\ retries[job.eng] \in 0..2
          BY <1>1 DEF TypeOK
        <5>2. \A n \in 0..2 : n + 1 <= 2 => n + 1 \in 0..2
          OBVIOUS
        <5>. QED
          BY <3>1, <5>1, <5>2
      <4>2. retries' \in [Engineers -> 0..2]
        BY <3>1, <4>1
      <4>. QED
        BY <3>1, <4>2 DEF TypeOK
    <3>2. CASE flagged' \in {flagged, flagged \cup {job.task}} /\ ClearActive(job.eng)
      BY <1>1, <3>2, ClearEffect DEF TypeOK
    <3>. QED
      BY <1>2, <3>1, <3>2 DEF MergeConflict, ConflictLimit
  <2>3. LanesOK' /\ WorkKept
    BY <2>1, LanesSame
  <2>. QED
    BY <2>1, <2>2, <2>3, OverEffect DEF TypeOK, LanesOK
<1>3. CASE MergeFails
  <2>1. ClearActive(job.eng) /\ MergeOver /\ UNCHANGED <<board, lanes, queue, reset, crashes, main, root>>
    BY <1>3 DEF MergeFails
  <2>2. LanesOK' /\ WorkKept
    BY <2>1, LanesSame
  <2>3. /\ active' \in [Engineers -> Tasks \cup {NoTask}] /\ retries' \in [Engineers -> 0..2]
        /\ tries' \in [Engineers -> 0..IterationLimit] /\ narrated' \subseteq Tasks
    BY <1>1, <2>1, ClearEffect
  <2>. QED
    BY <2>1, <2>2, <2>3, OverEffect DEF TypeOK, LanesOK, board
<1>4. CASE MergeErrors
  <2>1. MergeOver /\ UNCHANGED <<board, daemon, lanes, reset, crashes, main, root>>
    BY <1>4 DEF MergeErrors
  <2>2. queue' \in Seq(Requests) /\ Len(queue') <= MaxQueue
    <3>1. <<>> \in Seq(Requests) /\ Len(<<>>) <= MaxQueue
      BY PipelineAssumption
    <3>. QED
      BY <1>4, <3>1 DEF MergeErrors, TypeOK
  <2>3. LanesOK' /\ WorkKept
    BY <2>1, LanesSame
  <2>. QED
    BY <2>1, <2>2, <2>3, OverEffect DEF TypeOK, LanesOK, board, daemon
<1>5. ASSUME NEW returns \in BOOLEAN, MergeLands(returns) PROVE IInv' /\ WorkKept
  <2>1. step = "merge" /\ Land(job.eng, returns) /\ UNCHANGED <<queue, reset, crashes, root>>
    BY <1>5 DEF MergeLands
  <2>2. LanesOK' /\ WorkKept /\ main' \subseteq Tasks
    BY <1>1, <2>1, LandEffect
  <2>3. CASE \E ok \in BOOLEAN : Finish(ok)
    BY <1>1, <2>1, <2>2, <2>3, FinishEffect, OverEffect DEF TypeOK, LanesOK
  <2>4. CASE /\ step' = "verify"
             /\ job' = [job EXCEPT !.landed = Ahead(job.eng)]
             /\ UNCHANGED <<board, daemon, lock>>
    <3>1. Ahead(job.eng) \in SUBSET Tasks
      BY DEF Ahead, On
    <3>2. job \in [task : Tasks \cup {NoTask}, eng : Engineers \cup {None}, direct : BOOLEAN,
                   pre : SUBSET Tasks, landed : SUBSET Tasks]
      BY DEF TypeOK
    <3>3. /\ job' \in [task : Tasks \cup {NoTask}, eng : Engineers \cup {None}, direct : BOOLEAN,
                       pre : SUBSET Tasks, landed : SUBSET Tasks]
          /\ job'.task = job.task /\ job'.eng = job.eng
      BY <2>4, <3>1, <3>2
    <3>4. JobOK' /\ step' \in Steps
      BY <1>1, <2>4, <3>3 DEF JobOK, Steps
    <3>. QED
      BY <2>1, <2>2, <2>4, <3>3, <3>4 DEF TypeOK, LanesOK, board, daemon
  <2>. QED
    BY <1>5, <2>3, <2>4 DEF MergeLands
<1>6. CASE VerifyPasses
  <2>1. Finish(TRUE) /\ UNCHANGED <<lanes, queue, reset, crashes, main, root>>
    BY <1>6 DEF VerifyPasses
  <2>2. LanesOK' /\ WorkKept
    BY <2>1, LanesSame
  <2>. QED
    BY <1>1, <2>1, <2>2, FinishEffect, OverEffect DEF TypeOK, LanesOK
<1>7. CASE VerifyFails
  <2>1. /\ main' = ResetMainTo(job.pre) /\ root' = (IF root = "dirty" THEN "main" ELSE root)
        /\ MergeOver /\ UNCHANGED <<board, daemon, lanes, queue, reset, crashes>>
    BY <1>7 DEF VerifyFails
  <2>2. main' \subseteq Tasks /\ root' \in {"main", "dirty", "other"}
    BY <2>1 DEF ResetMainTo, TypeOK
  <2>3. LanesOK' /\ WorkKept
    BY <2>1, LanesSame
  <2>. QED
    BY <2>1, <2>2, <2>3, OverEffect DEF TypeOK, LanesOK, board, daemon
<1>. QED
  BY <1>2, <1>3, <1>4, <1>5, <1>6, <1>7 DEF Merge

-----------------------------------------------------------------------------
(* Every step, and the initial state. *)

\* No step breaks a type, and none drops the commits of a task's branch.
LEMMA StepKeeps ==
    ASSUME IInv, Next
    PROVE  IInv' /\ WorkKept
<1>. USE DEF IInv
<1>1. ASSUME NEW e \in Engineers, Complete(e) PROVE IInv' /\ WorkKept
  BY <1>1, CompleteKeeps
<1>2. CASE EndPoll \/ EndTick
  <2>1. /\ step' \in {"queue", "poll"} /\ reset' \in {reset, {}}
        /\ UNCHANGED <<board, daemon, lanes, queue, job, crashes, main, root, lock>>
    BY <1>2 DEF EndPoll, EndTick
  <2>2. LanesOK' /\ WorkKept
    BY <2>1, LanesSame
  <2>. QED
    BY <2>1, <2>2 DEF TypeOK, LanesOK, JobOK, Steps, board, daemon
<1>3. CASE ProcessMergeQueue
  BY <1>3, QueueKeeps
<1>4. CASE Merge
  BY <1>4, MergeKeeps
<1>5. ASSUME NEW audit \in BOOLEAN, ReconcileActiveTasks(audit) PROVE IInv' /\ WorkKept
  <2>1. /\ Reconcile(audit) /\ step' \in {"recheck", "dispatch"}
        /\ UNCHANGED <<queue, job, reset, crashes, main, root, lock>>
    BY <1>5 DEF ReconcileActiveTasks
  <2>2. /\ status' \in [Tasks -> Statuses] /\ claim' \in [Tasks -> Engineers \cup {None}]
        /\ active' \in [Engineers -> Tasks \cup {NoTask}] /\ retries' \in [Engineers -> 0..2]
        /\ tries' \in [Engineers -> 0..IterationLimit] /\ narrated' \subseteq Tasks
        /\ UNCHANGED <<flagged, packet>>
        /\ LanesOK' /\ WorkKept
    BY <2>1, ReconcileEffect
  <2>. QED
    BY <2>1, <2>2 DEF TypeOK, LanesOK, JobOK, Steps
<1>6. CASE Restart
  BY <1>6, RestartEffect
<1>7. ASSUME NEW e \in Engineers, NEW t \in Tasks, Dispatch(e, t) PROVE IInv' /\ WorkKept
  <2>. DEFINE st == [status EXCEPT ![t] = "in-progress"]
              cl == [claim EXCEPT ![t] = e]
  <2>1. /\ status' = st /\ claim' = cl /\ flagged' = flagged \ {t} /\ reset' = reset \cup {e}
        /\ UNCHANGED <<packet, tries, narrated, step, queue, job, crashes, main, root, lock>>
    BY <1>7 DEF Dispatch
  <2>2. PICK started \in BOOLEAN :
          /\ Launch(e, t, st, cl, packet, started)
          /\ active' = IF started THEN [active EXCEPT ![e] = t] ELSE active
          /\ retries' = IF started THEN [retries EXCEPT ![e] = 0] ELSE retries
    BY <1>7 DEF Dispatch
  <2>3. /\ status' \in [Tasks -> Statuses] /\ claim' \in [Tasks -> Engineers \cup {None}]
        /\ active' \in [Engineers -> Tasks \cup {NoTask}] /\ retries' \in [Engineers -> 0..2]
        /\ flagged' \subseteq Tasks /\ reset' \subseteq Engineers
    BY <2>1, <2>2 DEF TypeOK, Statuses
  <2>. HIDE DEF st, cl
  <2>4. LanesOK' /\ WorkKept
    BY <2>2, LaunchEffect
  <2>. QED
    BY <2>1, <2>3, <2>4 DEF TypeOK, LanesOK, JobOK
<1>8. ASSUME NEW e \in Engineers, ResetWorktree(e) PROVE IInv' /\ WorkKept
  <2>1. /\ CheckoutFromTrunk(e, Home(e)) /\ reset' = reset \cup {e}
        /\ UNCHANGED <<board, daemon, step, queue, job, crashes, main, root, lock>>
    BY <1>8 DEF ResetWorktree
  <2>2. LanesOK' /\ WorkKept
    BY <2>1, CheckoutEffect, BranchType
  <2>. QED
    BY <2>1, <2>2 DEF TypeOK, LanesOK, JobOK, board, daemon
<1>9. ASSUME NEW e \in Engineers, Commit(e) PROVE IInv' /\ WorkKept
  <2>. DEFINE b == branch[e]
              t == IF b[2] # Base THEN b[2] ELSE active[e]
  <2>1. /\ t # NoTask /\ work' = work \cup {<<b, t>>}
        /\ UNCHANGED <<board, daemon, branch, archived, step, queue, job, reset, crashes,
                       main, root, lock>>
    BY <1>9 DEF Commit
  <2>2. b \in Branches /\ active[e] \in Tasks \cup {NoTask}
    BY DEF TypeOK
  <2>3. t \in Tasks
    BY <2>1, <2>2 DEF Branches
  <2>. HIDE DEF b, t
  <2>4. LanesOK' /\ WorkKept
    BY <2>1, <2>2, <2>3 DEF LanesOK, WorkKept, TypeOK
  <2>. QED
    BY <2>1, <2>4 DEF TypeOK, LanesOK, JobOK, board, daemon
<1>10. ASSUME NEW e \in Engineers, BattyMerge(e) PROVE IInv' /\ WorkKept
  <2>1. /\ Land(e, TRUE)
        /\ UNCHANGED <<board, daemon, step, queue, job, reset, crashes, root, lock>>
    BY <1>10 DEF BattyMerge
  <2>2. LanesOK' /\ WorkKept /\ main' \subseteq Tasks
    BY <2>1, LandEffect
  <2>. QED
    BY <2>1, <2>2 DEF TypeOK, LanesOK, JobOK, board, daemon
<1>11. CASE OperatorChangesRoot \/ RemoveStaleLock
  <2>1. /\ root' \in {"main", "dirty", "other"} /\ lock' \in {"free", "held", "stale"}
        /\ UNCHANGED <<board, daemon, lanes, step, queue, job, reset, crashes, main>>
    BY <1>11 DEF OperatorChangesRoot, RemoveStaleLock, TypeOK
  <2>2. LanesOK' /\ WorkKept
    BY <2>1, LanesSame
  <2>. QED
    BY <2>1, <2>2 DEF TypeOK, LanesOK, JobOK, board, daemon
<1>12. CASE Crash
  <2>1. /\ crashes < MaxCrashes /\ crashes' = crashes + 1 /\ step' = "down"
        /\ active' = [e \in Engineers |-> NoTask] /\ retries' = [e \in Engineers |-> 0]
        /\ tries' = [e \in Engineers |-> 0] /\ narrated' = {} /\ queue' = <<>> /\ job' = NoJob
        /\ reset' = {} /\ lock' = (IF lock = "held" THEN "stale" ELSE lock)
        /\ UNCHANGED <<board, lanes, main, root>>
    BY <1>12 DEF Crash
  <2>2. /\ crashes' \in 0 .. MaxCrashes /\ step' \in Steps /\ lock' \in {"free", "held", "stale"}
        /\ queue' \in Seq(Requests) /\ Len(queue') <= MaxQueue
    BY <2>1, PipelineAssumption DEF TypeOK, Steps
  <2>3. /\ active' \in [Engineers -> Tasks \cup {NoTask}] /\ retries' \in [Engineers -> 0..2]
        /\ tries' \in [Engineers -> 0..IterationLimit]
    BY <2>1, PipelineAssumption
  <2>4. job' \in [task : Tasks \cup {NoTask}, eng : Engineers \cup {None}, direct : BOOLEAN,
                  pre : SUBSET Tasks, landed : SUBSET Tasks]
    BY <2>1 DEF NoJob
  <2>5. LanesOK' /\ WorkKept
    BY <2>1, LanesSame
  <2>. QED
    BY <2>1, <2>2, <2>3, <2>4, <2>5 DEF TypeOK, LanesOK, JobOK, board
<1>. QED
  BY <1>1, <1>2, <1>3, <1>4, <1>5, <1>6, <1>7, <1>8, <1>9, <1>10, <1>11, <1>12 DEF Next, Daemon

\* The first state.
LEMMA IInvInit == Init => IInv
<1>. SUFFICES ASSUME Init PROVE IInv
  OBVIOUS
<1>1. /\ status \in [Tasks -> Statuses] /\ claim \in [Tasks -> Engineers \cup {None}]
      /\ active \in [Engineers -> Tasks \cup {NoTask}] /\ retries \in [Engineers -> 0..2]
      /\ tries \in [Engineers -> 0..IterationLimit]
  BY PipelineAssumption DEF Init, Statuses
<1>2. packet \in [Tasks -> Packets]
  BY DEF Init, Packets, Outcomes
<1>3. branch \in [Engineers -> Branches]
  BY BranchType DEF Init
<1>4. queue \in Seq(Requests) /\ Len(queue) <= MaxQueue /\ crashes \in 0 .. MaxCrashes
  BY PipelineAssumption DEF Init
<1>5. job \in [task : Tasks \cup {NoTask}, eng : Engineers \cup {None}, direct : BOOLEAN,
               pre : SUBSET Tasks, landed : SUBSET Tasks]
  BY DEF Init, NoJob
<1>6. /\ flagged = {} /\ step = "poll" /\ narrated = {} /\ reset = {} /\ work = {} /\ main = {}
      /\ root = "main" /\ lock = "free" /\ archived = {}
  BY DEF Init
<1>. QED
  BY <1>1, <1>2, <1>3, <1>4, <1>5, <1>6 DEF IInv, TypeOK, JobOK, Steps

\* Every step.
LEMMA IInvNext ==
    ASSUME IInv, [Next]_vars
    PROVE  IInv' /\ WorkKept
<1>1. CASE UNCHANGED vars
  <2>1. LanesOK' /\ WorkKept
    BY <1>1, LanesSame DEF IInv, vars
  <2>. QED
    BY <1>1, <2>1 DEF vars, board, daemon, lanes, IInv, TypeOK, JobOK
<1>. QED
  BY <1>1, StepKeeps

\* The invariant holds in every reachable state.
LEMMA PipelineInvariant == Spec => []IInv
<1>1. IInv /\ [Next]_vars => IInv'
  BY IInvNext
<1>. QED
  BY <1>1, IInvInit, PTL DEF Spec

-----------------------------------------------------------------------------
(* The properties. *)

\* In every reachable state every variable has its type, and no engineer is sent
\* back for a third rebase conflict: MergeConflict releases it instead.
THEOREM PipelineTypeCorrect == Spec => []TypeOK
<1>1. IInv => TypeOK
  BY DEF IInv
<1>. QED
  BY <1>1, PipelineInvariant, PTL

\* No step of the daemon, of an agent, of `batty merge` or of the operator drops the
\* commits of a task's branch: they go to main or to an archive branch.
THEOREM TaskWorkIsKept == Spec => TaskWorkKept
<1>1. IInv /\ [Next]_vars
      => [\A w \in work \ work' :
             (\A e \in Engineers : w[1] # Home(e)) => w \in archived' \/ w[2] \in main']_vars
  BY IInvNext DEF WorkKept
<1>. QED
  BY <1>1, PipelineInvariant, PTL DEF Spec, TaskWorkKept

-----------------------------------------------------------------------------
(* What a failed verification takes back. *)

\* Under the merge lock, main is what git_head has seen, and after the merge that
\* and what the merge has landed, as long as nobody merges by hand.
HeadInv ==
    /\ step = "merge" /\ ~job.direct => main \subseteq job.pre
    /\ step = "verify" => main \subseteq job.pre \cup job.landed

\* Every step keeps it, and takes back only the merge's own commits.
LEMMA HeadNext ==
    ASSUME ManualMerge = FALSE, IInv, HeadInv, [Next]_vars
    PROVE  HeadInv' /\ (main \ main') \subseteq job.landed
<1>. USE DEF IInv, HeadInv
<1>1. CASE UNCHANGED <<step, job, main>>
  BY <1>1
<1>2. CASE step' \notin {"merge", "verify"} /\ UNCHANGED main
  BY <1>2
<1>3. CASE /\ step' = "merge" /\ UNCHANGED main
           /\ job'.direct \/ job'.pre = main
  BY <1>3
<1>4. ASSUME NEW returns \in BOOLEAN, MergeLands(returns)
      PROVE  HeadInv' /\ (main \ main') \subseteq job.landed
  <2>1. step = "merge" /\ main' = main \cup Ahead(job.eng)
    BY <1>4 DEF MergeLands, Land, Ahead
  <2>2. CASE MergeOver
    BY <2>1, <2>2 DEF MergeOver
  <2>3. CASE ~job.direct /\ step' = "verify" /\ job' = [job EXCEPT !.landed = Ahead(job.eng)]
    <3>1. job'.pre = job.pre /\ job'.landed = Ahead(job.eng)
      BY <2>3 DEF TypeOK
    <3>. QED
      BY <2>1, <2>3, <3>1
  <2>. QED
    BY <1>4, <2>2, <2>3 DEF MergeLands, Finish
<1>5. CASE VerifyFails
  <2>1. step = "verify" /\ main' \in {main, job.pre} /\ step' \notin {"merge", "verify"}
    BY <1>5 DEF VerifyFails, ResetMainTo, MergeOver
  <2>. QED
    BY <2>1
<1>6. CASE UNCHANGED vars
  BY <1>1, <1>6 DEF vars
<1>7. ASSUME NEW e \in Engineers, Complete(e)
      PROVE  HeadInv' /\ (main \ main') \subseteq job.landed
  <2>1. CASE CompleteDirect(e)
    <3>1. /\ UNCHANGED main
          /\ \/ step' = "merge" /\ job' = [NoJob EXCEPT !.task = active[e], !.eng = e, !.direct = TRUE]
             \/ UNCHANGED <<step, job>>
      BY <2>1 DEF CompleteDirect
    <3>2. [NoJob EXCEPT !.task = active[e], !.eng = e, !.direct = TRUE].direct
      BY DEF NoJob
    <3>. QED
      BY <1>1, <1>3, <3>1, <3>2
  <2>2. CASE ~CompleteDirect(e)
    BY <1>1, <1>7, <2>2 DEF Complete, CompleteRecovery, CompleteRejected, CompletionErrors,
                            CompleteQueued, CompleteForReview
  <2>. QED
    BY <2>1, <2>2
<1>8. CASE ProcessMergeQueue
  <2>1. CASE StartMerge
    <3>1. /\ step' = "merge" /\ UNCHANGED main
          /\ job' = [task |-> Request.task, eng |-> Request.eng, direct |-> FALSE,
                     pre |-> main, landed |-> {}]
      BY <2>1 DEF StartMerge, PreMergeHead
    <3>2. job'.pre = main
      BY <3>1
    <3>. QED
      BY <1>3, <3>1, <3>2
  <2>2. CASE ~StartMerge
    BY <1>2, <1>8, <2>2 DEF ProcessMergeQueue, QueueEmpty, SkipRequest, RedispatchRetry,
                            BlockedByDirtyMain, QueueErrors
  <2>. QED
    BY <2>1, <2>2
<1>9. CASE Merge
  <2>1. CASE MergeConflict \/ MergeFails \/ MergeErrors \/ VerifyPasses
    BY <1>2, <2>1 DEF MergeConflict, MergeFails, MergeErrors, VerifyPasses, Finish, MergeOver
  <2>. QED
    BY <1>4, <1>5, <1>9, <2>1 DEF Merge
<1>10. CASE EndPoll \/ EndTick \/ Restart \/ Crash \/ (\E audit \in BOOLEAN : ReconcileActiveTasks(audit))
  BY <1>2, <1>10 DEF EndPoll, EndTick, Restart, Crash, ReconcileActiveTasks
<1>11. CASE \/ \E e \in Engineers, t \in Tasks : Dispatch(e, t)
            \/ \E e \in Engineers : ResetWorktree(e) \/ Commit(e)
            \/ OperatorChangesRoot \/ RemoveStaleLock
  BY <1>1, <1>11 DEF Dispatch, ResetWorktree, Commit, OperatorChangesRoot, RemoveStaleLock
<1>12. ~ \E e \in Engineers : BattyMerge(e)
  BY DEF BattyMerge
<1>. QED
  BY <1>6, <1>7, <1>8, <1>9, <1>10, <1>11, <1>12 DEF Next, Daemon

\* While nobody runs `batty merge`, a failed post-merge verification takes back the
\* commits of its own merge and no others, whoever else has merged before.
THEOREM OnlyOwnIsReverted ==
    ASSUME ManualMerge = FALSE
    PROVE  Spec => OnlyOwnReverted
<1>1. Init => HeadInv
  BY DEF Init, HeadInv
<1>2. IInv /\ HeadInv /\ [Next]_vars => HeadInv' /\ [(main \ main') \subseteq job.landed]_vars
  BY HeadNext
<1>. QED
  BY <1>1, <1>2, PipelineInvariant, PTL DEF Spec, OnlyOwnReverted

-----------------------------------------------------------------------------
(* Who owns what when dispatch begins. *)

\* Between the first round of reconciliation and the first dispatch.
SettledInv == step = "recheck" \/ (step = "dispatch" /\ reset = {}) => Settled

\* Reconciliation establishes it, and nothing between it and dispatch undoes it.
LEMMA SettledNext ==
    ASSUME IInv, SettledInv, [Next]_vars
    PROVE  SettledInv'
<1>. USE DEF IInv, SettledInv
<1>1. CASE UNCHANGED <<step, reset, active, claim, status>>
  BY <1>1 DEF Settled
<1>2. CASE step' \notin {"recheck", "dispatch"}
  BY <1>2
<1>3. ASSUME NEW audit \in BOOLEAN, ReconcileActiveTasks(audit) PROVE SettledInv'
  BY <1>3, ReconcileEffect DEF ReconcileActiveTasks
<1>4. ASSUME NEW e \in Engineers, NEW t \in Tasks, Dispatch(e, t) PROVE SettledInv'
  BY <1>4 DEF Dispatch, Dispatching
<1>5. ASSUME NEW e \in Engineers, ResetWorktree(e) PROVE SettledInv'
  BY <1>5 DEF ResetWorktree, Dispatching
<1>6. CASE UNCHANGED vars
  BY <1>1, <1>6 DEF vars, board, daemon
<1>7. ASSUME NEW e \in Engineers, Complete(e) PROVE SettledInv'
  BY <1>2, <1>7 DEF Complete, CompleteRecovery, CompleteRejected, CompletionErrors, CompleteQueued,
                    CompleteForReview, CompleteDirect, CompletePassed, Completing
<1>8. CASE ProcessMergeQueue
  BY <1>2, <1>8 DEF ProcessMergeQueue, QueueEmpty, SkipRequest, RedispatchRetry, BlockedByDirtyMain,
                    QueueErrors, StartMerge
<1>9. CASE Merge
  BY <1>2, <1>9 DEF Merge, MergeConflict, MergeFails, MergeErrors, MergeLands, VerifyPasses, VerifyFails,
                    Finish, MergeOver
<1>10. CASE EndPoll \/ EndTick \/ Restart \/ Crash
  BY <1>2, <1>10 DEF EndPoll, EndTick, Restart, Crash
<1>11. CASE \/ \E e \in Engineers : Commit(e) \/ BattyMerge(e)
            \/ OperatorChangesRoot \/ RemoveStaleLock
  BY <1>1, <1>11 DEF Commit, BattyMerge, OperatorChangesRoot, RemoveStaleLock, board, daemon
<1>. QED
  BY <1>3, <1>4, <1>5, <1>6, <1>7, <1>8, <1>9, <1>10, <1>11 DEF Next, Daemon

\* When dispatch begins, every active task is claimed by the engineer who has it and
\* is neither in review nor done; so no two engineers have one task.
THEOREM OneOwner ==
    Spec => [](step = "dispatch" /\ reset = {} =>
                  /\ Settled
                  /\ \A e, f \in Engineers : active[e] = active[f] /\ active[e] # NoTask => e = f)
<1>1. Init => SettledInv
  BY DEF Init, SettledInv
<1>2. IInv /\ SettledInv /\ [Next]_vars => SettledInv'
  BY SettledNext
<1>3. SettledInv => (step = "dispatch" /\ reset = {} =>
                        /\ Settled
                        /\ \A e, f \in Engineers : active[e] = active[f] /\ active[e] # NoTask => e = f)
  BY DEF SettledInv, Settled
<1>. QED
  BY <1>1, <1>2, <1>3, PipelineInvariant, PTL DEF Spec
=============================================================================
