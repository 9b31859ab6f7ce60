--------------------------- MODULE MergePipeline ---------------------------
(***************************************************************************)
(* From an engineer's completion to the trunk: the completion handler      *)
(* (src/src/team/merge/completion.rs), the merge queue and merge lock      *)
(* (src/src/team/daemon/merge_queue.rs, src/src/team/merge/lock.rs), the   *)
(* merge itself (src/src/team/merge/operations.rs), the reconciliation of  *)
(* active tasks with the board (src/src/team/daemon/automation.rs) and the *)
(* dispatch of the next task (src/src/team/dispatch/queue.rs), in the      *)
(* order in which the daemon's tick (src/src/team/daemon/poll.rs) runs     *)
(* them.                                                                   *)
(*                                                                         *)
(* The daemon is one thread: `step` says where its tick is.  Beside it run *)
(* the agents, who commit at any time, `batty merge` on the command line,  *)
(* the operator of the root checkout, and crashes.  The project is one     *)
(* repository; the engineers use worktrees and report to one manager.      *)
(*                                                                         *)
(* Commits are reduced to the tasks they name.  A branch is named by its   *)
(* engineer and a task, or Base for the engineer's base branch.  Test      *)
(* results, risk scores, rebase conflicts and what the agents are doing    *)
(* (MemberState) are nondeterministic.                                     *)
(***************************************************************************)
EXTENDS Naturals, Sequences, FiniteSets

CONSTANTS
    Engineers,
    NTasks,         \* the tasks are numbered 1..NTasks
    None,           \* no engineer (claimed_by is absent)
    Decisions,      \* what a passing completion may lead to
    MaxIterations,  \* verification_retry_budget
    IterationLimit, \* u32::MAX, where saturating_add stops counting
    PostVerify,     \* auto_merge.post_merge_verify
    ManualMerge,    \* somebody may run `batty merge`
    RootMayChange,  \* the operator may edit the root checkout or leave main
    MaxQueue,       \* bound on the length of the merge queue
    MaxCrashes      \* bound on the number of daemon crashes

ASSUME PipelineAssumption ==
    /\ NTasks \in Nat \ {0}
    /\ None \notin Engineers
    /\ Decisions \subseteq {"queue", "manual", "override", "direct"}
    /\ MaxIterations \in Nat \ {0}
    /\ IterationLimit \in Nat /\ IterationLimit >= MaxIterations
    /\ PostVerify \in BOOLEAN
    /\ ManualMerge \in BOOLEAN
    /\ RootMayChange \in BOOLEAN
    /\ MaxQueue \in Nat
    /\ MaxCrashes \in Nat

Tasks    == 1..NTasks
NoTask   == 0
Base     == 0
Branches == Engineers \X (Tasks \cup {Base})
NoBranch == <<None, Base>>
Home(e)  == <<e, Base>>

Statuses == {"todo", "in-progress", "review", "blocked", "done"}

\* "retry" and "evidence" both stand for verification_retry_required: in the
\* second the tests passed and the commits or the code were missing.
Outcomes == {"none", "passed", "retry", "evidence", "escalated", "recovery"}
Packets  == [branch : Branches \cup {NoBranch}, outcome : Outcomes]
Requests == [task : Tasks, eng : Engineers, branch : Branches]
Steps    == {"poll", "queue", "merge", "verify", "reconcile", "recheck",
             "dispatch", "down"}

VARIABLES
    \* the board
    status,    \* status of each task
    claim,     \* claimed_by
    flagged,   \* tasks with `blocked` or `blocked_on` set
    packet,    \* branch and outcome markers of the workflow metadata
    \* the daemon
    step,      \* where the tick is
    active,    \* active_tasks
    retries,   \* retry_counts (rebase conflicts)
    tries,     \* verification_states[e].iteration
    narrated,  \* tasks with one narration-only rejection
    queue,     \* merge_queue
    job,       \* the merge under way and what it landed on main
    reset,     \* engineers whose worktree this tick's dispatch has reset
    crashes,   \* the number of crashes so far
    \* the repository
    branch,    \* what each worktree has checked out
    work,      \* <<b, t>>: branch b has commits of t that main has not
    main,      \* tasks with their commits on main
    root,      \* the root checkout: "main", "dirty" (main with edits) or "other"
    lock,      \* .batty/merge.lock: "free", "held" or "stale"
    archived   \* what the last checkout put on an archive branch, as in work

board  == <<status, claim, flagged, packet>>
daemon == <<active, retries, tries, narrated>>
lanes  == <<branch, work, archived>>
vars   == <<board, daemon, lanes, step, queue, job, reset, crashes, main, root,
            lock>>

NoJob == [task |-> NoTask, eng |-> None, direct |-> FALSE, pre |-> {}, landed |-> {}]

-----------------------------------------------------------------------------
(* The board. *)

CanTransition ==
    {<<s, s>> : s \in Statuses} \cup
    {<<"todo", "in-progress">>, <<"todo", "blocked">>,
     <<"in-progress", "todo">>, <<"in-progress", "review">>, <<"in-progress", "blocked">>,
     <<"review", "in-progress">>, <<"review", "blocked">>, <<"review", "done">>,
     <<"blocked", "todo">>, <<"blocked", "in-progress">>}

Transition(from, to) == IF <<from, to>> \in CanTransition THEN to ELSE from

\* move_task_to_review: directly or, failing that, through in-progress.
ReviewOf(s) ==
    IF Transition(s, "review") = "review" THEN "review"
    ELSE Transition(Transition(s, "in-progress"), "review")

\* Faulty: a task already in progress is not taken to be e's.
FaultyOwned(e, st, cl) == {t \in Tasks : cl[t] = e /\ st[t] = "todo"}

\* The tasks that count against e in the dispatch guards, and those that
\* reconciliation takes to be e's, on a board with statuses st and claims cl.
OnBoard(e, st, cl) == {t \in Tasks : cl[t] = e /\ st[t] \in {"todo", "in-progress"}}
Owned(e, st, cl)   == {t \in Tasks : cl[t] = e /\ st[t] \notin {"review", "done"}}

\* authoritative_task_branch: the branch marker, or e's branch for the task.
BranchFor(e, t, pk) == IF pk[t].branch = NoBranch THEN <<e, t>> ELSE pk[t].branch

-----------------------------------------------------------------------------
(* Lanes: an engineer's worktree and branches. *)

On(b)    == {t \in Tasks : <<b, t>> \in work}
Ahead(e) == On(branch[e])

\* Faulty: the branch is reset without an archive of what it had.
FaultyCheckoutFromTrunk(e, b) ==
    /\ branch' = [branch EXCEPT ![e] = b]
    /\ work' = {w \in work : w[1] # b}
    /\ archived' = {}

\* Checks out b anew from the trunk; commits it had go to an archive branch.
CheckoutFromTrunk(e, b) ==
    /\ branch' = [branch EXCEPT ![e] = b]
    /\ work' = {w \in work : w[1] # b}
    /\ archived' = {w \in work : w[1] = b}

\* Releases e from its active task.
ClearActive(e) ==
    /\ active'   = [active EXCEPT ![e] = NoTask]
    /\ retries'  = [retries EXCEPT ![e] = 0]
    /\ tries'    = [tries EXCEPT ![e] = 0]
    /\ narrated' = narrated \ {active[e]}

\* select_authoritative_owned_task: the active task, the one whose marker is
\* the branch checked out, or one chosen by rank and age.
Authoritative(e, owned, pk) ==
    LET matching == {t \in owned : pk[t].branch = branch[e]}
    IN  IF active[e] \in owned THEN {active[e]}
        ELSE IF Cardinality(matching) = 1 THEN matching
        ELSE owned

\* prepare_assignment_launch: a claimed task that expects another branch stops
\* the launch of t, unless it is t itself and e is on its base branch.
Mismatch(e, t, a, pk) ==
    LET expected == BranchFor(e, a, pk)
    IN  /\ expected # branch[e]
        /\ ~(expected = <<e, t>> /\ branch[e] = Home(e))

\* What the launch of t does to e's lane; started tells whether it succeeds.
\* The lane is prepared before the assignment is delivered, which may fail too.
Launch(e, t, st, cl, pk, started) ==
    LET owned == Owned(e, st, cl)
        clear(a) == ~Mismatch(e, t, a, pk)
        taken == \E o \in Engineers \ {e} : branch[o] = <<e, t>>
        Possible == IF owned = {} THEN {TRUE} ELSE {clear(a) : a \in Authoritative(e, owned, pk)}
    IN  \/ /\ TRUE \in Possible
           /\ ~taken
           /\ IF branch[e] = <<e, t>> THEN UNCHANGED lanes ELSE CheckoutFromTrunk(e, <<e, t>>)
        \/ /\ ~started
           /\ FALSE \in Possible \/ taken
           /\ UNCHANGED lanes

\* assign_task_with_task_id_as: the guard, the branch marker and the launch.
\* When the launch fails, the callers fall back to an inbox message.
AssignAs(e, t, st, cl, pk) ==
    LET mine   == OnBoard(e, st, cl)
        marked == [pk EXCEPT ![t].branch = <<e, t>>]
    IN  IF mine # {} /\ t \notin mine
        THEN packet' = pk /\ UNCHANGED lanes
        ELSE /\ packet' = marked
             /\ \E started \in BOOLEAN : Launch(e, t, st, cl, marked, started)

-----------------------------------------------------------------------------
Init ==
    /\ status = [t \in Tasks |-> "todo"]
    /\ claim = [t \in Tasks |-> None]
    /\ flagged = {}
    /\ packet = [t \in Tasks |-> [branch |-> NoBranch, outcome |-> "none"]]
    /\ step = "poll"
    /\ active = [e \in Engineers |-> NoTask]
    /\ retries = [e \in Engineers |-> 0]
    /\ tries = [e \in Engineers |-> 0]
    /\ narrated = {}
    /\ queue = <<>>
    /\ job = NoJob
    /\ reset = {}
    /\ crashes = 0
    /\ branch = [e \in Engineers |-> Home(e)]
    /\ work = {}
    /\ main = {}
    /\ root = "main"
    /\ lock = "free"
    /\ archived = {}

-----------------------------------------------------------------------------
(* Completion: e's agent reports that it is done with its active task. *)

\* e's claimed tasks in review or in progress; those its branch is for, and
\* those whose worktree marker is not another engineer's.
Claimed(e)  == {t \in Tasks : claim[t] = e /\ status[t] \in {"review", "in-progress"}}
ByBranch(e) == {t \in Claimed(e) : BranchFor(e, t, packet) = branch[e]}
ByTree(e)   == {t \in Claimed(e) : packet[t].branch[1] \in {None, e}}
Marked(e)   == {t \in Claimed(e) : packet[t].branch[1] = e}

\* active_claim_conflict_failure: nothing tells which of several is meant.
Ambiguous(e) ==
    /\ Cardinality(Claimed(e)) > 1
    /\ Cardinality(Marked(e)) # 1
    /\ Cardinality(ByBranch(e)) # 1

\* find_claimed_task_for_worktree: the claimed task the worktree is for.
ScopeOf(e) ==
    LET Sure(s) == Cardinality(s) = 1
    IN  IF Sure(ByBranch(e)) THEN ByBranch(e)
        ELSE IF Sure(ByTree(e)) THEN ByTree(e)
        ELSE IF Sure(Claimed(e)) THEN Claimed(e) ELSE {}

\* task_mismatch_validation_failure: the branch or the commits name other tasks.
NamesOther(e, t) == branch[e][2] \notin {Base, t}

WrongLane(e) ==
    /\ ~Ambiguous(e)
    /\ \E t \in ScopeOf(e) : NamesOther(e, t) \/ (Ahead(e) # {} /\ t \notin Ahead(e))

\* recovery_branch_for_task: the marker or a branch with the task's commits.
RecoveryBranches(e, t) ==
    {BranchFor(e, t, packet)} \cup {b \in Branches : b[2] = t /\ t \in On(b)}

Completing(e) ==
    /\ step = "poll"
    /\ active[e] # NoTask

\* The engineer is asked to recover the branch; no retry is consumed.
CompleteRecovery(e) ==
    /\ Completing(e)
    /\ WrongLane(e)
    /\ \E t \in ScopeOf(e) : \E b \in RecoveryBranches(e, t) :
          packet' = [packet EXCEPT ![active[e]] = [branch |-> b, outcome |-> "recovery"]]
    /\ tries' = [tries EXCEPT ![e] = 0]
    /\ UNCHANGED <<status, claim, flagged, active, retries, narrated, lanes, step,
                   queue, job, reset, crashes, main, root, lock>>

\* The gate rejects the completion: no commits, commits without code
\* (narration) or failing tests.  Too many rejections escalate, but those for
\* want of commits only count: nothing bounds their number.  A task that cannot
\* become blocked (it is done) ends the escalation with an error.
Escalates(e, narration) ==
    IF narration THEN active[e] \in narrated
                 ELSE Ahead(e) # {} /\ tries[e] + 1 >= MaxIterations

CompleteRejected(e, outcome, narration) ==
    LET t == active[e]
        escalate == Escalates(e, narration)
        pk == [packet EXCEPT ![t].outcome = IF escalate THEN "escalated" ELSE outcome]
    IN  /\ Completing(e)
        /\ ~WrongLane(e)
        /\ narration => Ahead(e) # {}
        /\ outcome = "evidence" => ~Ambiguous(e) /\ (narration \/ Ahead(e) = {})
        /\ AssignAs(e, t, status, claim, pk)
        /\ \/ /\ ~escalate
              /\ tries' = [tries EXCEPT ![e] = IF @ < IterationLimit THEN @ + 1 ELSE @]
              /\ narrated' = IF narration THEN narrated \cup {t} ELSE narrated
              /\ UNCHANGED <<status, flagged, active, retries>>
           \/ /\ escalate
              /\ <<status[t], "blocked">> \in CanTransition
              /\ status' = [status EXCEPT ![t] = "blocked"]
              /\ flagged' = flagged \cup {t}
              /\ ClearActive(e)
           \/ /\ escalate
              /\ <<status[t], "blocked">> \notin CanTransition
              /\ tries' = [tries EXCEPT ![e] = 0]
              /\ narrated' = IF narration THEN narrated \cup {t} ELSE narrated
              /\ UNCHANGED <<status, flagged, active, retries>>
        /\ UNCHANGED <<claim, step, queue, job, reset, crashes, main, root, lock>>

\* The verification could not be run: the error drops the retry count.
CompletionErrors(e) ==
    /\ Completing(e)
    /\ tries' = [tries EXCEPT ![e] = 0]
    /\ UNCHANGED <<board, active, retries, narrated, lanes, step, queue, job, reset,
                   crashes, main, root, lock>>

\* Verified: the verification_passed marker is written, the counts are dropped.
CompletePassed(e, decision) ==
    /\ Completing(e)
    /\ ~Ambiguous(e)
    /\ ~WrongLane(e)
    /\ Ahead(e) # {}
    /\ decision \in Decisions

ToReview(e, t, pk) ==
    /\ status' = [status EXCEPT ![t] = ReviewOf(@)]
    /\ flagged' = IF ReviewOf(status[t]) = "review" THEN flagged \ {t} ELSE flagged
    /\ claim' = [claim EXCEPT ![t] = e]
    /\ packet' = pk

Passed(t)    == [packet EXCEPT ![t].outcome = "passed"]
Recorded(e, t) == [packet EXCEPT ![t] = [branch |-> branch[e], outcome |-> "passed"]]

CompleteQueued(e) ==
    LET t == active[e]
    IN  /\ CompletePassed(e, "queue")
        /\ ~NamesOther(e, t)
        /\ Len(queue) < MaxQueue
        /\ ToReview(e, t, Recorded(e, t))
        /\ queue' = Append(queue, [task |-> t, eng |-> e, branch |-> branch[e]])
        /\ tries' = [tries EXCEPT ![e] = 0]
        /\ narrated' = narrated \ {t}
        /\ UNCHANGED <<active, retries, lanes, step, job, reset, crashes, main, root, lock>>

\* Manual review.  An override that disables auto-merge leaves the branch
\* marker alone; a branch named for another task is rejected as a marker
\* (escalate_completion_metadata_rejection), after the move to review.
CompleteForReview(e, decision) ==
    LET t == active[e]
        rejected == decision \in {"queue", "manual"} /\ NamesOther(e, t)
        recorded == decision = "manual" /\ ~rejected
    IN  /\ CompletePassed(e, decision)
        /\ decision \in {"manual", "override"} \/ rejected
        /\ ToReview(e, t, IF recorded THEN Recorded(e, t) ELSE Passed(t))
        /\ ClearActive(e)
        /\ UNCHANGED <<lanes, step, queue, job, reset, crashes, main, root, lock>>

\* No decision (auto-merge is off): merge at once, if the lock can be had.
CompleteDirect(e) ==
    LET t == active[e]
    IN  /\ CompletePassed(e, "direct")
        /\ packet' = Passed(t)
        /\ tries' = [tries EXCEPT ![e] = 0]
        /\ narrated' = narrated \ {t}
        /\ \/ /\ lock = "free"
              /\ lock' = "held"
              /\ step' = "merge"
              /\ job' = [NoJob EXCEPT !.task = t, !.eng = e, !.direct = TRUE]
           \/ /\ lock = "stale"
              /\ UNCHANGED <<lock, step, job>>
        /\ UNCHANGED <<status, claim, flagged, active, retries, lanes, queue, reset,
                       crashes, main, root>>

EndPoll ==
    /\ step = "poll"
    /\ step' = "queue"
    /\ UNCHANGED <<board, daemon, lanes, queue, job, reset, crashes, main, root, lock>>

-----------------------------------------------------------------------------
(* The merge queue: one request per tick. *)

Request == Head(queue)

\* missing_completion_packet_detail and unavailable_branch_detail.
PacketReady(r) ==
    /\ packet[r.task].branch = r.branch
    /\ packet[r.task].outcome = "passed"

\* Faulty: the branch checked out now is not compared with the request's.
FaultyBranchReady(r) == Ahead(r.eng) # {}

BranchReady(r) ==
    /\ branch[r.eng] = r.branch
    /\ Ahead(r.eng) # {}

Mergeable(r) ==
    /\ status[r.task] = "review"
    /\ PacketReady(r)
    /\ BranchReady(r)

RetryRequired(r) ==
    /\ status[r.task] = "review"
    /\ packet[r.task].outcome \in {"retry", "evidence"}

Processing ==
    /\ step = "queue"
    /\ queue # <<>>

QueueEmpty ==
    /\ step = "queue"
    /\ queue = <<>>
    /\ step' = "reconcile"
    /\ UNCHANGED <<board, daemon, lanes, queue, job, reset, crashes, main, root, lock>>

\* Faulty: a request that cannot be merged is kept for later.
FaultySkipRequest ==
    /\ Processing
    /\ ~Mergeable(Request)
    /\ ~RetryRequired(Request)
    /\ queue' = Append(Tail(queue), Request)
    /\ step' = "reconcile"
    /\ UNCHANGED <<board, daemon, lanes, job, reset, crashes, main, root, lock>>

\* A request that is no longer mergeable is dropped; only the orchestrator log
\* is told.
SkipRequest ==
    /\ Processing
    /\ ~Mergeable(Request)
    /\ ~RetryRequired(Request)
    /\ queue' = Tail(queue)
    /\ step' = "reconcile"
    /\ UNCHANGED <<board, daemon, lanes, job, reset, crashes, main, root, lock>>

\* A later completion of the same task was rejected: back to its engineer.
RedispatchRetry ==
    LET r  == Request
        st == [status EXCEPT ![r.task] = "in-progress"]
        cl == [claim EXCEPT ![r.task] = r.eng]
    IN  /\ Processing
        /\ RetryRequired(r)
        /\ status' = st
        /\ claim' = cl
        /\ flagged' = flagged \ {r.task}
        /\ AssignAs(r.eng, r.task, st, cl, packet)
        /\ active' = [active EXCEPT ![r.eng] = r.task]
        /\ queue' = Tail(queue)
        /\ step' = "reconcile"
        /\ UNCHANGED <<retries, tries, narrated, job, reset, crashes, main, root, lock>>

\* The root checkout has source edits: the task is marked, the manager told.
BlockedByDirtyMain ==
    /\ Processing
    /\ Mergeable(Request)
    /\ lock = "free"
    /\ root = "dirty"
    /\ flagged' = flagged \cup {Request.task}
    /\ queue' = Tail(queue)
    /\ step' = "reconcile"
    /\ UNCHANGED <<status, claim, packet, daemon, lanes, job, reset, crashes, main, root, lock>>

\* An error, such as the timeout on a stale lock, leaves process_merge_queue
\* before the queue it took is put back.
QueueErrors ==
    /\ Processing
    /\ queue' = <<>>
    /\ step' = "reconcile"
    /\ UNCHANGED <<board, daemon, lanes, job, reset, crashes, main, root, lock>>

\* Faulty: a head remembered from before the earlier merges.
FaultyPreMergeHead == {}

\* git_head, taken under the lock.
PreMergeHead == main

StartMerge ==
    /\ Processing
    /\ Mergeable(Request)
    /\ lock = "free"
    /\ root # "dirty"
    /\ lock' = "held"
    /\ job' = [task |-> Request.task, eng |-> Request.eng, direct |-> FALSE,
               pre |-> PreMergeHead, landed |-> {}]
    /\ queue' = Tail(queue)
    /\ step' = "merge"
    /\ UNCHANGED <<board, daemon, lanes, reset, crashes, main, root>>

-----------------------------------------------------------------------------
(* The merge, for the queue and for the completion handler. *)

\* Faulty: the lock file is not removed.
FaultyMergeOver ==
    /\ job' = NoJob
    /\ step' = IF job.direct THEN "poll" ELSE "reconcile"
    /\ UNCHANGED lock

\* The lock is dropped and the tick goes on.
MergeOver ==
    /\ lock' = "free"
    /\ job' = NoJob
    /\ step' = IF job.direct THEN "poll" ELSE "reconcile"

\* Faulty: one conflict too many is sent back.
FaultyConflictLimit == 3

ConflictLimit == 2

MergeConflict ==
    LET e == job.eng
        attempt == retries[e] + 1
    IN  /\ step = "merge"
        /\ Ahead(e) # {}
        /\ \/ /\ attempt <= ConflictLimit
              /\ retries' = [retries EXCEPT ![e] = attempt]
              /\ UNCHANGED <<flagged, active, tries, narrated>>
           \/ /\ attempt > ConflictLimit
              /\ flagged' \in {flagged, flagged \cup {job.task}}
              /\ ClearActive(e)
        /\ MergeOver
        /\ UNCHANGED <<status, claim, packet, lanes, queue, reset, crashes, main, root>>

MergeFails ==
    /\ step = "merge"
    /\ ClearActive(job.eng)
    /\ MergeOver
    /\ UNCHANGED <<board, lanes, queue, reset, crashes, main, root>>

\* An error leaves the handler; the queue that was taken is lost with it.
MergeErrors ==
    /\ step \in {"merge", "verify"}
    /\ queue' = IF job.direct THEN queue ELSE <<>>
    /\ MergeOver
    /\ UNCHANGED <<board, daemon, lanes, reset, crashes, main, root>>

\* The branch of e is on main.  The worktree goes back to its base branch,
\* whose old commits are not archived here, and the merged branch is deleted;
\* with uncommitted edits on a task branch the worktree is left alone.
Land(e, returns) ==
    LET b == branch[e]
    IN  /\ returns \/ b # Home(e)
        /\ main' = main \cup On(b)
        /\ work' = {w \in work : w[1] # b /\ (returns => w[1] # Home(e))}
        /\ branch' = IF returns THEN [branch EXCEPT ![e] = Home(e)] ELSE branch
        /\ archived' = {}

\* The task is done.  A direct merge moves it with kanban-md, which may fail.
Finish(ok) ==
    /\ status' = IF ok THEN [status EXCEPT ![job.task] = "done"] ELSE status
    /\ ok => flagged' = flagged \ {job.task}
    /\ ~ok => UNCHANGED flagged
    /\ ClearActive(job.eng)
    /\ MergeOver
    /\ UNCHANGED <<claim, packet>>

MergeLands(returns) ==
    /\ step = "merge"
    /\ Land(job.eng, returns)
    /\ \/ /\ job.direct
          /\ \E ok \in BOOLEAN : Finish(ok)
       \/ /\ ~job.direct
          /\ ~PostVerify
          /\ Finish(TRUE)
       \/ /\ ~job.direct
          /\ PostVerify
          /\ step' = "verify"
          /\ job' = [job EXCEPT !.landed = Ahead(job.eng)]
          /\ UNCHANGED <<board, daemon, lock>>
    /\ UNCHANGED <<queue, reset, crashes, root>>

VerifyPasses ==
    /\ step = "verify"
    /\ Finish(TRUE)
    /\ UNCHANGED <<lanes, queue, reset, crashes, main, root>>

\* git reset --hard runs in the root checkout, whatever it has checked out.
ResetMainTo(pre) == IF root = "other" THEN main ELSE pre

VerifyFails ==
    /\ step = "verify"
    /\ main' = ResetMainTo(job.pre)
    /\ root' = IF root = "dirty" THEN "main" ELSE root
    /\ MergeOver
    /\ UNCHANGED <<board, daemon, lanes, queue, reset, crashes>>

-----------------------------------------------------------------------------
(* Reconciliation of active tasks with the board. *)

\* Faulty: the claim is not looked at.
FaultyStale == {e \in Engineers :
                   active[e] # NoTask /\ status[active[e]] \in {"review", "blocked", "done"}}

\* The entries of active_tasks that the board contradicts.
Stale == {e \in Engineers :
             /\ active[e] # NoTask
             /\ \/ status[active[e]] \in {"review", "blocked", "done"}
                \/ claim[active[e]] # e}

\* Stale entries are cleared and the claims of tasks in review or blocked
\* released; then each engineer's claimed task becomes its active one, and
\* claims beyond that one go back to todo unless they need a retry.
Reconcile(audit) ==
    LET released == {t \in Tasks : /\ status[t] \in {"review", "blocked"}
                                   /\ \E e \in Stale : active[e] = t}
        cl == [t \in Tasks |-> IF t \in released THEN None ELSE claim[t]]
        ended == {e \in Stale : status[active[e]] = "done"}
        owned(e) == Owned(e, status, cl)
        kept(e) == IF e \in Stale THEN NoTask ELSE active[e]
        choice(e) == IF owned(e) = {} THEN {kept(e)}
                     ELSE IF kept(e) \in owned(e) THEN {kept(e)} ELSE owned(e)
        align(e) == /\ audit
                    /\ active'[e] \in owned(e)
                    /\ \A o \in Engineers \ {e} : branch[o] # BranchFor(e, active'[e], packet)
    IN  /\ active' \in [Engineers -> Tasks \cup {NoTask}]
        /\ \A e \in Engineers : active'[e] \in choice(e)
        /\ LET excess == {t \in Tasks : \E e \in Engineers :
                             /\ t \in owned(e) \ {active'[e]}
                             /\ packet[t].outcome # "retry"}
           IN  /\ status' = [t \in Tasks |-> IF t \in excess THEN "todo" ELSE status[t]]
               /\ claim'  = [t \in Tasks |-> IF t \in excess THEN None ELSE cl[t]]
        /\ retries'  = [e \in Engineers |-> IF e \in Stale THEN 0 ELSE retries[e]]
        /\ tries'    = [e \in Engineers |-> IF e \in Stale THEN 0 ELSE tries[e]]
        /\ narrated' = narrated \ {active[e] : e \in Stale}
        /\ branch' = [e \in Engineers |->
                         IF align(e) THEN BranchFor(e, active'[e], packet)
                         ELSE IF e \in ended THEN Home(e) ELSE branch[e]]
        /\ archived' = {w \in work : \E e \in ended : w[1] = Home(e)}
        /\ work' = work \ archived'
        /\ UNCHANGED <<flagged, packet>>

\* Once in the tick, and once more in maybe_auto_dispatch.
ReconcileActiveTasks(audit) ==
    /\ step \in {"reconcile", "recheck"}
    /\ Reconcile(audit)
    /\ step' = IF step = "reconcile" THEN "recheck" ELSE "dispatch"
    /\ UNCHANGED <<queue, job, reset, crashes, main, root, lock>>

-----------------------------------------------------------------------------
(* Dispatch. *)

RetryDispatchable(t) == status[t] # "done" /\ packet[t].outcome = "retry"

Dispatchable(t) ==
    /\ t \notin flagged
    /\ RetryDispatchable(t) \/ (status[t] = "todo" /\ claim[t] = None)

\* The guard does not count a retry of e's own task.
FreeFor(e, t) ==
    LET count == Cardinality(OnBoard(e, status, claim))
        own   == IF RetryDispatchable(t) /\ claim[t] = e THEN 1 ELSE 0
    IN  count <= own

WorktreeReady(e) == branch[e] = Home(e) /\ Ahead(e) = {}

Dispatching(e, t) ==
    /\ step = "dispatch"
    /\ e \notin reset
    /\ Dispatchable(t)
    /\ FreeFor(e, t)

\* The board is changed before the launch, which may fail.
Dispatch(e, t) ==
    LET st == [status EXCEPT ![t] = "in-progress"]
        cl == [claim EXCEPT ![t] = e]
    IN  /\ Dispatching(e, t)
        /\ WorktreeReady(e)
        /\ status' = st
        /\ claim' = cl
        /\ flagged' = flagged \ {t}
        /\ \E started \in BOOLEAN :
              /\ Launch(e, t, st, cl, packet, started)
              /\ active' = IF started THEN [active EXCEPT ![e] = t] ELSE active
              /\ retries' = IF started THEN [retries EXCEPT ![e] = 0] ELSE retries
        /\ reset' = reset \cup {e}
        /\ UNCHANGED <<packet, tries, narrated, step, queue, job, crashes, main, root,
                       lock>>

\* A worktree that is not on a clean base branch is reset; the dispatch waits
\* for the next tick.
ResetWorktree(e) ==
    /\ \E t \in Tasks : Dispatching(e, t)
    /\ ~WorktreeReady(e)
    /\ CheckoutFromTrunk(e, Home(e))
    /\ reset' = reset \cup {e}
    /\ UNCHANGED <<board, daemon, step, queue, job, crashes, main, root, lock>>

EndTick ==
    /\ step = "dispatch"
    /\ step' = "poll"
    /\ reset' = {}
    /\ UNCHANGED <<board, daemon, lanes, queue, job, crashes, main, root, lock>>

-----------------------------------------------------------------------------
(* The rest of the world. *)

\* On a task's branch the agent commits for that task, on the base branch for
\* the one it is working on.
Commit(e) ==
    LET b == branch[e]
        t == IF b[2] # Base THEN b[2] ELSE active[e]
    IN  /\ t # NoTask
        /\ <<b, t>> \notin work
        /\ work' = work \cup {<<b, t>>}
        /\ UNCHANGED <<board, daemon, branch, archived, step, queue, job, reset, crashes,
                       main, root, lock>>

\* `batty merge <engineer>` does not take the merge lock.
BattyMerge(e) ==
    /\ ManualMerge
    /\ Ahead(e) # {}
    /\ Land(e, TRUE)
    /\ UNCHANGED <<board, daemon, step, queue, job, reset, crashes, root, lock>>

\* The operator edits or cleans the root checkout at any time, and changes its
\* branch while no merge is under way.
OperatorChangesRoot ==
    /\ RootMayChange
    /\ \/ root = "main" /\ root' = "dirty"
       \/ root = "dirty" /\ root' = "main"
       \/ /\ step \notin {"merge", "verify"}
          /\ \/ root = "main" /\ root' = "other"
             \/ root = "other" /\ root' = "main"
    /\ UNCHANGED <<board, daemon, lanes, step, queue, job, reset, crashes, main, lock>>

\* `batty doctor --fix` removes the lock file when the session is not running.
RemoveStaleLock ==
    /\ step = "down"
    /\ lock = "stale"
    /\ lock' = "free"
    /\ UNCHANGED <<board, daemon, lanes, step, queue, job, reset, crashes, main, root>>

\* The queue, the counts and a merge under way die with the process.
Crash ==
    /\ step # "down"
    /\ crashes < MaxCrashes
    /\ crashes' = crashes + 1
    /\ step' = "down"
    /\ active' = [e \in Engineers |-> NoTask]
    /\ retries' = [e \in Engineers |-> 0]
    /\ tries' = [e \in Engineers |-> 0]
    /\ narrated' = {}
    /\ queue' = <<>>
    /\ job' = NoJob
    /\ reset' = {}
    /\ lock' = IF lock = "held" THEN "stale" ELSE lock
    /\ UNCHANGED <<board, lanes, main, root>>

\* auto_doctor_reset_orphaned_in_progress, in the order of the task numbers:
\* an engineer without an active task is attached to its claimed one; for one
\* that has another, the task goes back to todo and the engineer is released.
Restart ==
    LET held(e)  == {t \in Tasks : claim[t] = e /\ status[t] = "in-progress"}
        rank(t)  == Cardinality({u \in held(claim[t]) : u <= t})
        undone   == {t \in Tasks : /\ claim[t] # None
                                   /\ status[t] = "in-progress"
                                   /\ rank(t) % 2 = 0}
        last(e)  == CHOOSE t \in held(e) : \A u \in held(e) : u <= t
    IN  /\ step = "down"
        /\ step' = "poll"
        /\ active' = [e \in Engineers |->
                         IF Cardinality(held(e)) % 2 = 1 THEN last(e) ELSE NoTask]
        /\ status' = [t \in Tasks |-> IF t \in undone THEN "todo" ELSE status[t]]
        /\ claim' = [t \in Tasks |-> IF t \in undone THEN None ELSE claim[t]]
        /\ UNCHANGED <<flagged, packet, retries, tries, narrated, lanes, queue, job, reset,
                       crashes, main, root, lock>>

-----------------------------------------------------------------------------
Complete(e) ==
    \/ CompleteRecovery(e)
    \/ \E o \in {"retry", "evidence"}, n \in BOOLEAN : CompleteRejected(e, o, n)
    \/ CompletionErrors(e)
    \/ CompleteQueued(e)
    \/ \E d \in {"queue", "manual", "override"} : CompleteForReview(e, d)
    \/ CompleteDirect(e)

ProcessMergeQueue ==
    \/ QueueEmpty
    \/ SkipRequest
    \/ RedispatchRetry
    \/ BlockedByDirtyMain
    \/ QueueErrors
    \/ StartMerge

Merge ==
    \/ MergeConflict
    \/ MergeFails
    \/ \E returns \in BOOLEAN : MergeLands(returns)
    \/ VerifyPasses
    \/ VerifyFails
    \/ MergeErrors

Daemon ==
    \/ EndPoll
    \/ ProcessMergeQueue
    \/ Merge
    \/ \E audit \in BOOLEAN : ReconcileActiveTasks(audit)
    \/ EndTick
    \/ Restart

Next ==
    \/ \E e \in Engineers : Complete(e)
    \/ Daemon
    \/ \E e \in Engineers, t \in Tasks : Dispatch(e, t)
    \/ \E e \in Engineers : ResetWorktree(e) \/ Commit(e) \/ BattyMerge(e)
    \/ OperatorChangesRoot
    \/ RemoveStaleLock
    \/ Crash

Spec == Init /\ [][Next]_vars

\* The daemon's loop goes on (poll.rs) and is restarted after a crash.
LiveSpec == Spec /\ WF_vars(Daemon)

-----------------------------------------------------------------------------
(* Properties. *)

\* Every variable has its type; no engineer is sent back for more than two
\* rebase conflicts (retry_counts), and the merge queue keeps to its bound.
\* The iterations of verification_states have no such bound but their type's.
TypeOK ==
    /\ status \in [Tasks -> Statuses]
    /\ claim \in [Tasks -> Engineers \cup {None}]
    /\ flagged \subseteq Tasks
    /\ packet \in [Tasks -> Packets]
    /\ step \in Steps
    /\ active \in [Engineers -> Tasks \cup {NoTask}]
    /\ retries \in [Engineers -> 0..2]
    /\ tries \in [Engineers -> 0..IterationLimit]
    /\ narrated \subseteq Tasks
    /\ queue \in Seq(Requests) /\ Len(queue) <= MaxQueue
    /\ job \in [task : Tasks \cup {NoTask}, eng : Engineers \cup {None}, direct : BOOLEAN,
                pre : SUBSET Tasks, landed : SUBSET Tasks]
    /\ reset \subseteq Engineers
    /\ crashes \in 0..MaxCrashes
    /\ branch \in [Engineers -> Branches]
    /\ work \subseteq Branches \X Tasks
    /\ main \subseteq Tasks
    /\ root \in {"main", "dirty", "other"}
    /\ lock \in {"free", "held", "stale"}
    /\ archived \subseteq Branches \X Tasks

\* A task is done only when its own commits are on main: move_task_to_done
\* follows a merge of that task's branch, whatever its engineer has done
\* between the completion and the turn of the request.  (For one engineer: a peer
\* that takes over a retry can make verification skip the branch check.)
DoneIsMerged == \A t \in Tasks : status[t] = "done" => t \in main

\* The commits on a task's branch leave it for main or for an archive branch, and
\* in no other way: no checkout, reset or merge drops them.  (What is committed on
\* an engineer's base branch has no such promise.)
TaskWorkKept ==
    [][\A w \in work \ work' :
          (\A e \in Engineers : w[1] # Home(e)) => w \in archived' \/ w[2] \in main']_vars

\* A failed post-merge verification takes back what its own merge brought:
\* reset_main_to undoes no other merge.
OnlyOwnReverted == [][(main \ main') \subseteq job.landed]_vars

\* The end of a merge takes only the merged task off its engineer: the
\* clear_active_task of execute_queued_merge never ends a newer assignment.  (For
\* one engineer without `batty merge`: a request made on a base branch that waits
\* behind those of others can meet a later task's commits on the same branch.)
MergeReleasesOwn ==
    [][(step \in {"merge", "verify"} /\ step' # "down") =>
          (\A e \in Engineers : \/ active'[e] = active[e]
                                \/ active'[e] = NoTask /\ active[e] = job.task)]_vars

\* When dispatch begins, no two engineers work on one task, and each works on
\* a task it holds on the board: two rounds of reconcile_active_tasks settle
\* what completions, merges, retries and crashes have left.
OwnershipSettled ==
    (step = "dispatch" /\ reset = {}) =>
        \A e \in Engineers : active[e] # NoTask =>
            /\ claim[active[e]] = e
            /\ status[active[e]] \in {"todo", "in-progress"}

Queued(t) == \E i \in 1..Len(queue) : queue[i].task = t

\* Every request leaves the merge queue (process_next): merged, sent back,
\* refused or lost to an error, but not stuck.
QueueDrains == \A t \in Tasks : Queued(t) ~> ~Queued(t)

\* Every merge gives the merge lock back (Drop of MergeLock) or, in a crash,
\* leaves it stale.
LockReleased == (lock = "held") ~> (lock # "held")

Waits(e, t) ==
    /\ claim[t] = e
    /\ status[t] = "in-progress"
    /\ packet[t].outcome # "retry"
    /\ active[e] # t

\* A task in progress is taken up by the engineer who claims it or goes back
\* to todo, after a failed launch and after a restart too; only a task whose
\* failed verification is kept for a retry may wait
\* (normalize_engineer_active_task_ownership).
ClaimTracked == \A e \in Engineers, t \in Tasks : Waits(e, t) ~> ~Waits(e, t)
=============================================================================
