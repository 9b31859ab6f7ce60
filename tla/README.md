# Batty: a TLA+ verification project

Batty (`src/`) supervises a team of coding agents. A daemon polls one *shim*
process per agent, delivers messages to the shims, dispatches board tasks to
engineers who work in git worktrees, verifies what they report as complete and
merges it to the trunk. This directory holds TLA+ models of the parts where
Batty's own logic is concurrent or spread over many steps, TLC configurations
that check them on small instances, and TLAPS proofs for all instances.

`PROJECT.json` lists components, runs, mutants, the map from definitions to
source lines, findings, hazards and theorems. Paths below are relative to
`src/src/` unless they start with `docs/` or `planning/`.

## 1. Inventory

| Component | State | Operations | Talks to | Hard because |
|---|---|---|---|---|
| PTY shim runtime, `shim/runtime.rs` | `ShimInner`: state, message queue, pending id, follow-up count | send, query, shutdown, kill; end of turn, exhaustion, end of file; Kiro idle; screen poll | daemon over a socket, agent over a PTY | four threads, writes and events outside the lock |
| SDK, Codex and Kiro shim runtimes | the same with structured results | the same | daemon, agent stdin/stdout | failed write after the state change, late results |
| Wire protocol, `shim/protocol.rs` | a byte stream | send, receive | shim and daemon | cloned channels, two writes per frame |
| Shim handles, `team/daemon/health/poll_shim.rs` | per member: state, in-flight message, acknowledgements due | one handler per event | delivery, completion | events late, lost with the process, out of order |
| Delivery and inboxes, `team/delivery/`, `team/inbox.rs` | pending queues, failed deliveries, Maildirs | queue, send live, acknowledge, expire, retry, digest | shims, all of the daemon | duplicates, losses on error, caps |
| Completion, `team/merge/completion.rs` | `active_tasks`, `verification_states`, `retry_counts`, narration counts | one handler with many outcomes | board, worktrees, merge queue | retries, escalation, stale claims |
| Merge queue and lock, `team/daemon/merge_queue.rs`, `team/merge/` | queue in memory, lock file, main | skip, redispatch, merge, verify, revert, finish | git, board | staleness of the request, crash, other processes |
| Reconciliation, `team/daemon/automation.rs` | `active_tasks` against the board | clear stale, adopt, release excess, align worktrees | board, worktrees | repairs what everyone else left |
| Dispatch, `team/dispatch/` | dispatch queue, cooldowns | choose, reset worktree, claim, launch | board, worktrees, shims | board changed before a launch that may fail |
| Board workflow, `team/workflow.rs`, `team/task_cmd.rs` | task files | transitions, claims, block, review | everybody, the CLI too | no lock, many writers |
| Time-driven automation (claim TTLs, stale reviews, unblocking) | timestamps | one per rule | board, delivery | races with progress |
| Restart, stall, context exhaustion | checkpoints, restart counts | restart an agent with its task | shims, dispatch | crash between the steps |
| Watchdog and life cycle, `team/daemon_mgmt.rs`, `team/session.rs` | pid file, crash record, snapshot, resume marker | start, stop, restart-if-stale; launch, observe exit, back off, trip breaker | daemon process, tmux | processes that share only files and signals, orphans, time limits |
| Policy, allocation, interventions, bridges, telemetry, configuration, tmux, CLI, doctor, Tact | see `PROJECT.json` | | | advisory, I/O or pure scoring |

What makes them correct, in one sentence each: a shim loses no message silently,
writes none twice, and says "delivered" and "complete" only of what it did;
delivery gets every message to its recipient or to its inbox, and loses one only
with the process that held it; a turn whose agent falls silent ends; a task is done only
when its own commits are on main, and no commit disappears; one task has one
engineer; the merge lock and the queue never stop the team; the board and
`active_tasks` agree again after any failure; one daemon works at a time, it is
launched no more often than the breaker allows, and a stopped team leaves no
process behind.

## 2. Plan

Done:

1. `ShimRuntime`: the PTY runtime, safety and liveness; `ShimRuntimeProofs` and
   `ShimMessageProofs`: all its safety properties.
2. `MergePipeline`: completion, merge queue, lock, merge, verification and revert,
   reconciliation, dispatch, crash and restart; `MergeProofs`: types, commits, reverts,
   ownership.
3. `Delivery`, with the daemon's shim handles and the inbox, as an implementation of
   the abstract `MessageLedger`; `DeliveryProofs` and `DeliveryOnceProofs`: its types, the
   refinement, and `GivenOnce`.
4. `SdkRuntime`: the Claude SDK runtime; `SdkRuntimeProofs`: all its safety properties.
5. `Watchdog`: start, stop and restart of the daemon, crash record and breaker;
   `WatchdogProofs` and `WatchdogBreakerProofs`: all its safety properties.

Next:

6. The rest of `OwnershipSettled`: an active task is not blocked after two rounds.
7. `WireChannel`: frames on the socket (two writes per frame through cloned
   channels), refining a FIFO of messages.
8. `BoardAutomation`: claim TTLs, stale reviews and manager reviews on
   `MergePipeline`'s board; multi-repo merges; the Codex and Kiro ACP runtimes.

## 3. The modules

### ShimRuntime

Models `run` of `shim/runtime.rs` with `shim/common.rs`. The variables `state`,
`pending`, `queue`, `iterations`, `engaged`, `warned` and `dialogs` are the fields of
`ShimInner`. Each section under the mutex is one action of its thread; all the
thread does after it drops the lock (events, the paste, the delayed Enter, the
second lock that sets Working) is put in `todo[thread]` and done one step at a
time, so the other threads interleave exactly where the code lets them. A step
says whether the code gives up when a send fails (`?`) or ignores it (`let _`).

* Reader: `ReaderContextApproaching`, `ReaderNoTransition`, `ReaderTransition`,
  `ReaderContextExhausted`, `ReaderTurnEnd` (queue pop and follow-up included), `ReaderEof`.
* `KiroIdle` and `PollIdle`: the Kiro idle thread and the 5-second screen poll.
* Command thread: startup (`MainDismissDialog`, `MainReady`, `MainReadyTimeout`,
  `MainStartupDead`), `MainSendMessage` by state, `MainQuery`, `MainShutdown`,
  `MainStopped`, `MainKill`, `MainJoin`.
* Outside the lock: `WriteOk`, `WriteFails`, `SetWorking`, `SendEvent`, `SendEventFails`.
* External: `AgentExits`, `DaemonDisconnects`.

Abstracted: time (a delay may be over or not when a thread looks), the screen (the
classifier's verdict), texts. `sent`, `submitted` and `prompt` record what reached
the daemon and the agent.

### SdkRuntime

Models `run_sdk` of `shim/runtime_sdk.rs`: the command loop (`Main`), the thread that
reads the agent's stdout (`Reader`) and the agent. `state`, `current`, `queue`, `session`
and `retests` are the fields of `SdkState` the control depends on. As in `ShimRuntime`
a section under the mutex is one action, and what the thread does afterwards
(`mainDo`, `readerDo`: events, writes to the agent) takes a step each. Only events that
name a message are kept, in `told`.

* Command loop: `SendNow`, `SendLater`, `SendRefused`, `Keepalive`, `KeepaliveFailed`, `Stop`.
* Reader: `ReaderWaits` decides, before the wait, whether it has a timeout
  (`stdout_read_timeout`); then one action per kind of line, `Stall`
  (`force_stalled_completion`) and `ReadEof`.
* The agent (external) gives one result per input; it may speak first, ask for a
  tool, fall silent or exit.

Simplified: every message has an id; keepalives are bounded, and none follows a
stall; the wait of Shutdown is folded into `Stop`; sends to the daemon do not fail;
the pipes do not fill.

### Delivery and MessageLedger

`Delivery` is the path of messages from the daemon to one member. `phase` is the
place in the tick of `team/daemon/poll.rs`: `poll` (events of the shim, one by one),
`timeouts`, `inbox`, `retry`, `expire`.

| Variables | In the code |
|---|---|
| `handle`, `inflight`, `member` | `AgentHandle.state`, `in_flight_message`, `MemberState` |
| `pending`, `failed`, `acks` | `pending_delivery_queue`, `failed_deliveries`, `pending_shim_acks` |
| `box` | the Maildir: where a message's file is, flat or tiered |
| `stale` | messages the daemon keeps from the agent (notices about merged tasks, orchestrator-only text) |
| `shim`, `wire`, `shimq`, `events` | the shim and the two directions of its socket |
| `given`, `fate` | history: how often a message was written to the agent, why it will not be |

* Routing (`Route`, `QueueCapped`, `Drain`, `SendLive`, `InboxFallback`) works on a record
  of the state it changes, because the code calls it from many handlers and in loops.
  The loops (`Drain`, `Without`, `SendEach`, `RetryEach`) are functions of the number of
  rounds (`Rounds`), so that they can be proved about by induction over that number.
* `OnReady` ... `OnDied` are the arms of `handle_shim_event`; `ColdRespawn` and `ForceIdle`
  are `check_working_state_timeouts`; `DeliverInbox` is `deliver_inbox_messages` with the
  manager's digest and the architect's batch; `RetryFailed` and `ExpirePending` the rest.
* `Shim...`: what `ShimRuntime` does, as far as the daemon can see it.
* Faults: crash of the daemon, I/O error, death of the agent, kill of the shim,
  exhausted context, parked back end. Each is counted. `refusals` counts, for each
  message, the writes of it that the shim has reported as failed.

`MessageLedger` is what delivery promises: the places a message may be in (inbox,
memory, channel, given, closed, lost), the moves between them, and the trouble it
takes to lose it: memory is lost in the step of a crash or an I/O error, the channel
with the shim or, while the shim is up, by the second refused write of the message (a
retry leaves no entry for its answer), the inbox never. `Accounted` in `Delivery` is
`Ledger!Spec` under the refinement mapping `Place`, `Link`, with the refusals and the
faults as they are. A message may go from memory straight to the agent: a retry that a
dead shim did not take is kept for the next retry, and a supervisor's is also in flight
and goes back to the queue when its shim is replaced.

Simplified: one recipient; a message in the inbox is one file even if it was filed
twice; the order within an inbox pass is arbitrary, and so are ages; assignments in
the inbox belong to dispatch; the digest's cooldown and failures to spawn a shim are
left out, and what the old shim has not read dies with it; the shim's queue does not
overflow here (it does in `ShimRuntime`).

### Watchdog

Watchdog `i` is the i-th ever spawned, `child[i]` the daemon it launched last; they
and the commands share the files `pid`, `record`, `snapshot`, `marker` and the session.
A command (`op`) takes its steps one at a time: `StartTeam`, `BuildLayout`,
`SpawnWatchdog`, `CheckSpawned`, `WritePid`; `StopTeam`, `RequestShutdown`, `Wait...`,
`ForceKill`, `KillSession`, `WriteMarker`; `RestartIfStale`. The watchdog: `Boot`, `Launch`,
`Observe` (`record_watchdog_crash`), `BackoffEnds`, `StopDaemon`, `StopWatchdog`. The
daemon: `ComesUp`, `Heartbeat`, `SessionGone`, `SaveClean`, `ExitClean`, `HotReload`,
`NoSession`, `StartupFails`, `Crash`.

Timestamps are ages, and `Tick` waits while a process has something to do at once, so
that the back-off and the wait for the session take the time the code gives them.
`WatchdogAssumption` relates the constants as the code's values are related:
(5 - 1) * (6 + 2^3) < 60. The scaled instance satisfies it too.

All these files are written in place by `fs::write`, which truncates first. So a write
may fail or be cut off: the snapshot is then `torn` (`PersistFails` when the write fails,
`CutOff` when the daemon dies in it) and does not ask for a resume; the crash record
counts as empty (`RecordKeptOrLost`); a watchdog that cannot write its record or its child's
pid returns and leaves behind the daemon it has just launched (`WatchdogFails`); a start
whose layout or watchdog cannot be made ends (`StartFails`); a pid that cannot be written
(`WritePidFails`) leaves a watchdog running that no file names; and tmux may refuse to
kill the session (`KillSessionFails`). `unnamed` remembers, until the next start, that the pid of
a watchdog could not be written; `PidMayFail` bounds the watchdogs to which that may
happen, because one without its file goes on beside whatever `restart-if-stale` starts,
which multiplies the states.

Simplified: one command at a time, none killed midway; the process table can be
read and a child's status be asked for (a failing `try_wait` makes the watchdog record a
crash and launch a second daemon although the first may live); nobody sends SIGINT to
the daemon; a pid file is never written in part, and files that are to be removed are; an
old crash leaves the record when it gets old and not when the next one is added;
restart counts, reasons and logs are left out.

### MergePipeline

One daemon thread; `step` says where its tick is, in the order of
`team/daemon/poll.rs`: `poll` (shim events, completions), `queue` (one merge
request), `merge`, `verify`, `reconcile`, `recheck`, `dispatch`, `down`. Between any
two steps run the agents (`Commit`), `batty merge` (`BattyMerge`), the operator of the
root checkout and crashes.

| Variables | In the code |
|---|---|
| `status`, `claim`, `flagged`, `packet` | the task files: status, `claimed_by`, `blocked`/`blocked_on`, branch and outcome of the workflow metadata |
| `active`, `retries`, `tries`, `narrated` | `active_tasks`, `retry_counts`, `verification_states[..].iteration`, `narration_rejection_counts` |
| `queue`, `job`, `lock` | `merge_queue`, the request being merged with `pre_merge_head`, `.batty/merge.lock` |
| `branch`, `work`, `archived`, `main`, `root` | worktree checkouts, commits not yet on main by branch, archive branches, main, the root checkout |
| `reset`, `crashes` | engineers handled by this tick's dispatch; a bound |

* `Complete(e)` is `handle_engineer_completion`: recovery of a branch, rejection (and
  escalation), error, accepted for the queue, manual review, direct merge.
* `ProcessMergeQueue` is `execute_queued_merge` up to the merge: skip, redispatch of a
  retry, dirty main, error, start. `Merge` is the rest: conflict, failure, error,
  landing with the reset of the worktree, post-merge verification, revert.
* `ReconcileActiveTasks` is `reconcile_active_tasks`, run twice before dispatch: by
  the tick and again by `maybe_auto_dispatch`. The third call, at the start of
  `process_dispatch_queue`, finds nothing left to change once ownership is settled
  (`OwnershipSettled`) and is left out. A round with `audit` also aligns worktrees.
* `Dispatch`, `ResetWorktree`: an entry of `process_dispatch_queue`. A launch may fail
  before the lane is prepared (another task's branch, a branch in use) or after (the shim
  is gone or does not take the assignment), with the task's branch already checked out.
* `tries` counts every rejection, those for want of commits too, which never escalate:
  it may pass `MaxIterations` and stops at `IterationLimit`, where `saturating_add` does.
* `Crash`, `Restart` (`auto_doctor_reset_orphaned_in_progress`), `RemoveStaleLock`.

Commits are reduced to the task they name, branches to <engineer, task or base>,
and test results, risk decisions and conflicts are free choices. Definitions named
`Faulty...` (and in the other modules those under "Faulty variant") are deliberately
wrong variants that no action uses; each breaks the
property it is paired with in `PROJECT.json` ("mutants"), which shows that the
property depends on that piece of code.

## 4. Runs

| Run | Instance | Shows |
|---|---|---|
| `shim_kiro` | 2 tracked messages, Kiro thread, queue of 1 that overflows, 1 follow-up | `TypeOK`, `QueueDiscipline`, `NoSilentLoss`, `NotWrittenTwice`, `AckMeansSubmitted`, `CompletedOnce` |
| `shim_live` | 1 message, Claude, the daemon may leave, fair threads | `DeathIsReported`, `ShimStops`, `StartupEnds`, `DirectSendAnswered` |
| `sdk` | 3 messages, queue of 1, 1 keepalive, 1 follow-up | `TypeOK`, `Accounted`, `CompletionIsOwn`, `ReportsAgree`, `ExhaustedIsFinal`, `WatchedTurnEnds` |
| `sdk_unwatched` | violation | a turn begun during an untimed wait never ends |
| `delivery_engineer` | both kinds of engineer, 2 messages of the daemon about one task, 2 faults, 2 refused writes of each, 3 attempts, 1 restart | `TypeOK`, `GivenOnce`, `Accounted` (the refinement) |
| `delivery_supervisor` | Claude engineer, manager, architect; 3 messages, tiered inboxes; 1 fault, 1 restart | `Accounted` |
| `delivery_live` | 2 messages (1 of the daemon, 1 in the inbox), 1 refused write, fair tick and shim | `GivenOnce`, `InboxServed`, `RoutedSettles` |
| `delivery_stranded` | violation | an inbox message whose shim died before its answer is never sent again |
| `merge_queue` | 1 engineer, 2 tasks, queue of 2, all decisions, post-merge verification, budget of 2, iterations to 3 | `TypeOK`, `DoneIsMerged`, `OnlyOwnReverted`, `MergeReleasesOwn`, `TaskWorkKept` |
| `merge_team` | 2 engineers, 1 task, 1 crash, `batty merge`, changing root checkout | `OwnershipSettled` |
| `merge_live` | 1 engineer, 2 tasks, 1 crash, fair daemon | `QueueDrains`, `LockReleased`, `ClaimTracked` |
| `watchdog` | 2 watchdogs, breaker at 2 crashes in 3 ticks, the second's pid may not get written, fair | `TypeOK`, `OneDaemon`, `LaunchesBounded`, `RunningIsStoppable`, `WorkResumed`, `TeamEnds` |

The two violation runs check what a test or a text of the program says; "findings"
quotes each. Further sentences of the documents that the code does not keep are in the
notes of the hazards: with `Tiered` set `InboxServed` fails, because delivery reads only
the flat inbox; with two refused writes of a message `RoutedSettles` fails, because a
retry leaves no entry for its answer (`MessageLedger` allows the loss there and nowhere
else); with `ManualMerge` and `PostVerify` together `OnlyOwnReverted` fails, because
`batty merge` takes no merge lock; commits on a base branch are dropped by the reset
after a merge, so that `TaskWorkKept` is about task branches; when the operator has left
main in the root checkout, a merge goes through an isolated worktree and `update-ref`,
the `git reset --hard` after a failed verification moves the operator's branch, and the
rejected commits stay on main while Batty says that they were reverted; the screen poll
thread of the PTY shim leaves messages in the queue of an Idle shim, and its command
thread overwrites Dead by Working. A completion whose diff analysis fails is merged at
once (`CompleteDirect`), although the guide lists it under review. A rebase conflict in
the merge queue leaves the task in review, although `docs/getting-started.md:188` says
`in-progress`, and an error during verification starts the iteration count again;
completions without commits are rejected without limit, whatever `max_iterations` says.
An architect's batch is sent again in every tick until it is acknowledged, and a
supervisor's message in flight is replayed after a restart, which is why `GivenOnce` is
about engineers. In the SDK runtime a failed keepalive overwrites Dead by Idle, and
follow-ups to failing tests have no end. The watchdog's SIGTERM kills a daemon that
handles only SIGINT, so that a clean snapshot is left only when the session goes first;
`WorkResumed` shows that the work is resumed all the same, with one exception: a daemon
that dies in the middle of writing its snapshot leaves a file that cannot be parsed, and
when the session is then lost, the next `batty start` finds no marker and launches
without `--resume`. `RunningIsStoppable` has an exception too: after a failed write of
the pid file `batty stop` cannot signal the watchdog, which ends only with its session.

Bounds. Two messages are enough for one in flight and one queued, which is what the
shim's threads race about; overflow needs a queue of one and, in the SDK runtime, a
third message. In `Delivery` two messages about one task reach the cap (scaled to one),
one fault can hit every step, and two can follow one another; two refusals are what a
retry needs to be lost, and three attempts let one fail and the last be escalated. Two
watchdogs are one predecessor and one successor, which is what the pid file, the
snapshot and a second daemon are about; two crashes are the first, after which the
watchdog backs off, and the one that trips. A threshold of three, whose second back-off
is longer, makes ten times as many states; what the breaker and the back-off do for
every threshold is proved (section 6). So is what a failed pid write does to the safety
properties: with it allowed to both watchdogs (1.6 million states) they hold as well,
but liveness takes too long there. Two tasks let a stale request meet a newer
assignment; two engineers with one task are the smallest contention for a claim; a
budget of two separates the first rejection from the last, and a limit above it lets
rejections without commits pass the budget. The bounds of the models (`MaxQueue`,
`MaxCrashes`, `MaxIterations`, `IterationLimit`, `MaxQueueDepth`, `MaxDialogs`,
`MaxFaults`, `MaxRefusals`, `MaxRestarts`, `MaxBatches`, `MaxKeepalives`, `MaxStarts`,
`PidMayFail`) are constants, named where they are declared. Symmetry is used for
messages and engineers where only invariants and action properties that treat them alike
are checked. The shim and SDK runs do not check deadlock: a shim that has stopped stays
so. The others do.

Known limits of the pipeline runs. Two engineers *and* two tasks do not fit
(TLC passes three million states without an end). A search of that instance finds
long behaviours in which `DoneIsMerged` fails: a peer is given a retry whose previous
engineer still works, `find_claimed_task_for_worktree` then resolves nothing for the
latter, and the mismatch check is skipped. The same happens with one engineer,
direct merges and a crash, when verification resolves another claimed task than the
active one. So `DoneIsMerged` is claimed for the instance of `merge_queue` only; the
hazard is listed with this note. `MergeReleasesOwn` has the same limit: with two
engineers, three tasks, a queue of three and `batty merge`, an engineer that works on its
base branch has its request wait behind two duplicates of its peer's, is reset and
given another task, and `batty merge` takes it back to the base branch with that task's
commits; `unavailable_branch_detail` then sees the branch the request names, ahead of
main, and the end of the merge clears the newer assignment. A merge may also carry another task's commits from
a shared base branch, since the reference check only asks that the task's own number
appear.

## 5. Fairness

`shim_live`: weak fairness of each thread of the shim, of the reader's end of file
once the agent is gone, of the startup loop with its timeout, and of the command
loop when the daemon has told it to stop or has left. They are operating system
threads in loops that block only on bounded waits; nothing is assumed of the agent,
the screen or the daemon's messages. `sdk`, `sdk_unwatched`: weak fairness of the reader,
of the timer of a timed wait and of what the command loop has begun; nothing of the
agent. `delivery_live`, `delivery_stranded`: weak fairness of the tick and of the shim, which
serves its socket and whose agent finishes its turns; strong fairness of reading
events, of the working-state timeout and of the retries and expiries that are due,
since in the code each of these looks again in every tick and its timer goes on
running in between. `merge_live`: weak fairness of `Daemon`, that is, the tick goes on
and a crashed daemon is started again. `poll.rs` runs the tick in a loop whose steps
catch their errors, and the watchdog restarts the daemon until its breaker trips,
which takes more crashes than the instance has. No fairness is assumed of
completions, commits, dispatches or the operator. `watchdog`: weak fairness of every
live process, of the command under way and of time; none of crashes, kills, hot
reloads or of commands being given.

## 6. Proofs

Every theorem holds for all values of the constants that satisfy the named `ASSUME` of
its model: any number of messages, engineers, tasks, watchdogs and crashes, any queue
depth, threshold and window. TLC evaluates these assumptions in every run, and it
checked each invariant below on the runs' instances before it was proved. A proof that
a step keeps an invariant has one step per action; what several actions do to the
same piece of state is a lemma.

**PTY shim** (`ConstantsAssumption`). `TypeCorrect` and `QueueDisciplined` in
`ShimRuntimeProofs`: `QueueDiscipline` is not inductive, because the command thread sets
Working from its list of steps after an unlocked write, and the failure of a write or
a send depends on what those lists hold; the invariant is `TypeOK /\ QueueDiscipline`,
where `TypeOK` gives the type of every step in `todo`. `ShimMessageProofs` proves
`NotWrittenTwice`, `AckMeansSubmitted`, `NoSilentLoss` and `CompletedOnce` from `MessageInv`,
which says what the lists of all threads may hold: a message is with the daemon, queued
or written (`PlacesDisjoint`), a message about to be written is in none of these
(`WritesFresh`) and no second thread has a first write of it (`WritesOrdered`), an
acknowledgement follows its Enter (`AcksOrdered`), a list with a write speaks of one
message, so that a failed write throws away nothing else (`OneMessage`), a message sent
is somewhere (`AllKept`), and so on for completions.

**SDK shim** (`SdkAssumption`: the messages come in an order without repetition).
`SdkTypeCorrect`; then `ReportsAgree`, `CompletionIsOwn`, `Accounted` and `ExhaustedIsFinal`
from four parts: `Placed` (a message is in one place), `Delivered` (what the
daemon is told, and what the agent has, was written), `Turns` (as long as no turn was
given up there is one input between the shim's decision and the agent's result, and it
is that of the turn in flight) and `Kept` (a message that has come is somewhere).
`CompletionIsOwn` is why `Turns` is needed: results carry no id, and only the absence of a
second turn makes them those of the current message.

**Pipeline** (`PipelineAssumption`). `PipelineTypeCorrect` from `TypeOK` and `JobOK` (a merge under
way is that of a task and an engineer); of limits it has that of the rebase conflicts,
and none for the rejections, because the code has none. `TaskWorkIsKept`: every step that drops commits
from a branch does so through `CheckoutFromTrunk`, a landing merge or the reset of a base
branch. `OnlyOwnIsReverted`, for `ManualMerge = FALSE`, from `HeadInv`: from the moment
`git_head` is read, main is what was read, and then that and what the merge landed.
(With manual merges it is false, see section 4.) `OneOwner`: after the first round of
reconciliation every active task is claimed by its engineer and neither in review nor
done, and nothing undoes that before the first dispatch; so no two engineers share a
task. It is `OwnershipSettled` without "not blocked", which needs the second round and an
invariant about blocked retries that a crash leaves claimed.

**Delivery** (`DeliveryAssumption`). `DeliveryTypeCorrect` is `TypeOK`; it is inductive, once
the routing code is known to keep it. `DeliveryImplementsLedger` is the refinement. Its
inductive invariant `Inv` is `TypeOK` and `Tracked`: an id tells what its frame carries
(`Proper`); a message that is neither given nor filed nor closed travels alone, under its
own id (`Carried`); an entry that awaits an answer covers files of the frame with its id
(`AckFits`); what travels or is filed has been sent (`Sent`); what the shim acknowledges is
given (`Delivered`); the answer to a message on its first way to the agent is awaited
(`Awaited`), there are as many reports of refusals as failed writes as far as the first
(`OneRefusal`), and the first is awaited until it is read (`RefusedAwaited`); a supervisor's
message in flight is on its way while its shim is there (`Replayable`). They are what makes
the loss of a refused message a
*second* refusal. The routing code is proved once: `Moved` relates the record it starts with
and the one it ends with, and says of every message that if it was in the inbox, closed,
in memory or on the channel it is there or further on, unless an I/O error has been
raised. A loop is a use of `UpTo` (a smallest counterexample in the order of the natural
numbers, since the library's induction theorems take an operator and cannot be used) and
of `RunExists` (its rounds have states), and every handler that routes is a use of
`RoutesDone`. The other handlers and the shim's steps move a message in one place, one lemma
each. The last step maps Next to the ledger's, message by message.

`DeliveryGivesOnce` in `DeliveryOnceProofs` is `GivenOnce`. The ledger says where a message may
be, not how often it is there, so this takes a second invariant, `Lone`: of an engineer, as
long as nothing has failed, `Copies(m)` is at most one. It counts the frames with the message
in the queue, the failed deliveries, the socket, the shim's queue and the shim's reports of
failed writes, one for an inbox file that no awaited answer stands for (`Open`), and how
often the agent was given it. Each handler moves a copy from one of these to another or
drops it; a new one is made only of a message that was never sent, of which there is none
(`UnsentNone`, from `Sent` of `Inv`). A sent inbox message is two things, a frame and a file:
`Open` no longer counts the file because the entry in pending_shim_acks stands for exactly
this message (`ExactAcks`), which is why an answer or a refusal may remove the entry. The
routing code is again proved once (`Frugal`: at most one copy more of the messages of the
frame it is given); in a loop, what it has made and what is still ahead of it in the queue
it took out (`Ahead`) come to no more than what there was. Batches are left out, since only
supervisors get them, and their messages can be given twice (section 4).

**Watchdog** (`WatchdogAssumption`). `LifeInvariant` in `WatchdogProofs` has six parts: `Shape` (types),
`ControlOK` (where each command can be), `StartedAlone` (the processes before a started
watchdog have ended, and there is none while a start is between its check and its
spawn), `ClosingWithoutSession`, `PidNames` (while there is a session, and unless a write
of the pid file has failed, every watchdog is the one that file names or is about to) and `Resuming` (while a daemon
works, and after work was lost, the snapshot is unclean or torn, and a watchdog that will
not resume has nothing to take up that a snapshot tells of). They give `OneDaemon`, `RunningIsStoppable` and `WorkResumed`.
`BreakerHolds` in `WatchdogBreakerProofs` pairs the launches of a watchdog with the crashes of
its record (`Paired`): every launch but the open one has a crash that is no older, so the
record is at least as long as the list of launches, also after a tick has dropped the
old ones. For this `Retained` is written as the suffix after the last age that is too
old, which is what `retain` leaves of timestamps in order. `WatchdogTypeCorrect` counts the
ended watchdogs: each of them has made the record longer than the threshold allows by
one at most (`Counted`).

Only model-checked:

* every liveness property (fairness and ENABLED are out of the prover's reach);
* `DoneIsMerged` and `MergeReleasesOwn`, which are false in larger instances (section 4),
  and `OwnershipSettled` beyond `OneOwner`.

## 7. Not modelled

In the pipeline: uncommitted edits (but for the reset they prevent after a merge)
and failures of git itself (so also reconciliation's quarantine of a done lane and the
error that keeps its entry in `active_tasks`), refresh of stale worktrees, claim TTLs, checkpoint
restore with `--resume`, orphan rescue with its cooldowns, the count of failed branch
recoveries, the scope fence, several repositories, task dependencies, WIP policy and
ranking, statuses `backlog` and `archived`, and what members are thought to be doing
(`MemberState`), which is left open. In the shim: the session statistics thread and
the log of the terminal. What `SdkRuntime`, `Delivery` and `Watchdog` leave out is said
with each in section 3. The remaining components are in `PROJECT.json` with the reason
for each; those of section 2 are next.

The models stand for a small share of the repository's lines, and will: of its 186000
lines more than half are the unit tests inside the source files, and most of the rest
is text processing (prompts, notices, board files, terminal screens, metrics), calls of
git and tmux, and command line handling, where there is no control to check or
nothing but what an external program answers.
