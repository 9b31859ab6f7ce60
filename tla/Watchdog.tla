------------------------------ MODULE Watchdog ------------------------------
(***************************************************************************)
(* Starting, supervising and stopping the daemon                           *)
(* (src/src/team/daemon_mgmt.rs, session.rs, daemon/poll.rs).              *)
(*                                                                         *)
(* `batty start`, `batty stop` and `batty daemon restart-if-stale` are run *)
(* one at a time; each takes several steps, between which the watchdogs    *)
(* and the daemons they have launched go on.  The processes share only     *)
(* files: the pid file, the watchdog's crash record, the daemon's snapshot *)
(* and the resume marker.  Watchdog i is the i-th that was ever spawned,   *)
(* and child[i] the daemon it launched last.                               *)
(*                                                                         *)
(* Time is counted in ticks, and none passes while a process has something *)
(* to do at once.                                                          *)
(***************************************************************************)
EXTENDS Naturals, Sequences, FiniteSets, SequencesExt

CONSTANTS
    MaxStarts,    \* bound on the watchdogs ever spawned
    Threshold,    \* WATCHDOG_CIRCUIT_BREAKER_THRESHOLD
    Window,       \* WATCHDOG_CIRCUIT_BREAKER_WINDOW_SECS
    MaxBackoff,   \* WATCHDOG_MAX_BACKOFF_SECS
    SessionWait,  \* how long a daemon waits for its tmux session
    PidMayFail    \* the watchdogs whose pid file may fail to be written (a bound)

\* With the code's values the last conjunct is 4 * (6 + 8) < 60: the slowest
\* series of launches that find no session still falls into one window.
ASSUME WatchdogAssumption ==
    /\ {MaxStarts, Threshold, Window, MaxBackoff, SessionWait} \subseteq Nat \ {0}
    /\ PidMayFail \subseteq 1 .. MaxStarts
    /\ Threshold >= 2
    /\ (Threshold - 1) * (SessionWait + 2 ^ (Threshold - 2)) < Window

VARIABLES
    op,        \* [cmd, at, on]: the command being run, where it is and the
               \* watchdog it has signalled
    spawned,   \* how many watchdogs were spawned
    pid,       \* daemon.pid: the watchdog it names, 0 when there is no file
    record,    \* watchdog-state.json: the ages of the crash_timestamps
    snapshot,  \* daemon-state.json: whether there is none, it cannot be parsed
               \* ("torn"), or its clean_shutdown is unset ("running") or set
               \* ("clean"), and whether it is newer than the one a command
               \* that waits has seen before
    marker,    \* the resume marker
    session,   \* whether the tmux session exists
    origin,    \* the command that spawned the watchdog
    watch,     \* where the watchdog is
    term,      \* WATCHDOG_SHUTDOWN_REQUESTED
    resume,    \* resume_on_launch
    crashes,   \* its PersistedWatchdogState.crash_timestamps, as ages
    left,      \* what is left of its back-off
    child,     \* where its daemon is
    category,  \* exit_category of a daemon that has exited
    waited,    \* how long the daemon has waited for the session
    launches,  \* history: the ages of the watchdog's launches in the window
    lost,      \* history: a daemon died without a clean snapshot, and none has
               \* resumed since
    unnamed    \* history: since the last `batty start` began, the pid of a
               \* watchdog could not be written

files    == <<pid, record, snapshot, marker>>
watchdog == <<origin, watch, term, resume, crashes, left, launches>>
daemon   == <<child, category, waited>>
vars     == <<op, spawned, files, session, watchdog, daemon, lost, unnamed>>

Runs == 1 .. MaxStarts
Idle == [cmd |-> "none", at |-> "done", on |-> 0]

-----------------------------------------------------------------------------
(* Which processes there are.                                              *)

Watching(i) == watch[i] \notin {"unborn", "gone"}
Alive(i)    == child[i] \in {"starting", "up", "closing", "saved"}

\* The daemon works for the team: it is past its startup and has not saved its
\* last snapshot.
Serving(i)  == child[i] \in {"up", "closing"}

NoProcess == \A i \in Runs : ~Watching(i) /\ ~Alive(i)

-----------------------------------------------------------------------------
(* The crash record: ages instead of timestamps.  The code drops an old    *)
(* crash when it adds the next one; the model drops it when it gets old.   *)

\* The timestamps are in the order in which they were pushed, so what retain
\* keeps is what comes after the last one that is too old.
Retained(ages) ==
    SubSeq(ages, SelectLastInSeq(ages, LAMBDA a : a >= Window) + 1, Len(ages))
Older(ages) == Retained([k \in DOMAIN ages |-> ages[k] + 1])

\* Faulty variant: the crash just recorded is not counted.
TripsLate(ages) == Len(ages) > Threshold

Trips(ages) == Len(ages) >= Threshold

\* Faulty variant: the exponent is off by one, and the cap is forgotten.
BackoffUncapped(ages) == 2 ^ Len(ages)

Backoff(ages) ==
    LET secs == 2 ^ (Len(ages) - 1) IN IF secs < MaxBackoff THEN secs ELSE MaxBackoff

-----------------------------------------------------------------------------
(* The snapshot and the record on disk.                                    *)

\* persist_runtime_state.  saved_at has seconds, so a snapshot may be no newer
\* than the one before.
Persist(kind) ==
    \E n \in {snapshot.newer, op.at = "wait"} : snapshot' = [kind |-> kind, newer |-> n]

\* fs::write truncates the file before it writes it: an error, or the daemon's
\* end, in between leaves something that cannot be parsed.
Torn         == snapshot' = [snapshot EXCEPT !.kind = "torn"]
PersistFails == UNCHANGED snapshot \/ Torn

\* The daemon dies where it may be writing its snapshot.
CutOff(i) ==
    \/ UNCHANGED snapshot
    \/ (Serving(i) \/ (child[i] = "starting" /\ session)) /\ Torn

\* A watchdog-state.json that is cut off in the same way counts as empty
\* (unwrap_or_default).
RecordKeptOrLost == record' \in {record, <<>>}

-----------------------------------------------------------------------------
(* The watchdog.                                                           *)

\* The watchdog's process ends.
WatchdogEnds(i) ==
    /\ watch' = [watch EXCEPT ![i] = "gone"]
    /\ term' = [term EXCEPT ![i] = FALSE]
    /\ resume' = [resume EXCEPT ![i] = FALSE]
    /\ crashes' = [crashes EXCEPT ![i] = <<>>]
    /\ left' = [left EXCEPT ![i] = 0]
    /\ launches' = [launches EXCEPT ![i] = <<>>]
    /\ UNCHANGED origin

\* Its daemon goes on without it, or is reaped by init if it had exited.
Orphan(i) == child' = [child EXCEPT ![i] = IF Alive(i) THEN @ ELSE "none"]

\* run_watchdog loads the record; only the breaker and what is shown are reset.
Boot(i) ==
    /\ watch[i] = "boot"
    /\ watch' = [watch EXCEPT ![i] = "top"]
    /\ crashes' = [crashes EXCEPT ![i] = record]
    /\ UNCHANGED <<op, spawned, files, session, origin, term, resume, left, launches,
                   daemon,
                   lost, unnamed>>

\* Shutdown asked for before a launch.
StopAtTop(i) ==
    /\ watch[i] = "top" /\ term[i]
    /\ WatchdogEnds(i)
    /\ pid' = 0
    /\ record' = crashes[i]
    /\ UNCHANGED <<op, spawned, snapshot, marker, session, daemon, lost, unnamed>>

Launch(i) ==
    /\ watch[i] = "top" /\ ~term[i]
    /\ watch' = [watch EXCEPT ![i] = "poll"]
    /\ child' = [child EXCEPT ![i] = "starting"]
    /\ waited' = [waited EXCEPT ![i] = 0]
    /\ resume' = [resume EXCEPT ![i] = TRUE]
    /\ record' = crashes[i]
    /\ launches' = [launches EXCEPT ![i] = Append(@, 0)]
    /\ UNCHANGED <<op, spawned, pid, snapshot, marker, session, origin, term, crashes, left,
                   category, lost, unnamed>>

\* The record or the child's pid cannot be written, or no daemon be launched: the
\* watchdog returns the error and leaves behind the daemon it has just launched,
\* and its pid file unless it was stopping.
WatchdogFails(i) ==
    LET stopping  == watch[i] = "closing" \/ (watch[i] = "top" /\ term[i])
        launching == watch[i] = "top" /\ ~term[i]
        observing == watch[i] = "poll" /\ ~term[i] /\ child[i] = "dead"
    IN  /\ watch[i] = "boot" \/ stopping \/ launching \/ observing
        /\ WatchdogEnds(i)
        /\ \E where \in {"none", "starting"} :
              /\ where = "starting" => launching
              /\ child' = [child EXCEPT ![i] = where]
        /\ waited' = [waited EXCEPT ![i] = 0]
        /\ category' = [category EXCEPT ![i] = "unknown"]
        /\ pid' = IF stopping THEN 0 ELSE pid
        /\ RecordKeptOrLost
        /\ UNCHANGED <<op, spawned, snapshot, marker, session, lost, unnamed>>

\* terminate_daemon_child.  The daemon's ctrlc handler is for SIGINT alone
\* (Cargo.toml takes the crate without its "termination" feature), so SIGTERM
\* ends the daemon wherever it is.
StopDaemon(i) ==
    /\ watch[i] = "poll" /\ term[i]
    /\ watch' = [watch EXCEPT ![i] = "closing"]
    /\ child' = [child EXCEPT ![i] = IF Alive(i) THEN "dead" ELSE @]
    /\ CutOff(i)
    /\ lost' = (lost \/ Serving(i))
    /\ UNCHANGED <<op, spawned, pid, record, marker, session, origin, term, resume, crashes,
                   left, launches, category, waited, unnamed>>

StopWatchdog(i) ==
    /\ watch[i] = "closing"
    /\ WatchdogEnds(i)
    /\ child' = [child EXCEPT ![i] = "none"]
    /\ pid' = 0
    /\ record' = crashes[i]
    /\ UNCHANGED <<op, spawned, snapshot, marker, session, category, waited, lost, unnamed>>

\* record_watchdog_crash: every exit of the daemon counts, a clean one too.
Observe(i) ==
    LET ages == Append(crashes[i], 0)
        over == category[i] = "unrecoverable" \/ Trips(ages)
    IN  /\ watch[i] = "poll" /\ ~term[i] /\ child[i] = "dead"
        /\ child' = [child EXCEPT ![i] = "none"]
        /\ category' = [category EXCEPT ![i] = "unknown"]
        /\ record' = ages
        /\ IF over
           THEN WatchdogEnds(i) /\ pid' = 0
           ELSE /\ watch' = [watch EXCEPT ![i] = "backoff"]
                /\ crashes' = [crashes EXCEPT ![i] = ages]
                /\ left' = [left EXCEPT ![i] = Backoff(ages)]
                /\ UNCHANGED <<pid, origin, term, resume, launches>>
        /\ UNCHANGED <<op, spawned, snapshot, marker, session, waited, lost, unnamed>>

\* A shutdown that is asked for during the sleep is seen after it.
BackoffEnds(i) ==
    /\ watch[i] = "backoff" /\ left[i] = 0
    /\ watch' = [watch EXCEPT ![i] = "top"]
    /\ UNCHANGED <<op, spawned, files, session, origin, term, resume, crashes, left,
                   launches,
                   daemon, lost, unnamed>>

\* The watchdog is killed from outside.
Killed(i) ==
    /\ Watching(i)
    /\ WatchdogEnds(i)
    /\ Orphan(i)
    /\ RecordKeptOrLost
    /\ UNCHANGED <<op, spawned, pid, snapshot, marker, session, category, waited, lost,
                   unnamed>>

-----------------------------------------------------------------------------
(* The daemon.                                                             *)

\* It exits; a daemon without its watchdog is reaped by init.
DaemonEnds(i, why) ==
    /\ child' = [child EXCEPT ![i] = IF Watching(i) THEN "dead" ELSE "none"]
    /\ category' = [category EXCEPT ![i] = IF Watching(i) THEN why ELSE "unknown"]
    /\ waited' = [waited EXCEPT ![i] = 0]

\* run_daemon finds the session, passes the preflight and enters its loop.
ComesUp(i) ==
    /\ child[i] = "starting" /\ session
    /\ child' = [child EXCEPT ![i] = "up"]
    /\ waited' = [waited EXCEPT ![i] = 0]
    /\ Persist("running")
    /\ lost' = FALSE
    /\ UNCHANGED <<op, spawned, pid, record, marker, session, watchdog, category, unnamed>>

\* The loop saves its state now and then; a failure is only logged.
Heartbeat(i) ==
    /\ child[i] = "up"
    /\ Persist("running") \/ Torn
    /\ UNCHANGED <<op, spawned, pid, record, marker, session, watchdog, daemon, lost,
                   unnamed>>

\* No session in time.  run_daemon bails before it can log an event, so the
\* watchdog sees only the exit status.
NoSession(i) ==
    /\ child[i] = "starting" /\ ~session /\ waited[i] = SessionWait
    /\ DaemonEnds(i, "unknown")
    /\ UNCHANGED <<op, spawned, files, session, watchdog, lost, unnamed>>

\* The preflight, or anything else before the loop, fails; in the end it may be
\* the first snapshot.
StartupFails(i) ==
    /\ child[i] = "starting" /\ session
    /\ \/ DaemonEnds(i, "unrecoverable") /\ UNCHANGED snapshot
       \/ DaemonEnds(i, "unknown") /\ PersistFails
    /\ UNCHANGED <<op, spawned, pid, record, marker, session, watchdog, lost, unnamed>>

\* A panic, an error, a kill from outside.
Crash(i) ==
    /\ Alive(i)
    /\ DaemonEnds(i, "unknown")
    /\ CutOff(i)
    /\ lost' = (lost \/ Serving(i))
    /\ UNCHANGED <<op, spawned, pid, record, marker, session, watchdog, unnamed>>

\* Faulty variant: the daemon leaves it to its watchdog to end it.
SessionGoneWatched(i) ==
    /\ child[i] = "up" /\ ~session /\ Watching(i)
    /\ child' = [child EXCEPT ![i] = "closing"]
    /\ UNCHANGED <<op, spawned, files, session, watchdog, category, waited, lost, unnamed>>

\* The loop finds its session gone and leaves.
SessionGone(i) ==
    /\ child[i] = "up" /\ ~session
    /\ child' = [child EXCEPT ![i] = "closing"]
    /\ UNCHANGED <<op, spawned, files, session, watchdog, category, waited, lost, unnamed>>

\* The shims are down; the last snapshot may fail, which is only logged.
SaveClean(i) ==
    /\ child[i] = "closing"
    /\ child' = [child EXCEPT ![i] = "saved"]
    /\ \/ Persist("clean") /\ UNCHANGED lost
       \/ PersistFails /\ lost' = TRUE
    /\ UNCHANGED <<op, spawned, pid, record, marker, session, watchdog, category, waited,
                   unnamed>>

ExitClean(i) ==
    /\ child[i] = "saved"
    /\ DaemonEnds(i, "unrecoverable")
    /\ UNCHANGED <<op, spawned, files, session, watchdog, lost, unnamed>>

\* maybe_hot_reload_binary: the same process runs the new binary from the start.
HotReload(i) ==
    /\ child[i] = "up"
    /\ child' = [child EXCEPT ![i] = "starting"]
    /\ Persist("running")
    /\ lost' = TRUE
    /\ UNCHANGED <<op, spawned, pid, record, marker, session, watchdog, category, waited,
                   unnamed>>

-----------------------------------------------------------------------------
(* The commands.                                                           *)

Begin(cmd, at) == op = Idle /\ op' = [cmd |-> cmd, at |-> at, on |-> 0]
GoTo(at)       == op' = [op EXCEPT !.at = at, !.on = 0]

\* Faulty variants: only one kind of process is looked for.
ConcurrentWatchdogs == \E i \in Runs : Watching(i)
ConcurrentDaemons   == \E i \in Runs : Alive(i)

\* ensure_no_concurrent_batty_process
Concurrent == \E i \in Runs : Watching(i) \/ Alive(i)

\* Faulty variant: the marker of `batty stop` is all that counts.
ShouldResumeNever == FALSE

\* should_resume_from_daemon_state: what cannot be parsed does not count.
ShouldResume == snapshot.kind = "running"

StartTeam ==
    /\ spawned < MaxStarts
    /\ ~Concurrent /\ ~session
    /\ Begin("start", "layout")
    /\ unnamed' = FALSE
    /\ UNCHANGED <<spawned, files, session, watchdog, daemon, lost>>

BuildLayout ==
    /\ op.at = "layout"
    /\ session' = TRUE
    /\ GoTo("spawn")
    /\ UNCHANGED <<spawned, files, watchdog, daemon, lost, unnamed>>

\* spawn_watchdog, by start_team with what its marker or the snapshot says, by
\* restart_daemon_if_stale always with --resume.
SpawnWatchdog ==
    LET i == spawned + 1
        r == op.cmd = "stale" \/ marker \/ ShouldResume
    IN  /\ op.at = "spawn"
        /\ spawned' = i
        /\ watch' = [watch EXCEPT ![i] = "boot"]
        /\ origin' = [origin EXCEPT ![i] = op.cmd]
        /\ resume' = [resume EXCEPT ![i] = r]
        /\ marker' = (marker /\ op.cmd = "stale")
        /\ GoTo("check")
        /\ UNCHANGED <<pid, record, snapshot, session, term, crashes, left, launches,
                       daemon, lost, unnamed>>

\* The layout or the watchdog's process cannot be made; the marker is gone all
\* the same, and a part of the layout may be there.
StartFails ==
    /\ \/ op.at = "layout" /\ session' \in BOOLEAN /\ UNCHANGED marker
       \/ op.at = "spawn" /\ UNCHANGED session /\ marker' = (marker /\ op.cmd = "stale")
    /\ op' = Idle
    /\ UNCHANGED <<spawned, pid, record, snapshot, watchdog, daemon, lost, unnamed>>

\* spawn_detached_process looks once whether the watchdog is still there.
CheckSpawned ==
    /\ op.at = "check"
    /\ IF Watching(spawned)
       THEN GoTo("pid") /\ UNCHANGED pid
       ELSE op' = Idle /\ pid' = 0
    /\ UNCHANGED <<spawned, record, snapshot, marker, session, watchdog, daemon, lost,
                   unnamed>>

WritePid ==
    /\ op.at = "pid"
    /\ pid' = spawned
    /\ op' = Idle
    /\ UNCHANGED <<spawned, record, snapshot, marker, session, watchdog, daemon, lost,
                   unnamed>>

\* The pid cannot be written; the watchdog goes on without a file that names it.
WritePidFails ==
    /\ op.at = "pid" /\ spawned \in PidMayFail
    /\ pid' \in {pid, 0}
    /\ op' = Idle
    /\ unnamed' = TRUE
    /\ UNCHANGED <<spawned, record, snapshot, marker, session, watchdog, daemon, lost>>

StopTeam ==
    /\ Begin("stop", "signal")
    /\ marker' = TRUE
    /\ UNCHANGED <<spawned, pid, record, snapshot, session, watchdog, daemon, lost,
                   unnamed>>

\* The binary is stale, no merge is going on and the root is clean.
RestartIfStale ==
    /\ spawned < MaxStarts
    /\ Begin("stale", "signal")
    /\ UNCHANGED <<spawned, files, session, watchdog, daemon, lost, unnamed>>

\* What the answer of request_graceful_daemon_shutdown leads to.
Answer(graceful) ==
    IF op.cmd = "stop"
    THEN GoTo(IF graceful THEN "kill" ELSE "force")
    ELSE IF graceful THEN GoTo("spawn") ELSE op' = Idle

\* request_graceful_daemon_shutdown up to its wait.  A watchdog that has not
\* installed its handlers yet is ended by the signal.
RequestShutdown ==
    /\ op.at = "signal"
    /\ \/ /\ pid = 0
          /\ Answer(TRUE)
          /\ UNCHANGED watchdog
       \/ /\ pid # 0 /\ ~Watching(pid)
          /\ Answer(FALSE)
          /\ UNCHANGED watchdog
       \/ /\ pid # 0 /\ Watching(pid)
          /\ op' = [op EXCEPT !.at = "wait", !.on = pid]
          /\ IF watch[pid] = "boot"
             THEN WatchdogEnds(pid)
             ELSE /\ term' = [term EXCEPT ![pid] = TRUE]
                  /\ UNCHANGED <<origin, watch, resume, crashes, left, launches>>
    /\ UNCHANGED <<spawned, files, session, daemon, lost, unnamed>>

\* wait_for_graceful_daemon_shutdown watches the process it has signalled, which
\* the pid file may have stopped naming.
CleanSnapshot == snapshot.kind = "clean" /\ snapshot.newer
Forget        == snapshot' = [snapshot EXCEPT !.newer = FALSE]

WaitClean ==
    /\ op.at = "wait" /\ CleanSnapshot
    /\ pid' = 0
    /\ Answer(TRUE)
    /\ Forget
    /\ UNCHANGED <<spawned, record, marker, session, watchdog, daemon, lost, unnamed>>

WaitGone ==
    /\ op.at = "wait" /\ ~CleanSnapshot /\ ~Watching(op.on)
    /\ pid' = 0
    /\ Answer(FALSE)
    /\ Forget
    /\ UNCHANGED <<spawned, record, marker, session, watchdog, daemon, lost, unnamed>>

WaitTimesOut ==
    /\ op.at = "wait" /\ ~CleanSnapshot /\ Watching(op.on)
    /\ Answer(FALSE)
    /\ Forget
    /\ UNCHANGED <<spawned, pid, record, marker, session, watchdog, daemon, lost, unnamed>>

\* force_kill_daemon kills the watchdog the pid file names, and only that.
ForceKill ==
    /\ op.at = "force"
    /\ IF pid # 0 /\ Watching(pid)
       THEN WatchdogEnds(pid) /\ Orphan(pid) /\ RecordKeptOrLost
       ELSE UNCHANGED <<watchdog, child, record>>
    /\ pid' = 0
    /\ GoTo("kill")
    /\ UNCHANGED <<spawned, snapshot, marker, session, category, waited, lost, unnamed>>

KillSession ==
    /\ op.at = "kill"
    /\ session' = FALSE
    /\ GoTo("mark")
    /\ UNCHANGED <<spawned, files, watchdog, daemon, lost, unnamed>>

\* tmux refuses: stop_team returns the error.
KillSessionFails ==
    /\ op.at = "kill" /\ session
    /\ op' = Idle
    /\ UNCHANGED <<spawned, files, session, watchdog, daemon, lost, unnamed>>

\* The marker is written once more, with the position in the event log.
WriteMarker ==
    /\ op.at = "mark"
    /\ marker' = TRUE
    /\ op' = Idle
    /\ UNCHANGED <<spawned, pid, record, snapshot, session, watchdog, daemon, lost,
                   unnamed>>

\* The tmux server dies or somebody kills the session.
SessionLost ==
    /\ session
    /\ session' = FALSE
    /\ UNCHANGED <<op, spawned, files, watchdog, daemon, lost, unnamed>>

-----------------------------------------------------------------------------
(* Time.                                                                   *)

Urgent(i) ==
    \/ watch[i] \in {"boot", "top", "closing"}
    \/ watch[i] = "poll" /\ (term[i] \/ child[i] = "dead")
    \/ watch[i] = "backoff" /\ left[i] = 0
    \/ child[i] = "starting" /\ (session \/ waited[i] = SessionWait)

Tick ==
    /\ \A i \in Runs : ~Urgent(i)
    /\ record' = Older(record)
    /\ crashes' = [i \in Runs |-> Older(crashes[i])]
    /\ launches' = [i \in Runs |-> Older(launches[i])]
    /\ left' = [i \in Runs |-> IF left[i] > 0 THEN left[i] - 1 ELSE 0]
    /\ waited' = [i \in Runs |-> IF child[i] = "starting" THEN waited[i] + 1 ELSE 0]
    /\ UNCHANGED <<op, spawned, pid, snapshot, marker, session, origin, watch, term, resume,
                   child, category, lost, unnamed>>

-----------------------------------------------------------------------------
Init ==
    /\ op = Idle /\ spawned = 0
    /\ pid = 0 /\ record = <<>> /\ marker = FALSE
    /\ snapshot = [kind |-> "none", newer |-> FALSE]
    /\ session = FALSE
    /\ origin = [i \in Runs |-> "none"]
    /\ watch = [i \in Runs |-> "unborn"]
    /\ term = [i \in Runs |-> FALSE] /\ resume = [i \in Runs |-> FALSE]
    /\ crashes = [i \in Runs |-> <<>>] /\ left = [i \in Runs |-> 0]
    /\ launches = [i \in Runs |-> <<>>]
    /\ child = [i \in Runs |-> "none"]
    /\ category = [i \in Runs |-> "unknown"] /\ waited = [i \in Runs |-> 0]
    /\ lost = FALSE /\ unnamed = FALSE

WatchdogStep(i) ==
    \/ Boot(i) \/ StopAtTop(i) \/ Launch(i) \/ StopDaemon(i) \/ StopWatchdog(i)
    \/ Observe(i) \/ BackoffEnds(i)

DaemonStep(i) ==
    \/ ComesUp(i) \/ NoSession(i) \/ SessionGone(i) \/ SaveClean(i) \/ ExitClean(i)

CommandStep ==
    \/ BuildLayout \/ SpawnWatchdog \/ StartFails \/ CheckSpawned
    \/ WritePid \/ WritePidFails
    \/ RequestShutdown \/ WaitClean \/ WaitGone \/ WaitTimesOut
    \/ ForceKill \/ KillSession \/ KillSessionFails \/ WriteMarker

\* What may happen or not.
Fault(i) ==
    \/ WatchdogFails(i) \/ Killed(i) \/ StartupFails(i) \/ Crash(i)
    \/ Heartbeat(i) \/ HotReload(i)

Next ==
    \/ \E i \in Runs : WatchdogStep(i) \/ DaemonStep(i) \/ Fault(i)
    \/ StartTeam \/ StopTeam \/ RestartIfStale \/ CommandStep
    \/ SessionLost \/ Tick

Spec == Init /\ [][Next]_vars

\* Processes that are alive go on, and a command that was begun is carried out.
FairSpec ==
    /\ Spec
    /\ \A i \in Runs : WF_vars(WatchdogStep(i)) /\ WF_vars(DaemonStep(i))
    /\ WF_vars(CommandStep) /\ WF_vars(Tick)

-----------------------------------------------------------------------------
(* Properties.                                                             *)

\* Every variable has its type; the pid file names a watchdog that was spawned.
TypeOK ==
    /\ op.cmd \in {"none", "start", "stop", "stale"} /\ op.on \in 0 .. spawned
    /\ op.at \in {"done", "layout", "spawn", "check", "pid", "signal", "wait", "force",
                 "kill", "mark"}
    /\ spawned \in 0 .. MaxStarts /\ pid \in 0 .. spawned
    /\ Len(record) <= Threshold + spawned
    /\ snapshot \in [kind : {"none", "torn", "running", "clean"}, newer : BOOLEAN]
    /\ {marker, session, lost, unnamed} \subseteq BOOLEAN
    /\ \A i \in Runs :
        /\ watch[i] \in {"unborn", "boot", "top", "poll", "backoff", "closing", "gone"}
        /\ child[i] \in {"none", "starting", "up", "closing", "saved", "dead"}
        /\ (child[i] = "dead") => Watching(i)
        /\ left[i] \in 0 .. MaxBackoff /\ waited[i] \in 0 .. SessionWait
        /\ Len(crashes[i]) < Threshold + spawned

\* The daemon `batty start` launches works alone: no daemon that an earlier
\* command left behind (its watchdog killed, its session replaced) works beside
\* it on the same board.
OneDaemon ==
    \A i, j \in Runs : i < j /\ Serving(i) /\ Serving(j) => origin[j] = "stale"

\* A watchdog launches its daemon at most Threshold times in any Window,
\* however the crashes and the back-off fall (record_watchdog_crash).
LaunchesBounded == \A i \in Runs : Len(launches[i]) <= Threshold

\* While the team has its session, a watchdog nobody has told to stop is the one
\* the pid file names: neither the end of an earlier watchdog nor a late write
\* of the file leaves a running team that `batty stop` cannot signal.  Only a
\* write of the file that fails (spawn_detached_process returns with the watchdog
\* running) does, and no longer than to the next `batty start`.
RunningIsStoppable ==
    session /\ op = Idle /\ ~unnamed =>
        \A i \in Runs : Watching(i) /\ ~term[i] => pid = i

\* A daemon begins without --resume only when the last one that worked left a
\* clean snapshot, or one that was cut off while it was written: what a crashed or
\* killed daemon was doing is otherwise taken up again.
\* (Without the exception it does not hold: save_daemon_state writes in place, and
\* should_resume_from_daemon_state takes what cannot be parsed for nothing to do.)
\* (restart-if-stale may put two daemons at work, and then the last snapshot need
\* not be that of the one that died.)
Fresh(i) == Launch(i) /\ ~resume[i]

WorkResumed ==
    [][\A i \in Runs :
        Fresh(i) /\ lost =>
            snapshot.kind = "torn" \/ \E j \in Runs : origin[j] = "stale"]_vars

\* When the session is gone, by `batty stop` or otherwise, all processes of the team
\* end: a daemon whose watchdog had to be killed sees the session go, and a watchdog
\* whose daemons find no session trips its breaker before its record forgets the
\* first.
TeamEnds == ~session ~> NoProcess
=============================================================================
