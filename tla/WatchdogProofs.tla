--------------------------- MODULE WatchdogProofs ---------------------------
(***************************************************************************)
(* What Watchdog keeps for every number of watchdogs and all time limits:  *)
(* the daemon of a start works alone, a running team can be stopped, and   *)
(* lost work is resumed.                                                   *)
(***************************************************************************)
EXTENDS Watchdog, TLAPS

Process(i) == Watching(i) \/ Alive(i)

Places == {"unborn", "boot", "top", "poll", "backoff", "closing", "gone"}
Phases == {"none", "starting", "up", "closing", "saved", "dead"}
Kinds  == {"none", "torn", "running", "clean"}

\* Every variable the proofs look at has its type.
Shape ==
    /\ op \in [cmd : {"none", "start", "stop", "stale"},
               at : {"done", "layout", "spawn", "check", "pid", "signal", "wait", "force",
                     "kill", "mark"},
               on : Nat]
    /\ spawned \in 0 .. MaxStarts /\ pid \in 0 .. spawned
    /\ snapshot \in [kind : Kinds, newer : BOOLEAN]
    /\ marker \in BOOLEAN /\ session \in BOOLEAN /\ lost \in BOOLEAN /\ unnamed \in BOOLEAN
    /\ origin \in [Runs -> {"none", "start", "stop", "stale"}]
    /\ watch \in [Runs -> Places]
    /\ term \in [Runs -> BOOLEAN] /\ resume \in [Runs -> BOOLEAN]
    /\ child \in [Runs -> Phases]

\* Each command is where it can be, and the watchdogs that were spawned are the
\* ones that have an origin.
ControlOK ==
    /\ op.at = "done" => op = Idle
    /\ op.at = "layout" => op.cmd = "start"
    /\ op.at \in {"spawn", "check", "pid"} => op.cmd \in {"start", "stale"}
    /\ op.at \in {"signal", "wait"} => op.cmd \in {"stop", "stale"}
    /\ op.at \in {"force", "kill", "mark"} => op.cmd = "stop"
    /\ op.at = "wait" => op.on \in 1 .. spawned
    /\ op.cmd # "stop" /\ op.at \in {"layout", "spawn", "signal", "wait"} => spawned < MaxStarts
    /\ op.at \in {"check", "pid"} => spawned > 0
    /\ \A i \in Runs :
        /\ watch[i] = "unborn" <=> i > spawned
        /\ i > spawned => child[i] = "none" /\ origin[i] = "none"
        /\ i <= spawned => origin[i] \in {"start", "stale"}

\* When `batty start` has found no process of the team there is none until it
\* spawns its own; so the processes before a started watchdog have all ended.
StartedAlone ==
    /\ \A i, j \in Runs : i < j /\ origin[j] = "start" => ~Process(i)
    /\ op.cmd = "start" /\ op.at \in {"layout", "spawn"} => NoProcess

\* A daemon that closes has seen its session go, and the session comes back only
\* when no process of the team is left.
ClosingWithoutSession ==
    /\ \A i \in Runs : child[i] \in {"closing", "saved"} => ~session
    /\ snapshot.newer => op.at = "wait"
    /\ CleanSnapshot => ~session
    /\ op.at = "mark" => ~session

\* While there is a session, and no pid could not be written, every watchdog is the
\* one the pid file names, or the one whose pid is about to be written.
PidNames ==
    /\ op.at = "wait" => pid \in {0, op.on}
    /\ session /\ ~unnamed => \A i \in Runs : Watching(i) =>
        /\ op.at \in {"done", "signal", "wait", "force"} => pid = i
        /\ op.at \notin {"spawn", "kill"}
        /\ op.at \in {"check", "pid"} => i = spawned

\* While restart-if-stale has spawned nothing, a snapshot that is not clean says
\* that work was lost or is going on, and a watchdog that will not resume has none
\* to take up that a snapshot tells of.
NoStale == \A j \in Runs : origin[j] # "stale"
Unclean == snapshot.kind \in {"running", "torn"}
Resuming ==
    NoStale =>
        /\ lost => Unclean
        /\ \A i \in Runs : Serving(i) => ~lost /\ Unclean
        /\ \A i \in Runs : Watching(i) /\ ~resume[i] =>
             ~Alive(i) /\ (~lost \/ snapshot.kind = "torn")

LifeInv ==
    /\ Shape /\ ControlOK /\ StartedAlone /\ ClosingWithoutSession /\ PidNames /\ Resuming

USE DEF LifeInv

-----------------------------------------------------------------------------
(* What the steps with several outcomes do to the state the invariant is     *)
(* about.                                                                    *)

\* persist_runtime_state: the snapshot is at most as new as the command that
\* waits makes it.
Persisted(kind) ==
    /\ snapshot' \in [kind : Kinds, newer : BOOLEAN]
    /\ snapshot'.kind = kind
    /\ snapshot'.newer => snapshot.newer \/ op.at = "wait"

\* A write that fails or is cut off.
Tore == snapshot' = [kind |-> "torn", newer |-> snapshot.newer]

\* The answer to a shutdown request: a stop goes on, a restart spawns its
\* watchdog or gives up.
Answered(graceful) ==
    \/ op.cmd = "stop" /\ graceful /\ op' = [cmd |-> "stop", at |-> "kill", on |-> 0]
    \/ op.cmd = "stop" /\ ~graceful /\ op' = [cmd |-> "stop", at |-> "force", on |-> 0]
    \/ op.cmd = "stale" /\ graceful /\ op' = [cmd |-> "stale", at |-> "spawn", on |-> 0]
    \/ op.cmd = "stale" /\ ~graceful /\ op' = Idle

Ended(i) ==
    /\ watch' = [watch EXCEPT ![i] = "gone"]
    /\ term' = [term EXCEPT ![i] = FALSE]
    /\ resume' = [resume EXCEPT ![i] = FALSE]

\* The watchdog has failed; where it was launching, a daemon may be left behind.
Failed(i) ==
    /\ Watching(i) /\ Ended(i)
    /\ \/ child' = [child EXCEPT ![i] = "none"]
       \/ child' = [child EXCEPT ![i] = "starting"]
    /\ pid' \in {pid, 0}
    /\ UNCHANGED <<op, spawned, snapshot, marker, session, origin, lost, unnamed>>

\* The watchdog has seen its daemon's exit: it ends, or backs off.
Observed(i) ==
    /\ watch[i] = "poll" /\ child[i] = "dead" /\ child' = [child EXCEPT ![i] = "none"]
    /\ UNCHANGED <<op, spawned, snapshot, marker, session, origin, lost, unnamed>>
    /\ \/ Ended(i) /\ pid' = 0
       \/ watch' = [watch EXCEPT ![i] = "backoff"] /\ UNCHANGED <<pid, term, resume>>

Checked ==
    /\ op.at = "check"
    /\ UNCHANGED <<spawned, snapshot, marker, session, origin, watch, term, resume, child,
                   lost, unnamed>>
    /\ \/ /\ Watching(spawned) /\ UNCHANGED pid
          /\ op' = [cmd |-> op.cmd, at |-> "pid", on |-> 0]
       \/ ~Watching(spawned) /\ op' = Idle /\ pid' = 0

\* There was nobody to signal, or a watchdog ends or has been told to.
Unsignalled == (pid = 0 /\ Answered(TRUE)) \/ (pid # 0 /\ ~Watching(pid) /\ Answered(FALSE))

Signalled ==
    /\ pid \in Runs /\ Watching(pid)
    /\ op' = [cmd |-> op.cmd, at |-> "wait", on |-> pid]

Requested ==
    /\ op.at = "signal"
    /\ UNCHANGED <<spawned, pid, snapshot, marker, session, origin, child, lost, unnamed>>
    /\ \/ Unsignalled /\ UNCHANGED <<watch, term, resume>>
       \/ Signalled /\ Ended(pid)
       \/ Signalled /\ term' = [term EXCEPT ![pid] = TRUE] /\ UNCHANGED <<watch, resume>>

\* A wait is over: the snapshot seen is forgotten, and the pid file is removed
\* unless time has run out.
Waited ==
    /\ op.at = "wait"
    /\ UNCHANGED <<spawned, marker, session, origin, watch, term, resume, child, lost, unnamed>>
    /\ snapshot' = [kind |-> snapshot.kind, newer |-> FALSE]
    /\ \/ CleanSnapshot /\ Answered(TRUE) /\ pid' = 0
       \/ ~Watching(op.on) /\ Answered(FALSE) /\ pid' = 0
       \/ Watching(op.on) /\ Answered(FALSE) /\ pid' = pid

Forced ==
    /\ op.at = "force" /\ op' = [cmd |-> op.cmd, at |-> "kill", on |-> 0] /\ pid' = 0
    /\ UNCHANGED <<spawned, snapshot, marker, session, origin, lost, unnamed>>
    /\ \/ ~(pid # 0 /\ Watching(pid)) /\ UNCHANGED <<watch, term, resume, child>>
       \/ pid \in Runs /\ Watching(pid) /\ Ended(pid) /\ Orphan(pid)

Spawned ==
    /\ op.at = "spawn" /\ spawned + 1 \in Runs /\ spawned' = spawned + 1
    /\ watch' = [watch EXCEPT ![spawned + 1] = "boot"]
    /\ origin' = [origin EXCEPT ![spawned + 1] = op.cmd]
    /\ resume' \in [Runs -> BOOLEAN]
    /\ \A i \in Runs : i # spawned + 1 => resume'[i] = resume[i]
    /\ op.cmd = "stale" \/ snapshot.kind = "running" => resume'[spawned + 1]
    /\ marker' \in BOOLEAN
    /\ op' = [cmd |-> op.cmd, at |-> "check", on |-> 0]
    /\ UNCHANGED <<pid, snapshot, session, term, child, lost, unnamed>>

\* Persist does what Persisted says.
LEMMA PersistEffect ==
    ASSUME Shape, NEW kind \in Kinds, Persist(kind)
    PROVE  Persisted(kind)
<1>1. PICK n \in {snapshot.newer, op.at = "wait"} : snapshot' = [kind |-> kind, newer |-> n]
  BY DEF Persist
<1>2. snapshot.newer \in BOOLEAN /\ (op.at = "wait") \in BOOLEAN
  BY DEF Shape
<1>3. n \in BOOLEAN
  BY <1>2
<1>4. n => snapshot.newer \/ op.at = "wait"
  BY <1>2
<1>. QED
  BY <1>1, <1>3, <1>4 DEF Persisted

\* A write that fails or is cut off keeps the snapshot or tears it.
LEMMA TornEffect ==
    ASSUME Shape
    PROVE  /\ Torn => Tore
           /\ PersistFails => UNCHANGED snapshot \/ Tore
           /\ \A i \in Runs : CutOff(i) => UNCHANGED snapshot \/ Tore
<1>1. Torn => Tore
  BY DEF Torn, Tore, Shape
<1>. QED
  BY <1>1 DEF PersistFails, CutOff

\* WatchdogFails does what Failed says.
LEMMA FailEffect ==
    ASSUME NEW i \in Runs, WatchdogFails(i)
    PROVE  Failed(i)
<1>1. Watching(i)
  BY DEF WatchdogFails, Watching
<1>2. pid' \in {pid, 0}
  BY DEF WatchdogFails
<1>3. \/ child' = [child EXCEPT ![i] = "none"]
      \/ child' = [child EXCEPT ![i] = "starting"]
  BY DEF WatchdogFails
<1>. QED
  BY <1>1, <1>2, <1>3 DEF WatchdogFails, WatchdogEnds, Ended, Failed

\* A daemon that fails in its startup has ended, and its first snapshot may be torn.
LEMMA StartupEffect ==
    ASSUME Shape, NEW i \in Runs, StartupFails(i)
    PROVE  /\ child[i] = "starting"
           /\ child' = [child EXCEPT ![i] = IF Watching(i) THEN "dead" ELSE "none"]
           /\ UNCHANGED <<op, spawned, pid, marker, session, watchdog, lost, unnamed>>
           /\ UNCHANGED snapshot \/ Tore
<1>1. child' = [child EXCEPT ![i] = IF Watching(i) THEN "dead" ELSE "none"]
  BY DEF StartupFails, DaemonEnds
<1>2. UNCHANGED snapshot \/ Tore
  BY TornEffect DEF StartupFails
<1>. QED
  BY <1>1, <1>2 DEF StartupFails

\* GoTo keeps the command.
LEMMA GoToEffect ==
    ASSUME Shape, NEW at, GoTo(at)
    PROVE  op' = [cmd |-> op.cmd, at |-> at, on |-> 0]
BY DEF Shape, GoTo

\* Answer does what Answered says.
LEMMA AnswerEffect ==
    ASSUME Shape, ControlOK, op.at \in {"signal", "wait"}, NEW graceful \in BOOLEAN,
           Answer(graceful)
    PROVE  Answered(graceful)
<1>1. op.cmd \in {"stop", "stale"}
  BY DEF ControlOK
<1>2. CASE op.cmd = "stop" /\ graceful
  BY <1>2, GoToEffect DEF Answer, Answered
<1>3. CASE op.cmd = "stop" /\ ~graceful
  BY <1>3, GoToEffect DEF Answer, Answered
<1>4. CASE op.cmd = "stale" /\ graceful
  BY <1>4, GoToEffect DEF Answer, Answered
<1>5. CASE op.cmd = "stale" /\ ~graceful
  BY <1>5 DEF Answer, Answered
<1>. QED
  BY <1>1, <1>2, <1>3, <1>4, <1>5

\* Observe does what Observed says.
LEMMA ObserveEffect ==
    ASSUME NEW i \in Runs, Observe(i)
    PROVE  Observed(i)
<1>. DEFINE ages == Append(crashes[i], 0)
            over == category[i] = "unrecoverable" \/ Trips(ages)
<1>1. CASE over
  BY <1>1 DEF Observe, Observed, WatchdogEnds, Ended
<1>2. CASE ~over
  BY <1>2 DEF Observe, Observed
<1>. QED
  BY <1>1, <1>2

\* CheckSpawned does what Checked says.
LEMMA CheckEffect ==
    ASSUME Shape, CheckSpawned
    PROVE  Checked
<1>1. CASE Watching(spawned)
  BY <1>1, GoToEffect DEF CheckSpawned, Checked, watchdog, daemon
<1>2. CASE ~Watching(spawned)
  BY <1>2 DEF CheckSpawned, Checked, watchdog, daemon
<1>. QED
  BY <1>1, <1>2

\* RequestShutdown does what Requested says.
LEMMA RequestEffect ==
    ASSUME Shape, ControlOK, RequestShutdown
    PROVE  Requested
<1>1. op.at = "signal" /\ UNCHANGED <<spawned, pid, snapshot, marker, session, child, lost, unnamed>>
  BY DEF RequestShutdown, files, daemon
<1>2. CASE pid = 0 /\ Answer(TRUE) /\ UNCHANGED watchdog
  <2>1. Answered(TRUE)
    BY <1>1, <1>2, AnswerEffect
  <2>. QED
    BY <1>1, <1>2, <2>1 DEF watchdog, Requested, Unsignalled
<1>3. CASE pid # 0 /\ ~Watching(pid) /\ Answer(FALSE) /\ UNCHANGED watchdog
  <2>1. Answered(FALSE)
    BY <1>1, <1>3, AnswerEffect
  <2>. QED
    BY <1>1, <1>3, <2>1 DEF watchdog, Requested, Unsignalled
<1>4. ASSUME pid # 0, Watching(pid), op' = [op EXCEPT !.at = "wait", !.on = pid],
             IF watch[pid] = "boot"
             THEN WatchdogEnds(pid)
             ELSE /\ term' = [term EXCEPT ![pid] = TRUE]
                  /\ UNCHANGED <<origin, watch, resume, crashes, left, launches>>
      PROVE  Requested
  <2>1. pid \in Runs
    BY <1>4, WatchdogAssumption DEF Shape, Runs
  <2>2. op' = [cmd |-> op.cmd, at |-> "wait", on |-> pid]
    BY <1>4 DEF Shape
  <2>3. CASE watch[pid] = "boot"
    BY <1>1, <1>4, <2>1, <2>2, <2>3 DEF WatchdogEnds, Ended, Signalled, Requested
  <2>4. CASE watch[pid] # "boot"
    BY <1>1, <1>4, <2>1, <2>2, <2>4 DEF Signalled, Requested
  <2>. QED
    BY <2>3, <2>4
<1>. QED
  BY <1>2, <1>3, <1>4 DEF RequestShutdown

\* The end of a wait is what Waited says.
LEMMA WaitEffect ==
    ASSUME Shape, ControlOK, WaitClean \/ WaitGone \/ WaitTimesOut
    PROVE  Waited
<1>1. /\ op.at = "wait" /\ Forget
      /\ UNCHANGED <<spawned, marker, session, origin, watch, term, resume, child, lost, unnamed>>
      /\ \/ CleanSnapshot /\ Answer(TRUE) /\ pid' = 0
         \/ ~Watching(op.on) /\ Answer(FALSE) /\ pid' = 0
         \/ Watching(op.on) /\ Answer(FALSE) /\ pid' = pid
  BY DEF WaitClean, WaitGone, WaitTimesOut, watchdog, daemon
<1>2. snapshot' = [kind |-> snapshot.kind, newer |-> FALSE]
  BY <1>1 DEF Forget, Shape
<1>3. Answer(TRUE) => Answered(TRUE)
  BY <1>1, AnswerEffect
<1>4. Answer(FALSE) => Answered(FALSE)
  BY <1>1, AnswerEffect
<1>. QED
  BY <1>1, <1>2, <1>3, <1>4 DEF Waited

\* ForceKill does what Forced says.
LEMMA ForceEffect ==
    ASSUME Shape, ForceKill
    PROVE  Forced
<1>1. op' = [cmd |-> op.cmd, at |-> "kill", on |-> 0]
  BY GoToEffect DEF ForceKill
<1>2. CASE pid # 0 /\ Watching(pid)
  <2>1. pid \in Runs
    BY <1>2, WatchdogAssumption DEF Shape, Runs
  <2>. QED
    BY <1>1, <1>2, <2>1 DEF ForceKill, WatchdogEnds, Ended, Forced
<1>3. CASE ~(pid # 0 /\ Watching(pid))
  BY <1>1, <1>3 DEF ForceKill, watchdog, Forced
<1>. QED
  BY <1>2, <1>3

\* SpawnWatchdog does what Spawned says.
LEMMA SpawnEffect ==
    ASSUME Shape, ControlOK, SpawnWatchdog
    PROVE  Spawned
<1>. DEFINE r == op.cmd = "stale" \/ marker \/ ShouldResume
<1>1. op' = [cmd |-> op.cmd, at |-> "check", on |-> 0]
  BY GoToEffect DEF SpawnWatchdog
<1>2. spawned + 1 \in Runs
  BY WatchdogAssumption DEF SpawnWatchdog, Shape, ControlOK, Runs
<1>3. marker' \in BOOLEAN
  BY DEF SpawnWatchdog, Shape
<1>4. r \in BOOLEAN /\ (op.cmd = "stale" \/ snapshot.kind = "running" => r)
  BY DEF Shape, ShouldResume
<1>5. resume' = [resume EXCEPT ![spawned + 1] = r]
  BY DEF SpawnWatchdog
<1>. HIDE DEF r
<1>6. /\ resume' \in [Runs -> BOOLEAN]
      /\ \A i \in Runs : i # spawned + 1 => resume'[i] = resume[i]
      /\ resume'[spawned + 1] = r
  BY <1>2, <1>4, <1>5 DEF Shape
<1>. QED
  BY <1>1, <1>2, <1>3, <1>4, <1>6 DEF SpawnWatchdog, daemon, Spawned

-----------------------------------------------------------------------------
(* The invariant is inductive, part by part. *)

\* Every step keeps the types: only a watchdog that may still be spawned is.
LEMMA ShapeNext ==
    ASSUME LifeInv, [Next]_vars
    PROVE  Shape'
<1>1. CASE UNCHANGED vars
  BY <1>1 DEF vars, files, watchdog, daemon, Shape
<1>2. ASSUME NEW i \in Runs, Boot(i) PROVE Shape'
  BY <1>2 DEF Boot, files, daemon, Shape, Places
<1>3. ASSUME NEW i \in Runs, StopAtTop(i) PROVE Shape'
  BY <1>3 DEF StopAtTop, WatchdogEnds, daemon, Shape, Places
<1>4. ASSUME NEW i \in Runs, Launch(i) PROVE Shape'
  BY <1>4 DEF Launch, Shape, Places, Phases, Idle
<1>5. ASSUME NEW i \in Runs, WatchdogFails(i) PROVE Shape'
  <2>1. Failed(i)
    BY FailEffect, <1>5
  <2>. QED
    BY <2>1 DEF Failed, Ended, Shape, Places, Phases, Kinds
<1>6. ASSUME NEW i \in Runs, StopDaemon(i) PROVE Shape'
  <2>1. UNCHANGED snapshot \/ Tore
    BY TornEffect, <1>6 DEF StopDaemon
  <2>. QED
    BY <1>6, <2>1 DEF StopDaemon, Tore, Shape, Places, Phases, Kinds
<1>7. ASSUME NEW i \in Runs, StopWatchdog(i) PROVE Shape'
  BY <1>7 DEF StopWatchdog, WatchdogEnds, Shape, Places, Phases, Idle
<1>8. ASSUME NEW i \in Runs, Observe(i) PROVE Shape'
  <2>1. Observed(i)
    BY ObserveEffect, <1>8
  <2>2. CASE Ended(i) /\ pid' = 0
    BY <2>1, <2>2 DEF Observed, Ended, Shape, Places, Phases
  <2>3. CASE watch' = [watch EXCEPT ![i] = "backoff"] /\ UNCHANGED <<pid, term, resume>>
    BY <2>1, <2>3 DEF Observed, Shape, Places, Phases, Idle
  <2>. QED
    BY <2>1, <2>2, <2>3 DEF Observed
<1>9. ASSUME NEW i \in Runs, BackoffEnds(i) PROVE Shape'
  BY <1>9 DEF BackoffEnds, files, daemon, Shape, Places
<1>10. ASSUME NEW i \in Runs, Killed(i) PROVE Shape'
  BY <1>10 DEF Killed, WatchdogEnds, Orphan, files, Shape, Places, Phases
<1>11. ASSUME NEW i \in Runs, ComesUp(i) PROVE Shape'
  <2>1. Persisted("running")
    BY PersistEffect, <1>11 DEF Kinds, ComesUp
  <2>. QED
    BY <2>1, <1>11 DEF ComesUp, watchdog, Persisted, Shape, Phases
<1>12. ASSUME NEW i \in Runs, Heartbeat(i) PROVE Shape'
  <2>1. Persisted("running") \/ Tore
    BY PersistEffect, TornEffect, <1>12 DEF Heartbeat, Kinds
  <2>. QED
    BY <2>1, <1>12
       DEF Heartbeat, watchdog, daemon, Persisted, Tore, Shape, Places, Phases, Kinds
<1>13. ASSUME NEW i \in Runs, NoSession(i) PROVE Shape'
  BY <1>13 DEF NoSession, DaemonEnds, files, watchdog, Shape, Phases
<1>14. ASSUME NEW i \in Runs, StartupFails(i) PROVE Shape'
  <2>1. /\ child[i] = "starting"
        /\ child' = [child EXCEPT ![i] = IF Watching(i) THEN "dead" ELSE "none"]
        /\ UNCHANGED <<op, spawned, pid, marker, session, watchdog, lost, unnamed>>
        /\ UNCHANGED snapshot \/ Tore
    BY <1>14, StartupEffect
  <2>. QED
    BY <2>1 DEF Tore, watchdog, Shape, Places, Phases, Kinds
<1>15. ASSUME NEW i \in Runs, Crash(i) PROVE Shape'
  <2>1. UNCHANGED snapshot \/ Tore
    BY TornEffect, <1>15 DEF Crash
  <2>. QED
    BY <1>15, <2>1 DEF Crash, Tore, DaemonEnds, watchdog, Shape, Places, Phases, Kinds
<1>16. ASSUME NEW i \in Runs, SessionGone(i) PROVE Shape'
  BY <1>16 DEF SessionGone, files, watchdog, Shape, Phases
<1>17. ASSUME NEW i \in Runs, SaveClean(i) PROVE Shape'
  <2>1. Persisted("clean") \/ UNCHANGED snapshot \/ Tore
    BY PersistEffect, TornEffect, <1>17 DEF SaveClean, Kinds
  <2>2. /\ child' = [child EXCEPT ![i] = "saved"] /\ lost' \in BOOLEAN
        /\ UNCHANGED <<op, spawned, pid, marker, session, watchdog, unnamed>>
    BY <1>17 DEF SaveClean, Shape
  <2>. QED
    BY <2>1, <2>2 DEF watchdog, Persisted, Tore, Shape, Places, Phases, Kinds
<1>18. ASSUME NEW i \in Runs, ExitClean(i) PROVE Shape'
  BY <1>18 DEF ExitClean, DaemonEnds, files, watchdog, Shape, Phases
<1>19. ASSUME NEW i \in Runs, HotReload(i) PROVE Shape'
  <2>1. Persisted("running")
    BY PersistEffect, <1>19 DEF Kinds, HotReload
  <2>. QED
    BY <2>1, <1>19 DEF HotReload, watchdog, Persisted, Shape, Phases
<1>20. CASE StartTeam
  BY <1>20 DEF StartTeam, Begin, files, watchdog, daemon, Shape
<1>21. CASE BuildLayout
  BY <1>21 DEF BuildLayout, GoTo, files, watchdog, daemon, Shape
<1>22. CASE SpawnWatchdog
  <2>1. Spawned
    BY SpawnEffect, <1>22
  <2>. QED
    BY WatchdogAssumption, <2>1 DEF Spawned, Shape, ControlOK, Places
<1>23. CASE CheckSpawned
  <2>1. Checked
    BY CheckEffect, <1>23
  <2>. QED
    BY <2>1 DEF Checked, Idle, Shape
<1>24. CASE WritePid
  BY <1>24 DEF WritePid, Idle, watchdog, daemon, Shape, Idle
<1>25. CASE StopTeam
  BY <1>25 DEF StopTeam, Begin, watchdog, daemon, Shape
<1>26. CASE RestartIfStale
  BY <1>26 DEF RestartIfStale, Begin, files, watchdog, daemon, Shape
<1>27. CASE RequestShutdown
  <2>1. Requested
    BY RequestEffect, <1>27
  <2>2. CASE Unsignalled /\ UNCHANGED <<watch, term, resume>>
    BY <2>1, <2>2 DEF Requested, Unsignalled, Answered, Idle, Shape
  <2>3. CASE Signalled /\ Ended(pid)
    BY <2>1, <2>3 DEF Requested, Signalled, Ended, Shape, Places
  <2>4. CASE Signalled /\ term' = [term EXCEPT ![pid] = TRUE] /\ UNCHANGED <<watch, resume>>
    BY <2>1, <2>4 DEF Requested, Signalled, Shape
  <2>. QED
    BY <2>1, <2>2, <2>3, <2>4 DEF Requested
<1>28. CASE WaitClean \/ WaitGone \/ WaitTimesOut
  <2>1. Waited
    BY WaitEffect, <1>28
  <2>. QED
    BY <2>1 DEF Waited, Answered, CleanSnapshot, Idle, Shape
<1>29. CASE ForceKill
  <2>1. Forced
    BY ForceEffect, <1>29
  <2>2. CASE UNCHANGED <<watch, term, resume, child>>
    BY <2>1, <2>2 DEF Forced, Shape, Idle
  <2>3. CASE pid \in Runs /\ Watching(pid) /\ Ended(pid) /\ Orphan(pid)
    BY <2>1, <2>3 DEF Forced, Ended, Orphan, Shape, Places, Phases
  <2>. QED
    BY <2>1, <2>2, <2>3 DEF Forced
<1>30. CASE KillSession
  BY <1>30 DEF KillSession, GoTo, files, watchdog, daemon, Shape
<1>31. CASE WriteMarker
  BY <1>31 DEF WriteMarker, Idle, watchdog, daemon, Shape, Idle
<1>32. CASE SessionLost
  BY <1>32 DEF SessionLost, files, watchdog, daemon, Shape, ControlOK
<1>33. CASE Tick
  BY <1>33 DEF Tick, Shape, Idle
<1>34. CASE StartFails
  BY <1>34 DEF StartFails, Idle, watchdog, daemon, Shape, Places, Phases, Kinds
<1>35. CASE WritePidFails
  BY <1>35 DEF WritePidFails, Idle, watchdog, daemon, Shape, Places, Phases, Kinds
<1>36. CASE KillSessionFails
  BY <1>36 DEF KillSessionFails, Idle, files, watchdog, daemon, Shape, Places, Phases, Kinds
<1>. QED
  BY <1>1, <1>2, <1>3, <1>4, <1>5, <1>6, <1>7, <1>8, <1>9, <1>10, <1>11, <1>12, <1>13, <1>14, <1>15,
     <1>16, <1>17, <1>18, <1>19, <1>20, <1>21, <1>22, <1>23, <1>24, <1>25, <1>26, <1>27, <1>28, <1>29,
     <1>30, <1>31, <1>32, <1>33, <1>34, <1>35, <1>36
     DEF Next, WatchdogStep, DaemonStep, CommandStep, Fault

\* Every command goes where its guard lets it, and only spawn_watchdog makes a
\* watchdog.
LEMMA ControlNext ==
    ASSUME LifeInv, [Next]_vars
    PROVE  ControlOK'
<1>1. CASE UNCHANGED vars
  BY <1>1 DEF vars, watchdog, daemon, ControlOK
<1>2. ASSUME NEW i \in Runs, Boot(i) PROVE ControlOK'
  BY <1>2 DEF Boot, files, daemon, ControlOK, Places, Phases
<1>3. ASSUME NEW i \in Runs, StopAtTop(i) PROVE ControlOK'
  BY <1>3 DEF StopAtTop, WatchdogEnds, daemon, ControlOK, Places, Phases
<1>4. ASSUME NEW i \in Runs, Launch(i) PROVE ControlOK'
  BY <1>4 DEF Launch, ControlOK, Phases
<1>5. ASSUME NEW i \in Runs, WatchdogFails(i) PROVE ControlOK'
  <2>1. Failed(i)
    BY FailEffect, <1>5
  <2>. QED
    BY <2>1 DEF Failed, Ended, Shape, ControlOK, Places, Phases, Watching
<1>6. ASSUME NEW i \in Runs, StopDaemon(i) PROVE ControlOK'
  BY <1>6 DEF StopDaemon, ControlOK, Places, Phases
<1>7. ASSUME NEW i \in Runs, StopWatchdog(i) PROVE ControlOK'
  BY <1>7 DEF StopWatchdog, WatchdogEnds, ControlOK, Places, Phases
<1>8. ASSUME NEW i \in Runs, Observe(i) PROVE ControlOK'
  <2>1. Observed(i)
    BY ObserveEffect, <1>8
  <2>2. CASE Ended(i) /\ pid' = 0
    BY <2>1, <2>2 DEF Observed, Ended, ControlOK, Places, Phases
  <2>3. CASE watch' = [watch EXCEPT ![i] = "backoff"] /\ UNCHANGED <<pid, term, resume>>
    BY <2>1, <2>3 DEF Observed, ControlOK, Phases
  <2>. QED
    BY <2>1, <2>2, <2>3 DEF Observed
<1>9. ASSUME NEW i \in Runs, BackoffEnds(i) PROVE ControlOK'
  BY <1>9 DEF BackoffEnds, files, daemon, ControlOK, Places, Phases
<1>10. ASSUME NEW i \in Runs, Killed(i) PROVE ControlOK'
  BY <1>10 DEF Killed, WatchdogEnds, Orphan, ControlOK, Watching
<1>11. ASSUME NEW i \in Runs, ComesUp(i) PROVE ControlOK'
  BY <1>11 DEF ComesUp, watchdog, ControlOK
<1>12. ASSUME NEW i \in Runs, Heartbeat(i) PROVE ControlOK'
  BY <1>12 DEF Heartbeat, watchdog, daemon, ControlOK
<1>13. ASSUME NEW i \in Runs, NoSession(i) PROVE ControlOK'
  BY <1>13 DEF NoSession, DaemonEnds, watchdog, ControlOK, Places, Phases
<1>14. ASSUME NEW i \in Runs, StartupFails(i) PROVE ControlOK'
  <2>1. /\ child[i] = "starting"
        /\ child' = [child EXCEPT ![i] = IF Watching(i) THEN "dead" ELSE "none"]
        /\ UNCHANGED <<op, spawned, pid, marker, session, watchdog, lost, unnamed>>
    BY <1>14, StartupEffect
  <2>. QED
    BY <2>1 DEF watchdog, Shape, ControlOK, Places, Phases
<1>15. ASSUME NEW i \in Runs, Crash(i) PROVE ControlOK'
  BY <1>15 DEF Crash, DaemonEnds, watchdog, ControlOK, Watching
<1>16. ASSUME NEW i \in Runs, SessionGone(i) PROVE ControlOK'
  BY <1>16 DEF SessionGone, watchdog, ControlOK, Places, Phases
<1>17. ASSUME NEW i \in Runs, SaveClean(i) PROVE ControlOK'
  BY <1>17 DEF SaveClean, watchdog, ControlOK
<1>18. ASSUME NEW i \in Runs, ExitClean(i) PROVE ControlOK'
  BY <1>18 DEF ExitClean, DaemonEnds, watchdog, ControlOK, Places, Phases
<1>19. ASSUME NEW i \in Runs, HotReload(i) PROVE ControlOK'
  BY <1>19 DEF HotReload, watchdog, ControlOK
<1>20. CASE StartTeam
  BY <1>20 DEF StartTeam, Begin, watchdog, daemon, ControlOK
<1>21. CASE BuildLayout
  BY <1>21 DEF BuildLayout, GoTo, watchdog, daemon, ControlOK
<1>22. CASE SpawnWatchdog
  <2>1. Spawned
    BY SpawnEffect, <1>22
  <2>. QED
    BY <2>1 DEF Spawned, Shape, ControlOK, Runs, Places, Phases
<1>23. CASE CheckSpawned
  <2>1. Checked
    BY CheckEffect, <1>23
  <2>2. CASE Watching(spawned) /\ UNCHANGED pid /\ op' = [cmd |-> op.cmd, at |-> "pid", on |-> 0]
    BY <2>1, <2>2 DEF Checked, ControlOK, Phases
  <2>3. CASE ~Watching(spawned) /\ op' = Idle /\ pid' = 0
    BY <2>1, <2>3 DEF Checked, Idle, ControlOK, Phases
  <2>. QED
    BY <2>1, <2>2, <2>3 DEF Checked
<1>24. CASE WritePid
  BY <1>24 DEF WritePid, Idle, watchdog, daemon, ControlOK
<1>25. CASE StopTeam
  BY <1>25 DEF StopTeam, Begin, watchdog, daemon, ControlOK
<1>26. CASE RestartIfStale
  BY <1>26 DEF RestartIfStale, Begin, watchdog, daemon, ControlOK
<1>27. CASE RequestShutdown
  <2>1. Requested
    BY RequestEffect, <1>27
  <2>2. CASE Unsignalled /\ UNCHANGED <<watch, term, resume>>
    BY <2>1, <2>2 DEF Requested, Unsignalled, Answered, Idle, ControlOK
  <2>3. CASE Signalled /\ Ended(pid)
    BY <2>1, <2>3 DEF Requested, Signalled, Ended, Shape, ControlOK, Runs
  <2>4. CASE Signalled /\ term' = [term EXCEPT ![pid] = TRUE] /\ UNCHANGED <<watch, resume>>
    BY <2>1, <2>4 DEF Requested, Signalled, Shape, ControlOK, Runs
  <2>. QED
    BY <2>1, <2>2, <2>3, <2>4 DEF Requested
<1>28. CASE WaitClean \/ WaitGone \/ WaitTimesOut
  <2>1. Waited
    BY WaitEffect, <1>28
  <2>2. CASE CleanSnapshot /\ Answered(TRUE) /\ pid' = 0
    BY <2>1, <2>2 DEF Waited, Answered, ControlOK
  <2>3. CASE ~Watching(op.on) /\ Answered(FALSE) /\ pid' = 0
    BY <2>1, <2>3 DEF Waited, Answered, Idle, ControlOK, Phases
  <2>4. CASE Watching(op.on) /\ Answered(FALSE) /\ pid' = pid
    BY <2>1, <2>4 DEF Waited, Answered, Idle, ControlOK, Phases
  <2>. QED
    BY <2>1, <2>2, <2>3, <2>4 DEF Waited
<1>29. CASE ForceKill
  <2>1. Forced
    BY ForceEffect, <1>29
  <2>2. CASE UNCHANGED <<watch, term, resume, child>>
    BY <2>1, <2>2 DEF Forced, ControlOK, Phases
  <2>3. CASE pid \in Runs /\ Watching(pid) /\ Ended(pid) /\ Orphan(pid)
    BY <2>1, <2>3 DEF Forced, Ended, Orphan, Shape, ControlOK
  <2>. QED
    BY <2>1, <2>2, <2>3 DEF Forced
<1>30. CASE KillSession
  BY <1>30 DEF KillSession, GoTo, watchdog, daemon, ControlOK
<1>31. CASE WriteMarker
  BY <1>31 DEF WriteMarker, Idle, watchdog, daemon, ControlOK
<1>32. CASE SessionLost
  BY <1>32 DEF SessionLost, watchdog, daemon, ControlOK
<1>33. CASE Tick
  BY <1>33 DEF Tick, ControlOK, Phases
<1>34. CASE StartFails
  BY <1>34 DEF StartFails, Idle, watchdog, daemon, Shape, ControlOK, Places, Phases, Watching
<1>35. CASE WritePidFails
  BY <1>35 DEF WritePidFails, Idle, watchdog, daemon, Shape, ControlOK, Places, Phases, Watching
<1>36. CASE KillSessionFails
  BY <1>36
     DEF KillSessionFails, Idle, files, watchdog, daemon, Shape, ControlOK, Places, Phases,
         Watching
<1>. QED
  BY <1>1, <1>2, <1>3, <1>4, <1>5, <1>6, <1>7, <1>8, <1>9, <1>10, <1>11, <1>12, <1>13, <1>14, <1>15,
     <1>16, <1>17, <1>18, <1>19, <1>20, <1>21, <1>22, <1>23, <1>24, <1>25, <1>26, <1>27, <1>28, <1>29,
     <1>30, <1>31, <1>32, <1>33, <1>34, <1>35, <1>36
     DEF Next, WatchdogStep, DaemonStep, CommandStep, Fault

\* A process that has ended never comes back, and only the watchdog spawned last
\* may launch the daemon of its start.
LEMMA AloneNext ==
    ASSUME LifeInv, [Next]_vars
    PROVE  StartedAlone'
<1>1. CASE UNCHANGED vars
  BY <1>1 DEF vars, watchdog, daemon, StartedAlone, Process, NoProcess, Watching, Alive
<1>2. ASSUME NEW i \in Runs, Boot(i) PROVE StartedAlone'
  BY <1>2 DEF Boot, daemon, StartedAlone, Process, NoProcess, Watching, Alive
<1>3. ASSUME NEW i \in Runs, StopAtTop(i) PROVE StartedAlone'
  BY <1>3 DEF StopAtTop, WatchdogEnds, daemon, StartedAlone, Process, NoProcess, Watching, Alive
<1>4. ASSUME NEW i \in Runs, Launch(i) PROVE StartedAlone'
  BY <1>4 DEF Launch, StartedAlone, Process, NoProcess, Watching, Alive
<1>5. ASSUME NEW i \in Runs, WatchdogFails(i) PROVE StartedAlone'
  <2>1. Failed(i)
    BY FailEffect, <1>5
  <2>. QED
    BY <2>1 DEF Failed, Ended, Shape, StartedAlone, Process, NoProcess, Watching, Alive
<1>6. ASSUME NEW i \in Runs, StopDaemon(i) PROVE StartedAlone'
  BY <1>6 DEF StopDaemon, StartedAlone, Process, NoProcess, Watching, Alive
<1>7. ASSUME NEW i \in Runs, StopWatchdog(i) PROVE StartedAlone'
  BY <1>7 DEF StopWatchdog, WatchdogEnds, StartedAlone, Process, NoProcess, Watching, Alive
<1>8. ASSUME NEW i \in Runs, Observe(i) PROVE StartedAlone'
  <2>1. Observed(i)
    BY ObserveEffect, <1>8
  <2>. QED
    BY <2>1 DEF Observed, Ended, Shape, StartedAlone, Process, NoProcess, Watching, Alive
<1>9. ASSUME NEW i \in Runs, BackoffEnds(i) PROVE StartedAlone'
  BY <1>9 DEF BackoffEnds, daemon, StartedAlone, Process, NoProcess, Watching, Alive
<1>10. ASSUME NEW i \in Runs, Killed(i) PROVE StartedAlone'
  BY <1>10 DEF Killed, WatchdogEnds, Orphan, StartedAlone, Process, NoProcess, Watching, Alive
<1>11. ASSUME NEW i \in Runs, ComesUp(i) PROVE StartedAlone'
  BY <1>11 DEF ComesUp, watchdog, StartedAlone, Process, NoProcess, Watching, Alive
<1>12. ASSUME NEW i \in Runs, Heartbeat(i) PROVE StartedAlone'
  BY <1>12 DEF Heartbeat, watchdog, daemon, StartedAlone, Process, NoProcess, Watching, Alive
<1>13. ASSUME NEW i \in Runs, NoSession(i) PROVE StartedAlone'
  BY <1>13
     DEF NoSession, DaemonEnds, watchdog, StartedAlone, Process, NoProcess, Watching, Alive
<1>14. ASSUME NEW i \in Runs, StartupFails(i) PROVE StartedAlone'
  <2>1. /\ child[i] = "starting"
        /\ child' = [child EXCEPT ![i] = IF Watching(i) THEN "dead" ELSE "none"]
        /\ UNCHANGED <<op, spawned, pid, marker, session, watchdog, lost, unnamed>>
    BY <1>14, StartupEffect
  <2>. QED
    BY <2>1
       DEF watchdog, Shape, StartedAlone, Process, NoProcess, Watching, Alive
<1>15. ASSUME NEW i \in Runs, Crash(i) PROVE StartedAlone'
  BY <1>15 DEF Crash, DaemonEnds, watchdog, StartedAlone, Process, NoProcess, Watching, Alive
<1>16. ASSUME NEW i \in Runs, SessionGone(i) PROVE StartedAlone'
  BY <1>16 DEF SessionGone, watchdog, StartedAlone, Process, NoProcess, Watching, Alive
<1>17. ASSUME NEW i \in Runs, SaveClean(i) PROVE StartedAlone'
  BY <1>17 DEF SaveClean, watchdog, StartedAlone, Process, NoProcess, Watching, Alive
<1>18. ASSUME NEW i \in Runs, ExitClean(i) PROVE StartedAlone'
  BY <1>18
     DEF ExitClean, DaemonEnds, watchdog, StartedAlone, Process, NoProcess, Watching, Alive
<1>19. ASSUME NEW i \in Runs, HotReload(i) PROVE StartedAlone'
  BY <1>19 DEF HotReload, watchdog, StartedAlone, Process, NoProcess, Watching, Alive
<1>20. CASE StartTeam
  BY <1>20
     DEF StartTeam, Concurrent, watchdog, daemon, StartedAlone, Process, NoProcess, Watching,
         Alive
<1>21. CASE BuildLayout
  BY <1>21
     DEF BuildLayout, GoTo, watchdog, daemon, StartedAlone, Process, NoProcess, Watching, Alive
<1>22. CASE SpawnWatchdog
  <2>1. Spawned
    BY SpawnEffect, <1>22
  <2>. QED
    BY <2>1
       DEF Spawned, Shape, ControlOK, StartedAlone, Process, NoProcess, Watching, Alive, Runs
<1>23. CASE CheckSpawned
  <2>1. Checked
    BY CheckEffect, <1>23
  <2>. QED
    BY <2>1 DEF Checked, Idle, StartedAlone, Process, Watching, Alive
<1>24. CASE WritePid
  BY <1>24 DEF WritePid, Idle, watchdog, daemon, StartedAlone, Process, Watching, Alive
<1>25. CASE StopTeam
  BY <1>25 DEF StopTeam, Begin, watchdog, daemon, StartedAlone, Process, Watching, Alive
<1>26. CASE RestartIfStale
  BY <1>26 DEF RestartIfStale, Begin, watchdog, daemon, StartedAlone, Process, Watching, Alive
<1>27. CASE RequestShutdown
  <2>1. Requested
    BY RequestEffect, <1>27
  <2>2. CASE Unsignalled /\ UNCHANGED <<watch, term, resume>>
    BY <2>1, <2>2
       DEF Requested, Unsignalled, Answered, Idle, StartedAlone, Process, Watching, Alive
  <2>3. CASE Signalled /\ Ended(pid)
    BY <2>1, <2>3 DEF Requested, Signalled, Ended, StartedAlone, Process, Watching, Alive
  <2>4. CASE Signalled /\ term' = [term EXCEPT ![pid] = TRUE] /\ UNCHANGED <<watch, resume>>
    BY <2>1, <2>4 DEF Requested, Signalled, StartedAlone, Process, Watching, Alive
  <2>. QED
    BY <2>1, <2>2, <2>3, <2>4 DEF Requested
<1>28. CASE WaitClean \/ WaitGone \/ WaitTimesOut
  <2>1. Waited
    BY WaitEffect, <1>28
  <2>. QED
    BY <2>1 DEF Waited, Answered, Idle, StartedAlone, Process, Watching, Alive
<1>29. CASE ForceKill
  <2>1. Forced
    BY ForceEffect, <1>29
  <2>. QED
    BY <2>1 DEF Forced, Ended, Orphan, Shape, StartedAlone, Process, NoProcess, Watching, Alive
<1>30. CASE KillSession
  BY <1>30 DEF KillSession, GoTo, watchdog, daemon, StartedAlone, Process, Watching, Alive
<1>31. CASE WriteMarker
  BY <1>31 DEF WriteMarker, Idle, watchdog, daemon, StartedAlone, Process, Watching, Alive
<1>32. CASE SessionLost
  BY <1>32 DEF SessionLost, watchdog, daemon, StartedAlone, Process, NoProcess, Watching, Alive
<1>33. CASE Tick
  BY <1>33 DEF Tick, StartedAlone, Process, NoProcess, Watching, Alive
<1>34. CASE StartFails
  BY <1>34
     DEF StartFails, Idle, watchdog, daemon, Shape, StartedAlone, Process, NoProcess,
         Watching, Alive
<1>35. CASE WritePidFails
  BY <1>35
     DEF WritePidFails, Idle, watchdog, daemon, Shape, StartedAlone, Process, NoProcess,
         Watching, Alive
<1>36. CASE KillSessionFails
  BY <1>36
     DEF KillSessionFails, Idle, files, watchdog, daemon, Shape, StartedAlone, Process,
         NoProcess, Watching, Alive
<1>. QED
  BY <1>1, <1>2, <1>3, <1>4, <1>5, <1>6, <1>7, <1>8, <1>9, <1>10, <1>11, <1>12, <1>13, <1>14, <1>15,
     <1>16, <1>17, <1>18, <1>19, <1>20, <1>21, <1>22, <1>23, <1>24, <1>25, <1>26, <1>27, <1>28, <1>29,
     <1>30, <1>31, <1>32, <1>33, <1>34, <1>35, <1>36
     DEF Next, WatchdogStep, DaemonStep, CommandStep, Fault

\* A session is built when every daemon has ended, and a command that waits ends
\* with the snapshot it has waited for.
LEMMA ClosingNext ==
    ASSUME LifeInv, [Next]_vars
    PROVE  ClosingWithoutSession'
<1>1. CASE UNCHANGED vars
  BY <1>1 DEF vars, files, daemon, ClosingWithoutSession, CleanSnapshot
<1>2. ASSUME NEW i \in Runs, Boot(i) PROVE ClosingWithoutSession'
  BY <1>2 DEF Boot, files, daemon, Shape, ControlOK, ClosingWithoutSession, CleanSnapshot
<1>3. ASSUME NEW i \in Runs, StopAtTop(i) PROVE ClosingWithoutSession'
  BY <1>3 DEF StopAtTop, WatchdogEnds, daemon, Shape, ControlOK, ClosingWithoutSession, CleanSnapshot
<1>4. ASSUME NEW i \in Runs, Launch(i) PROVE ClosingWithoutSession'
  BY <1>4 DEF Launch, Shape, ControlOK, ClosingWithoutSession, CleanSnapshot
<1>5. ASSUME NEW i \in Runs, WatchdogFails(i) PROVE ClosingWithoutSession'
  <2>1. Failed(i)
    BY FailEffect, <1>5
  <2>. QED
    BY <2>1
       DEF Failed, Ended, Shape, ControlOK, StartedAlone, ClosingWithoutSession,
           CleanSnapshot, NoProcess, Alive
<1>6. ASSUME NEW i \in Runs, StopDaemon(i) PROVE ClosingWithoutSession'
  <2>1. UNCHANGED snapshot \/ Tore
    BY TornEffect, <1>6 DEF StopDaemon
  <2>. QED
    BY <1>6, <2>1
       DEF StopDaemon, Tore, Shape, ControlOK, StartedAlone, ClosingWithoutSession,
           CleanSnapshot, NoProcess, Alive
<1>7. ASSUME NEW i \in Runs, StopWatchdog(i) PROVE ClosingWithoutSession'
  BY <1>7 DEF StopWatchdog, WatchdogEnds, Shape, ControlOK, ClosingWithoutSession, CleanSnapshot
<1>8. ASSUME NEW i \in Runs, Observe(i) PROVE ClosingWithoutSession'
  <2>1. Observed(i)
    BY ObserveEffect, <1>8
  <2>. QED
    BY <2>1 DEF Observed, Ended, Shape, ControlOK, ClosingWithoutSession, CleanSnapshot
<1>9. ASSUME NEW i \in Runs, BackoffEnds(i) PROVE ClosingWithoutSession'
  BY <1>9 DEF BackoffEnds, files, daemon, Shape, ControlOK, ClosingWithoutSession, CleanSnapshot
<1>10. ASSUME NEW i \in Runs, Killed(i) PROVE ClosingWithoutSession'
  BY <1>10 DEF Killed, Orphan, files, ClosingWithoutSession, CleanSnapshot
<1>11. ASSUME NEW i \in Runs, ComesUp(i) PROVE ClosingWithoutSession'
  <2>1. Persisted("running")
    BY PersistEffect, <1>11 DEF Kinds, ComesUp
  <2>. QED
    BY <2>1, <1>11 DEF ComesUp, Persisted, ClosingWithoutSession, CleanSnapshot
<1>12. ASSUME NEW i \in Runs, Heartbeat(i) PROVE ClosingWithoutSession'
  <2>1. Persisted("running") \/ Tore
    BY PersistEffect, TornEffect, <1>12 DEF Heartbeat, Kinds
  <2>. QED
    BY <2>1, <1>12
       DEF Heartbeat, watchdog, daemon, Persisted, Tore, Shape, ControlOK, StartedAlone,
           ClosingWithoutSession, CleanSnapshot, NoProcess, Alive
<1>13. ASSUME NEW i \in Runs, NoSession(i) PROVE ClosingWithoutSession'
  BY <1>13 DEF NoSession, files, ClosingWithoutSession, CleanSnapshot
<1>14. ASSUME NEW i \in Runs, StartupFails(i) PROVE ClosingWithoutSession'
  <2>1. /\ child[i] = "starting"
        /\ child' = [child EXCEPT ![i] = IF Watching(i) THEN "dead" ELSE "none"]
        /\ UNCHANGED <<op, spawned, pid, marker, session, watchdog, lost, unnamed>>
        /\ UNCHANGED snapshot \/ Tore
    BY <1>14, StartupEffect
  <2>. QED
    BY <2>1
       DEF Tore, watchdog, Shape, ControlOK, StartedAlone, ClosingWithoutSession,
           CleanSnapshot, NoProcess, Alive
<1>15. ASSUME NEW i \in Runs, Crash(i) PROVE ClosingWithoutSession'
  <2>1. UNCHANGED snapshot \/ Tore
    BY TornEffect, <1>15 DEF Crash
  <2>. QED
    BY <1>15, <2>1
       DEF Crash, Tore, DaemonEnds, watchdog, Shape, ControlOK, StartedAlone,
           ClosingWithoutSession, CleanSnapshot, NoProcess, Alive
<1>16. ASSUME NEW i \in Runs, SessionGone(i) PROVE ClosingWithoutSession'
  BY <1>16 DEF SessionGone, files, watchdog, Shape, ControlOK, ClosingWithoutSession, CleanSnapshot
<1>17. ASSUME NEW i \in Runs, SaveClean(i) PROVE ClosingWithoutSession'
  <2>1. Persisted("clean") \/ UNCHANGED snapshot \/ Tore
    BY PersistEffect, TornEffect, <1>17 DEF SaveClean, Kinds
  <2>. QED
    BY <2>1, <1>17
       DEF SaveClean, watchdog, Persisted, Tore, Shape, ControlOK, StartedAlone,
           ClosingWithoutSession, CleanSnapshot, NoProcess, Alive
<1>18. ASSUME NEW i \in Runs, ExitClean(i) PROVE ClosingWithoutSession'
  BY <1>18 DEF ExitClean, files, ClosingWithoutSession, CleanSnapshot
<1>19. ASSUME NEW i \in Runs, HotReload(i) PROVE ClosingWithoutSession'
  <2>1. Persisted("running")
    BY PersistEffect, <1>19 DEF Kinds, HotReload
  <2>. QED
    BY <2>1, <1>19 DEF HotReload, Persisted, ClosingWithoutSession, CleanSnapshot
<1>20. CASE StartTeam
  BY <1>20 DEF StartTeam, Begin, Idle, files, ClosingWithoutSession, CleanSnapshot
<1>21. CASE BuildLayout
  BY <1>21
     DEF BuildLayout, GoTo, files, daemon, ControlOK, StartedAlone, ClosingWithoutSession, CleanSnapshot,
         NoProcess, Alive
<1>22. CASE SpawnWatchdog
  <2>1. Spawned
    BY SpawnEffect, <1>22
  <2>. QED
    BY <2>1 DEF Spawned, Shape, ControlOK, ClosingWithoutSession, CleanSnapshot
<1>23. CASE CheckSpawned
  <2>1. Checked
    BY CheckEffect, <1>23
  <2>. QED
    BY <2>1 DEF Checked, Idle, Shape, ControlOK, ClosingWithoutSession, CleanSnapshot
<1>24. CASE WritePid
  BY <1>24 DEF WritePid, Idle, daemon, ClosingWithoutSession, CleanSnapshot
<1>25. CASE StopTeam
  BY <1>25 DEF StopTeam, Begin, Idle, daemon, ClosingWithoutSession, CleanSnapshot
<1>26. CASE RestartIfStale
  BY <1>26 DEF RestartIfStale, Begin, Idle, files, daemon, ClosingWithoutSession, CleanSnapshot
<1>27. CASE RequestShutdown
  <2>1. Requested
    BY RequestEffect, <1>27
  <2>. QED
    BY <2>1
       DEF Requested, Unsignalled, Signalled, Answered, Idle, ClosingWithoutSession, CleanSnapshot, NoProcess
<1>28. CASE WaitClean \/ WaitGone \/ WaitTimesOut
  <2>1. Waited
    BY WaitEffect, <1>28
  <2>. QED
    BY <2>1 DEF Waited, Answered, Idle, ClosingWithoutSession, CleanSnapshot
<1>29. CASE ForceKill
  <2>1. Forced
    BY ForceEffect, <1>29
  <2>. QED
    BY <2>1 DEF Forced, Orphan, Shape, ClosingWithoutSession, CleanSnapshot, NoProcess
<1>30. CASE KillSession
  BY <1>30 DEF KillSession, files, ClosingWithoutSession, CleanSnapshot
<1>31. CASE WriteMarker
  BY <1>31 DEF WriteMarker, ClosingWithoutSession, CleanSnapshot
<1>32. CASE SessionLost
  BY <1>32 DEF SessionLost, files, ClosingWithoutSession, CleanSnapshot
<1>33. CASE Tick
  BY <1>33 DEF Tick, Shape, ControlOK, ClosingWithoutSession, CleanSnapshot
<1>34. CASE StartFails
  BY <1>34
     DEF StartFails, Idle, watchdog, daemon, Shape, ControlOK, StartedAlone,
         ClosingWithoutSession, CleanSnapshot, NoProcess, Alive
<1>35. CASE WritePidFails
  BY <1>35
     DEF WritePidFails, Idle, watchdog, daemon, Shape, ControlOK, StartedAlone,
         ClosingWithoutSession, CleanSnapshot, NoProcess, Alive
<1>36. CASE KillSessionFails
  BY <1>36
     DEF KillSessionFails, Idle, files, watchdog, daemon, Shape, ControlOK, StartedAlone,
         ClosingWithoutSession, CleanSnapshot, NoProcess, Alive
<1>. QED
  BY <1>1, <1>2, <1>3, <1>4, <1>5, <1>6, <1>7, <1>8, <1>9, <1>10, <1>11, <1>12, <1>13, <1>14, <1>15,
     <1>16, <1>17, <1>18, <1>19, <1>20, <1>21, <1>22, <1>23, <1>24, <1>25, <1>26, <1>27, <1>28, <1>29,
     <1>30, <1>31, <1>32, <1>33, <1>34, <1>35, <1>36
     DEF Next, WatchdogStep, DaemonStep, CommandStep, Fault

\* The pid file stops naming a watchdog only when that has ended, has lost its
\* session or is about to be replaced.
LEMMA PidNext ==
    ASSUME LifeInv, [Next]_vars
    PROVE  PidNames'
<1>1. CASE UNCHANGED vars
  BY <1>1 DEF vars, files, watchdog, PidNames, Watching
<1>2. ASSUME NEW i \in Runs, Boot(i) PROVE PidNames'
  BY <1>2 DEF Boot, files, PidNames, Watching
<1>3. ASSUME NEW i \in Runs, StopAtTop(i) PROVE PidNames'
  BY <1>3 DEF StopAtTop, WatchdogEnds, Shape, PidNames, NoProcess, Watching, Alive, Runs
<1>4. ASSUME NEW i \in Runs, Launch(i) PROVE PidNames'
  BY <1>4 DEF Launch, Shape, ControlOK, ClosingWithoutSession, PidNames, Watching
<1>5. ASSUME NEW i \in Runs, WatchdogFails(i) PROVE PidNames'
  <2>1. Failed(i)
    BY FailEffect, <1>5
  <2>. QED
    BY <2>1
       DEF Failed, Ended, Shape, ControlOK, StartedAlone, ClosingWithoutSession, PidNames,
           NoProcess, Watching
<1>6. ASSUME NEW i \in Runs, StopDaemon(i) PROVE PidNames'
  BY <1>6 DEF StopDaemon, files, PidNames, NoProcess, Watching
<1>7. ASSUME NEW i \in Runs, StopWatchdog(i) PROVE PidNames'
  BY <1>7 DEF StopWatchdog, WatchdogEnds, Shape, PidNames, NoProcess, Watching, Alive
<1>8. ASSUME NEW i \in Runs, Observe(i) PROVE PidNames'
  <2>1. Observed(i)
    BY ObserveEffect, <1>8
  <2>2. CASE Ended(i) /\ pid' = 0
    BY <2>1, <2>2 DEF Observed, Ended, Shape, PidNames, NoProcess, Watching
  <2>3. CASE watch' = [watch EXCEPT ![i] = "backoff"] /\ UNCHANGED <<pid, term, resume>>
    BY <2>1, <2>3 DEF Observed, PidNames, Watching
  <2>. QED
    BY <2>1, <2>2, <2>3 DEF Observed
<1>9. ASSUME NEW i \in Runs, BackoffEnds(i) PROVE PidNames'
  BY <1>9 DEF BackoffEnds, files, PidNames, Watching
<1>10. ASSUME NEW i \in Runs, Killed(i) PROVE PidNames'
  BY <1>10 DEF Killed, WatchdogEnds, files, PidNames, Watching
<1>11. ASSUME NEW i \in Runs, ComesUp(i) PROVE PidNames'
  BY <1>11 DEF ComesUp, watchdog, PidNames, Watching
<1>12. ASSUME NEW i \in Runs, Heartbeat(i) PROVE PidNames'
  BY <1>12 DEF Heartbeat, watchdog, PidNames, Watching
<1>13. ASSUME NEW i \in Runs, NoSession(i) PROVE PidNames'
  BY <1>13 DEF NoSession, files, PidNames
<1>14. ASSUME NEW i \in Runs, StartupFails(i) PROVE PidNames'
  <2>1. /\ child[i] = "starting"
        /\ child' = [child EXCEPT ![i] = IF Watching(i) THEN "dead" ELSE "none"]
        /\ UNCHANGED <<op, spawned, pid, marker, session, watchdog, lost, unnamed>>
    BY <1>14, StartupEffect
  <2>. QED
    BY <2>1 DEF watchdog, PidNames, Watching
<1>15. ASSUME NEW i \in Runs, Crash(i) PROVE PidNames'
  BY <1>15 DEF Crash, files, watchdog, PidNames, Watching
<1>16. ASSUME NEW i \in Runs, SessionGone(i) PROVE PidNames'
  BY <1>16 DEF SessionGone, files, PidNames
<1>17. ASSUME NEW i \in Runs, SaveClean(i) PROVE PidNames'
  BY <1>17 DEF SaveClean, ClosingWithoutSession, PidNames
<1>18. ASSUME NEW i \in Runs, ExitClean(i) PROVE PidNames'
  BY <1>18 DEF ExitClean, files, ClosingWithoutSession, PidNames
<1>19. ASSUME NEW i \in Runs, HotReload(i) PROVE PidNames'
  BY <1>19 DEF HotReload, watchdog, PidNames, Watching
<1>20. CASE StartTeam
  BY <1>20 DEF StartTeam, Begin, PidNames
<1>21. CASE BuildLayout
  BY <1>21
     DEF BuildLayout, GoTo, watchdog, ControlOK, StartedAlone, PidNames, NoProcess, Watching
<1>22. CASE SpawnWatchdog
  <2>1. Spawned
    BY SpawnEffect, <1>22
  <2>. QED
    BY <2>1 DEF Spawned, Shape, ControlOK, ClosingWithoutSession, PidNames, Watching
<1>23. CASE CheckSpawned
  <2>1. Checked
    BY CheckEffect, <1>23
  <2>. QED
    BY <2>1 DEF Checked, PidNames, Watching
<1>24. CASE WritePid
  BY <1>24 DEF WritePid, Idle, watchdog, PidNames, Watching
<1>25. CASE StopTeam
  BY <1>25 DEF StopTeam, Begin, Idle, watchdog, PidNames, Watching
<1>26. CASE RestartIfStale
  BY <1>26 DEF RestartIfStale, Begin, Idle, files, watchdog, PidNames, Watching
<1>27. CASE RequestShutdown
  <2>1. Requested
    BY RequestEffect, <1>27
  <2>2. CASE Unsignalled /\ UNCHANGED <<watch, term, resume>>
    BY <2>1, <2>2 DEF Requested, Unsignalled, Answered, Idle, PidNames, Watching, Runs
  <2>3. CASE Signalled /\ Ended(pid)
    BY <2>1, <2>3 DEF Requested, Signalled, Ended, PidNames, Watching
  <2>4. CASE Signalled /\ term' = [term EXCEPT ![pid] = TRUE] /\ UNCHANGED <<watch, resume>>
    BY <2>1, <2>4 DEF Requested, Signalled, PidNames, Watching
  <2>. QED
    BY <2>1, <2>2, <2>3, <2>4 DEF Requested
<1>28. CASE WaitClean \/ WaitGone \/ WaitTimesOut
  <2>1. Waited
    BY WaitEffect, <1>28
  <2>. QED
    BY <2>1 DEF Waited, Answered, CleanSnapshot, Idle, ClosingWithoutSession, PidNames, Watching
<1>29. CASE ForceKill
  <2>1. Forced
    BY ForceEffect, <1>29
  <2>2. CASE ~(pid # 0 /\ Watching(pid)) /\ UNCHANGED <<watch, term, resume, child>>
    BY <2>1, <2>2 DEF Forced, PidNames, Watching, Runs
  <2>3. CASE pid \in Runs /\ Watching(pid) /\ Ended(pid) /\ Orphan(pid)
    BY <2>1, <2>3 DEF Forced, Ended, Shape, PidNames, Watching
  <2>. QED
    BY <2>1, <2>2, <2>3 DEF Forced
<1>30. CASE KillSession
  BY <1>30 DEF KillSession, GoTo, PidNames
<1>31. CASE WriteMarker
  BY <1>31 DEF WriteMarker, Idle, ClosingWithoutSession, PidNames
<1>32. CASE SessionLost
  BY <1>32 DEF SessionLost, files, PidNames
<1>33. CASE Tick
  BY <1>33 DEF Tick, Shape, ControlOK, ClosingWithoutSession, PidNames, Watching
<1>34. CASE StartFails
  BY <1>34
     DEF StartFails, Idle, watchdog, daemon, Shape, ControlOK, StartedAlone,
         ClosingWithoutSession, PidNames, NoProcess, Watching
<1>35. CASE WritePidFails
  BY <1>35
     DEF WritePidFails, Idle, watchdog, daemon, Shape, ControlOK, StartedAlone,
         ClosingWithoutSession, PidNames, NoProcess, Watching
<1>36. CASE KillSessionFails
  BY <1>36
     DEF KillSessionFails, Idle, files, watchdog, daemon, Shape, ControlOK, StartedAlone,
         ClosingWithoutSession, PidNames, NoProcess, Watching
<1>. QED
  BY <1>1, <1>2, <1>3, <1>4, <1>5, <1>6, <1>7, <1>8, <1>9, <1>10, <1>11, <1>12, <1>13, <1>14, <1>15,
     <1>16, <1>17, <1>18, <1>19, <1>20, <1>21, <1>22, <1>23, <1>24, <1>25, <1>26, <1>27, <1>28, <1>29,
     <1>30, <1>31, <1>32, <1>33, <1>34, <1>35, <1>36
     DEF Next, WatchdogStep, DaemonStep, CommandStep, Fault

\* Work is lost only by a daemon that had left a snapshot that is not clean.
LEMMA ResumeNext ==
    ASSUME LifeInv, [Next]_vars
    PROVE  Resuming'
<1>1. CASE UNCHANGED vars
  BY <1>1
     DEF vars, files, watchdog, daemon, Resuming, NoStale, Unclean, Serving, Watching, Alive
<1>2. ASSUME NEW i \in Runs, Boot(i) PROVE Resuming'
  BY <1>2
     DEF Boot, files, daemon, Resuming, NoStale, Unclean, Serving, Process, NoProcess, Watching,
         Alive
<1>3. ASSUME NEW i \in Runs, StopAtTop(i) PROVE Resuming'
  BY <1>3
     DEF StopAtTop, WatchdogEnds, daemon, Shape, Resuming, NoStale, Unclean, Serving, Process,
         NoProcess, Watching, Alive
<1>4. ASSUME NEW i \in Runs, Launch(i) PROVE Resuming'
  BY <1>4
     DEF Launch, Shape, Resuming, NoStale, Unclean, Serving, Process, NoProcess, Watching,
         Alive
<1>5. ASSUME NEW i \in Runs, WatchdogFails(i) PROVE Resuming'
  <2>1. Failed(i)
    BY FailEffect, <1>5
  <2>. QED
    BY <2>1
       DEF Failed, Ended, Shape, ControlOK, StartedAlone, Resuming, NoStale, Unclean, Serving,
           Process, NoProcess, Watching, Alive, Runs
<1>6. ASSUME NEW i \in Runs, StopDaemon(i) PROVE Resuming'
  <2>1. UNCHANGED snapshot \/ Tore
    BY TornEffect, <1>6 DEF StopDaemon
  <2>. QED
    BY <1>6, <2>1
       DEF StopDaemon, Tore, Shape, ControlOK, StartedAlone, Resuming, NoStale, Unclean,
           Serving, Process, NoProcess, Watching, Alive, Runs
<1>7. ASSUME NEW i \in Runs, StopWatchdog(i) PROVE Resuming'
  BY <1>7
     DEF StopWatchdog, WatchdogEnds, Shape, Resuming, NoStale, Unclean, Serving, Process, NoProcess,
         Watching, Alive
<1>8. ASSUME NEW i \in Runs, Observe(i) PROVE Resuming'
  <2>1. Observed(i)
    BY ObserveEffect, <1>8
  <2>2. CASE Ended(i) /\ pid' = 0
    BY <2>1, <2>2
       DEF Observed, Ended, Shape, Resuming, NoStale, Unclean, Serving, Process, NoProcess,
           Watching, Alive
  <2>3. CASE watch' = [watch EXCEPT ![i] = "backoff"] /\ UNCHANGED <<pid, term, resume>>
    BY <2>1, <2>3
       DEF Observed, Resuming, NoStale, Unclean, Serving, Process, NoProcess, Watching, Alive
  <2>. QED
    BY <2>1, <2>2, <2>3 DEF Observed
<1>9. ASSUME NEW i \in Runs, BackoffEnds(i) PROVE Resuming'
  BY <1>9
     DEF BackoffEnds, files, daemon, Resuming, NoStale, Unclean, Serving, Process, NoProcess,
         Watching, Alive
<1>10. ASSUME NEW i \in Runs, Killed(i) PROVE Resuming'
  BY <1>10
     DEF Killed, WatchdogEnds, Orphan, files, Shape, Resuming, NoStale, Unclean, Serving, Process,
         NoProcess, Watching, Alive
<1>11. ASSUME NEW i \in Runs, ComesUp(i) PROVE Resuming'
  <2>1. Persisted("running")
    BY PersistEffect, <1>11 DEF Kinds, ComesUp
  <2>. QED
    BY <2>1, <1>11 DEF ComesUp, watchdog, Persisted, Resuming, NoStale, Unclean, Watching, Alive
<1>12. ASSUME NEW i \in Runs, Heartbeat(i) PROVE Resuming'
  <2>1. Persisted("running") \/ Tore
    BY PersistEffect, TornEffect, <1>12 DEF Heartbeat, Kinds
  <2>. QED
    BY <2>1, <1>12
       DEF Heartbeat, watchdog, daemon, Persisted, Tore, Shape, ControlOK, StartedAlone,
           Resuming, NoStale, Unclean, Serving, Process, NoProcess, Watching, Alive, Runs
<1>13. ASSUME NEW i \in Runs, NoSession(i) PROVE Resuming'
  BY <1>13
     DEF NoSession, DaemonEnds, files, watchdog, Resuming, NoStale, Unclean, Serving, Process,
         NoProcess, Watching, Alive
<1>14. ASSUME NEW i \in Runs, StartupFails(i) PROVE Resuming'
  <2>1. /\ child[i] = "starting"
        /\ child' = [child EXCEPT ![i] = IF Watching(i) THEN "dead" ELSE "none"]
        /\ UNCHANGED <<op, spawned, pid, marker, session, watchdog, lost, unnamed>>
        /\ UNCHANGED snapshot \/ Tore
    BY <1>14, StartupEffect
  <2>. QED
    BY <2>1
       DEF Tore, watchdog, Shape, Resuming, NoStale, Unclean, Serving, Watching, Alive
<1>15. ASSUME NEW i \in Runs, Crash(i) PROVE Resuming'
  <2>1. UNCHANGED snapshot \/ Tore
    BY TornEffect, <1>15 DEF Crash
  <2>. QED
    BY <1>15, <2>1
       DEF Crash, Tore, DaemonEnds, watchdog, Shape, ControlOK, StartedAlone, Resuming,
           NoStale, Unclean, Serving, Process, NoProcess, Watching, Alive, Runs
<1>16. ASSUME NEW i \in Runs, SessionGone(i) PROVE Resuming'
  BY <1>16
     DEF SessionGone, files, watchdog, Resuming, NoStale, Unclean, Serving, Watching, Alive
<1>17. ASSUME NEW i \in Runs, SaveClean(i) PROVE Resuming'
  <2>1. UNCHANGED <<op, spawned, session, origin, watch, resume>>
        /\ child[i] = "closing" /\ child' = [child EXCEPT ![i] = "saved"]
    BY <1>17 DEF SaveClean, watchdog
  <2>2. NoStale => \A j \in Runs : j # i => ~Process(j)
    BY <2>1, WatchdogAssumption
       DEF Shape, ControlOK, StartedAlone, NoStale, Process, Watching, Alive, Runs
  <2>3. CASE Persist("clean") /\ UNCHANGED lost
    <3>1. Persisted("clean")
      BY <2>3, PersistEffect DEF Kinds
    <3>. QED
      BY <2>1, <2>2, <2>3, <3>1
         DEF Persisted, Shape, Resuming, NoStale, Serving, Process, Watching, Alive
  <2>4. CASE PersistFails /\ lost' = TRUE
    <3>1. UNCHANGED snapshot \/ Tore
      BY <2>4, TornEffect
    <3>. QED
      BY <2>1, <2>2, <2>4, <3>1
         DEF Tore, Shape, Resuming, NoStale, Unclean, Serving, Process, Watching, Alive
  <2>. QED
    BY <1>17, <2>3, <2>4 DEF SaveClean
<1>18. ASSUME NEW i \in Runs, ExitClean(i) PROVE Resuming'
  BY <1>18
     DEF ExitClean, DaemonEnds, files, watchdog, Resuming, NoStale, Unclean, Serving, Process,
         NoProcess, Watching, Alive
<1>19. ASSUME NEW i \in Runs, HotReload(i) PROVE Resuming'
  <2>1. Persisted("running")
    BY PersistEffect, <1>19 DEF Kinds, HotReload
  <2>. QED
    BY <2>1, <1>19
       DEF HotReload, watchdog, Persisted, Shape, ControlOK, StartedAlone, Resuming, NoStale,
           Unclean, Serving, Process, NoProcess, Watching, Alive, Runs
<1>20. CASE StartTeam
  BY <1>20
     DEF StartTeam, Concurrent, files, watchdog, daemon, Resuming, NoStale, Unclean, Serving,
         Watching
<1>21. CASE BuildLayout
  BY <1>21
     DEF BuildLayout, files, watchdog, daemon, Resuming, NoStale, Unclean, Serving, Watching,
         Alive
<1>22. CASE SpawnWatchdog
  <2>1. Spawned
    BY SpawnEffect, <1>22
  <2>. QED
    BY <2>1
       DEF Spawned, Shape, ControlOK, Resuming, NoStale, Unclean, Serving, Process, NoProcess,
           Watching, Alive
<1>23. CASE CheckSpawned
  <2>1. Checked
    BY CheckEffect, <1>23
  <2>. QED
    BY <2>1 DEF Checked, Resuming, NoStale, Unclean, Serving, Watching, Alive
<1>24. CASE WritePid
  BY <1>24 DEF WritePid, watchdog, daemon, Resuming, NoStale, Unclean, Serving, Watching, Alive
<1>25. CASE StopTeam
  BY <1>25 DEF StopTeam, watchdog, daemon, Resuming, NoStale, Unclean, Serving, Watching, Alive
<1>26. CASE RestartIfStale
  BY <1>26
     DEF RestartIfStale, files, watchdog, daemon, Resuming, NoStale, Unclean, Serving, Watching,
         Alive
<1>27. CASE RequestShutdown
  <2>1. Requested
    BY RequestEffect, <1>27
  <2>2. CASE Unsignalled /\ UNCHANGED <<watch, term, resume>>
    BY <2>1, <2>2 DEF Requested, Resuming, NoStale, Unclean, Serving, Watching, Alive
  <2>3. CASE Signalled /\ Ended(pid)
    BY <2>1, <2>3
       DEF Requested, Ended, Shape, Resuming, NoStale, Unclean, Serving, Watching, Alive, Runs
  <2>4. CASE Signalled /\ term' = [term EXCEPT ![pid] = TRUE] /\ UNCHANGED <<watch, resume>>
    BY <2>1, <2>4 DEF Requested, Resuming, NoStale, Unclean, Serving, Watching, Alive
  <2>. QED
    BY <2>1, <2>2, <2>3, <2>4 DEF Requested
<1>28. CASE WaitClean \/ WaitGone \/ WaitTimesOut
  <2>1. Waited
    BY WaitEffect, <1>28
  <2>. QED
    BY <2>1 DEF Waited, Resuming, NoStale, Unclean, Serving, Watching, Alive
<1>29. CASE ForceKill
  <2>1. Forced
    BY ForceEffect, <1>29
  <2>2. CASE UNCHANGED <<watch, term, resume, child>>
    BY <2>1, <2>2 DEF Forced, Resuming, NoStale, Unclean, Serving, Watching, Alive
  <2>3. CASE pid \in Runs /\ Watching(pid) /\ Ended(pid) /\ Orphan(pid)
    BY <2>1, <2>3
       DEF Forced, Ended, Orphan, Shape, Resuming, NoStale, Unclean, Serving, Process, NoProcess,
           Watching, Alive
  <2>. QED
    BY <2>1, <2>2, <2>3 DEF Forced
<1>30. CASE KillSession
  BY <1>30
     DEF KillSession, files, watchdog, daemon, Resuming, NoStale, Unclean, Serving, Watching,
         Alive
<1>31. CASE WriteMarker
  BY <1>31
     DEF WriteMarker, watchdog, daemon, Resuming, NoStale, Unclean, Serving, Watching, Alive
<1>32. CASE SessionLost
  BY <1>32
     DEF SessionLost, files, watchdog, daemon, Resuming, NoStale, Unclean, Serving, Watching,
         Alive
<1>33. CASE Tick
  BY <1>33 DEF Tick, Resuming, NoStale, Unclean, Serving, Watching, Alive
<1>34. CASE StartFails
  BY <1>34
     DEF StartFails, Idle, watchdog, daemon, Shape, ControlOK, StartedAlone, Resuming,
         NoStale, Unclean, Serving, Process, NoProcess, Watching, Alive, Runs
<1>35. CASE WritePidFails
  BY <1>35
     DEF WritePidFails, Idle, watchdog, daemon, Shape, ControlOK, StartedAlone, Resuming,
         NoStale, Unclean, Serving, Process, NoProcess, Watching, Alive, Runs
<1>36. CASE KillSessionFails
  BY <1>36
     DEF KillSessionFails, Idle, files, watchdog, daemon, Shape, ControlOK, StartedAlone,
         Resuming, NoStale, Unclean, Serving, Process, NoProcess, Watching, Alive, Runs
<1>. QED
  BY <1>1, <1>2, <1>3, <1>4, <1>5, <1>6, <1>7, <1>8, <1>9, <1>10, <1>11, <1>12, <1>13, <1>14, <1>15,
     <1>16, <1>17, <1>18, <1>19, <1>20, <1>21, <1>22, <1>23, <1>24, <1>25, <1>26, <1>27, <1>28, <1>29,
     <1>30, <1>31, <1>32, <1>33, <1>34, <1>35, <1>36
     DEF Next, WatchdogStep, DaemonStep, CommandStep, Fault

-----------------------------------------------------------------------------
(* The theorems. *)

\* The initial state.
LEMMA LifeInit == Init => LifeInv
<1>. SUFFICES ASSUME Init PROVE LifeInv
  OBVIOUS
<1>1. Shape
  <2>1. op \in [cmd : {"none", "start", "stop", "stale"},
                at : {"done", "layout", "spawn", "check", "pid", "signal", "wait", "force",
                      "kill", "mark"},
                on : Nat]
    BY DEF Init, Idle
  <2>2. spawned \in 0 .. MaxStarts /\ pid \in 0 .. spawned
    BY WatchdogAssumption DEF Init
  <2>3. /\ snapshot \in [kind : Kinds, newer : BOOLEAN]
        /\ marker \in BOOLEAN /\ session \in BOOLEAN /\ lost \in BOOLEAN /\ unnamed \in BOOLEAN
    BY DEF Init, Kinds
  <2>4. /\ origin \in [Runs -> {"none", "start", "stop", "stale"}]
        /\ watch \in [Runs -> Places] /\ child \in [Runs -> Phases]
    BY DEF Init, Places, Phases
  <2>5. term \in [Runs -> BOOLEAN] /\ resume \in [Runs -> BOOLEAN]
    BY DEF Init
  <2>. QED
    BY <2>1, <2>2, <2>3, <2>4, <2>5 DEF Shape
<1>2. ControlOK
  BY WatchdogAssumption DEF Init, ControlOK, Runs, Idle
<1>3. StartedAlone
  BY DEF Init, StartedAlone, Process, NoProcess, Watching, Alive, Idle
<1>4. ClosingWithoutSession
  BY DEF Init, ClosingWithoutSession, Idle
<1>5. PidNames
  BY DEF Init, PidNames, Idle
<1>6. Resuming
  BY DEF Init, Resuming, Serving, Watching
<1>. QED
  BY <1>1, <1>2, <1>3, <1>4, <1>5, <1>6

\* The invariant is inductive.
THEOREM LifeInvariant == Spec => []LifeInv
<1>1. LifeInv /\ [Next]_vars => LifeInv'
  BY ShapeNext, ControlNext, AloneNext, ClosingNext, PidNext, ResumeNext
<1>. QED
  BY LifeInit, <1>1, PTL DEF Spec

\* However many watchdogs are ever spawned, and whoever kills what in between, no
\* daemon an earlier command left behind works beside the daemon of a start.
THEOREM StartWorksAlone == Spec => []OneDaemon
<1>1. LifeInv => OneDaemon
  BY WatchdogAssumption
     DEF Shape, ControlOK, StartedAlone, OneDaemon, Serving, Process, Alive, Watching, Runs
<1>. QED
  BY <1>1, LifeInvariant, PTL

\* While the team has its session and no command is being run, the pid file names
\* every watchdog that has not been told to stop, unless a write of the file has
\* failed since the last `batty start` began.
THEOREM TeamIsStoppable == Spec => []RunningIsStoppable
<1>1. LifeInv => RunningIsStoppable
  BY DEF PidNames, RunningIsStoppable, Idle
<1>. QED
  BY <1>1, LifeInvariant, PTL

\* As long as restart-if-stale has spawned nothing, no daemon begins without
\* --resume after one that died without a clean snapshot, unless its snapshot was
\* cut off while it was written.
THEOREM LostWorkIsResumed == Spec => WorkResumed
<1>. DEFINE Step == \A i \in Runs :
                      Fresh(i) /\ lost =>
                        snapshot.kind = "torn" \/ \E j \in Runs : origin[j] = "stale"
<1>1. LifeInv /\ [Next]_vars => [Step]_vars
  BY DEF Resuming, NoStale, Fresh, Launch, Watching
<1>. QED
  BY <1>1, LifeInvariant, PTL DEF Spec, WorkResumed
=============================================================================
