------------------------- MODULE EngineSupervisor -------------------------
(***************************************************************************)
(* The managed Espanso engine of the desktop: EngineSupervisor             *)
(* (crates/espanso-adapter/src/lifecycle.rs) and the commands that drive   *)
(* it (apps/desktop/src-tauri/src/commands.rs, lib.rs).                    *)
(*                                                                         *)
(* Three kinds of threads meet: "boot", which runs the launch bootstrap    *)
(* once; "main", which runs the commands of the window and the exit hook,  *)
(* one at a time; and a monitor thread per started engine.  They share the *)
(* supervisor's mutex (`inner`), which is held for one step at a time, the *)
(* files of the engine directory, which nothing guards, and the daemon     *)
(* processes, which outlive the host when it dies.                         *)
(*                                                                         *)
(* A daemon is known by its number, counted from the first ever spawned.   *)
(* A number is not used again, so the check of a recorded pid's command    *)
(* line always finds Espanso.  terminate_with_grace returns when the       *)
(* process is gone, or killed: it is one step.                             *)
(***************************************************************************)
EXTENDS Naturals

CONSTANTS RestartBudget,   \* length of DEFAULT_BACKOFF
          MaxSpawns,       \* bound: daemons ever spawned
          MaxCommands,     \* bound: commands given in the window
          MaxLaunches      \* bound: lives of the host

ASSUME SupervisorAssumption ==
    /\ {RestartBudget, MaxSpawns, MaxCommands, MaxLaunches} \subseteq Nat
    /\ MaxLaunches > 0

None    == 0
Threads == {"boot", "main"}

VARIABLES
    host,       \* "up", "crashed" or "exited"
    launches,   \* lives of the host so far
    commands,   \* commands given so far
    spawned,    \* daemons ever spawned
    before,     \* daemons spawned before this life of the host
    alive,      \* the daemons that run
    user,       \* a user-owned Espanso is running
    files,      \* match: the generated file exists, off: the marker does, pid
    inner,      \* the supervisor's Inner: state, generation, child
    thread,     \* what boot and main are doing
    monitors,   \* the monitor threads
    gate,       \* history: what the gate last said in this life of the host
    raced       \* history: boot and main overlapped, or a superseded monitor
                \* recorded its daemon over a newer one that runs

vars == <<host, launches, commands, spawned, before, alive, user, files,
          inner, thread, monitors, gate, raced>>

Idle     == [state |-> "idle", generation |-> 0, child |-> None]
At(step) == [step |-> step, child |-> None, generation |-> 0, exiting |-> FALSE]

Init ==
    /\ host = "up" /\ launches = 1 /\ commands = 0
    /\ spawned = 0 /\ before = 0 /\ alive = {}
    /\ user \in BOOLEAN
    /\ files = [match |-> FALSE, off |-> FALSE, pid |-> None]
    /\ inner = Idle
    /\ thread = [t \in Threads |-> At(IF t = "boot" THEN "launch" ELSE "rest")]
    /\ monitors = {}
    /\ gate = TRUE /\ raced = FALSE

Resting(t) == thread[t].step \in {"launch", "rest"}
Busy(t)    == host = "up" /\ ~Resting(t)
Supervised == inner.state \in {"running", "retrying"}

Goto(t, step) == thread' = [thread EXCEPT ![t].step = step]

\* The call returns; the exit hook is the last thing the host does.
Return(t) ==
    IF thread[t].exiting
      THEN /\ host' = "exited"
           /\ monitors' = {}
           /\ UNCHANGED thread
      ELSE /\ Goto(t, "rest")
           /\ UNCHANGED <<host, monitors>>

\* A call that begins while the other thread is inside one races with it.
Begin(t) == raced' = (raced \/ \E o \in Threads \ {t} : ~Resting(o))

-----------------------------------------------------------------------------
(* What the two threads are asked to do.                                   *)

\* The bootstrap starts nothing that was turned off.
Bootstrap ==
    /\ host = "up"
    /\ thread["boot"].step = "launch"
    /\ Begin("boot")
    /\ Goto("boot", IF files.off THEN "rest" ELSE "regenerate")
    /\ UNCHANGED <<host, launches, commands, spawned, before, alive, user,
                   files, inner, monitors, gate>>

Command(step, exits) ==
    /\ host = "up"
    /\ thread["main"].step = "rest"
    /\ commands < MaxCommands
    /\ commands' = commands + 1
    /\ Begin("main")
    /\ thread' = [thread EXCEPT !["main"] = [At(step) EXCEPT !.exiting = exits]]
    /\ UNCHANGED <<host, launches, spawned, before, alive, user, inner, monitors, gate>>

\* espanso_sync clears the off switch first.
Enable == /\ Command("regenerate", FALSE)
          /\ files' = [files EXCEPT !.off = FALSE]

\* espanso_status, and espanso_coexistence: the recorded choice tells the
\* window why the gate is closed, never whether it is.
Status == Command("gate", FALSE) /\ UNCHANGED files

\* espanso_disable removes the generated file first.
Disable == /\ Command("switch off", FALSE)
           /\ files' = [files EXCEPT !.match = FALSE]

Exit == Command("stop", TRUE) /\ UNCHANGED files

-----------------------------------------------------------------------------
(* The steps of the calls.                                                 *)

\* Writing the match file can fail: the command gives up, the bootstrap goes on.
Regenerate(t) ==
    /\ Busy(t) /\ thread[t].step = "regenerate"
    /\ \/ files' = [files EXCEPT !.match = TRUE] /\ Goto(t, "gate")
       \/ UNCHANGED files /\ Goto(t, IF t = "boot" THEN "gate" ELSE "rest")
    /\ UNCHANGED <<host, launches, commands, spawned, before, alive, user,
                   inner, monitors, raced, gate>>

GateOpen == files.match /\ ~user

EngineGate(t) ==
    /\ Busy(t) /\ thread[t].step = "gate"
    /\ gate' = GateOpen
    /\ Goto(t, IF GateOpen THEN "ensure" ELSE "yield")
    /\ UNCHANGED <<host, launches, commands, spawned, before, alive, user, files,
                   inner, monitors, raced>>

\* ensure_running: the state is read, and the mutex released.
EnsureRunning(t) ==
    /\ Busy(t) /\ thread[t].step = "ensure"
    /\ Goto(t, IF Supervised THEN "rest" ELSE "clear")
    /\ UNCHANGED <<host, launches, commands, spawned, before, alive, user, files,
                   inner, monitors, raced, gate>>

\* Mutant of Yield: a pending restart is not stopped.
YieldRunning(t) ==
    /\ Busy(t) /\ thread[t].step = "yield"
    /\ Goto(t, IF inner.state = "running" THEN "stop" ELSE "rest")
    /\ UNCHANGED <<host, launches, commands, spawned, before, alive, user, files,
                   inner, monitors, raced, gate>>

Yield(t) ==
    /\ Busy(t) /\ thread[t].step = "yield"
    /\ Goto(t, IF Supervised THEN "stop" ELSE "rest")
    /\ UNCHANGED <<host, launches, commands, spawned, before, alive, user, files,
                   inner, monitors, raced, gate>>

SwitchOff(t) ==
    /\ Busy(t) /\ thread[t].step = "switch off"
    /\ files' = [files EXCEPT !.off = TRUE]
    /\ Goto(t, "stop")
    /\ UNCHANGED <<host, launches, commands, spawned, before, alive, user, inner,
                   monitors, raced, gate>>

\* clear_residual_engine: the recorded daemon is terminated, then the record
\* removed.
ClearResidual(t) ==
    /\ Busy(t) /\ thread[t].step = "clear"
    /\ alive' = alive \ {files.pid}
    /\ Goto(t, "forget")
    /\ UNCHANGED <<host, launches, commands, spawned, before, user, files, inner,
                   monitors, raced, gate>>

ForgetResidual(t) ==
    /\ Busy(t) /\ thread[t].step = "forget"
    /\ files' = [files EXCEPT !.pid = None]
    /\ Goto(t, "spawn")
    /\ UNCHANGED <<host, launches, commands, spawned, before, alive, user, inner,
                   monitors, raced, gate>>

NextPid == spawned + 1

\* A new process, known to the supervisor before anyone records its pid.
Spawned(generation) ==
    /\ spawned < MaxSpawns
    /\ spawned' = NextPid
    /\ alive' = alive \cup {NextPid}
    /\ inner' = [state |-> "running", generation |-> generation, child |-> NextPid]

\* start, under the mutex: a spawn that fails has used up a generation.
Start(t) ==
    /\ Busy(t) /\ thread[t].step = "spawn"
    /\ \/ /\ Spawned(inner.generation + 1)
          /\ thread' = [thread EXCEPT ![t].step = "record", ![t].child = NextPid,
                                      ![t].generation = inner.generation + 1]
       \/ /\ inner' = [inner EXCEPT !.generation = @ + 1]
          /\ Goto(t, "rest")
          /\ UNCHANGED <<spawned, alive>>
    /\ UNCHANGED <<host, launches, commands, before, user, files, monitors, raced, gate>>

Watch(generation, child) ==
    [generation |-> generation, child |-> child, attempt |-> 0, step |-> "wait"]

\* start, after the mutex is released: record the pid, then supervise.
Record(t) ==
    /\ Busy(t) /\ thread[t].step = "record"
    /\ files' = [files EXCEPT !.pid = thread[t].child]
    /\ monitors' = monitors \cup {Watch(thread[t].generation, thread[t].child)}
    /\ Goto(t, "rest")
    /\ UNCHANGED <<host, launches, commands, spawned, before, alive, user, inner,
                   raced, gate>>

\* Mutant of StopTake: the generation is not bumped.
StopTakeSameGeneration(t) ==
    /\ Busy(t) /\ thread[t].step = "stop"
    /\ inner' = [state |-> "stopped", generation |-> inner.generation,
                 child |-> None]
    /\ thread' = [thread EXCEPT ![t].step = "terminate", ![t].child = inner.child]
    /\ UNCHANGED <<host, launches, commands, spawned, before, alive, user, files,
                   monitors, raced, gate>>

\* stop, under the mutex.
StopTake(t) ==
    /\ Busy(t) /\ thread[t].step = "stop"
    /\ inner' = [state |-> "stopped", generation |-> inner.generation + 1,
                 child |-> None]
    /\ thread' = [thread EXCEPT ![t].step = "terminate", ![t].child = inner.child]
    /\ UNCHANGED <<host, launches, commands, spawned, before, alive, user, files,
                   monitors, raced, gate>>

StopTerminate(t) ==
    /\ Busy(t) /\ thread[t].step = "terminate"
    /\ alive' = alive \ {thread[t].child}
    /\ Goto(t, "unrecord")
    /\ UNCHANGED <<host, launches, commands, spawned, before, user, files, inner,
                   monitors, raced, gate>>

\* The record is removed whatever it names.
StopUnrecord(t) ==
    /\ Busy(t) /\ thread[t].step = "unrecord"
    /\ files' = [files EXCEPT !.pid = None]
    /\ Return(t)
    /\ UNCHANGED <<launches, commands, spawned, before, alive, user, inner, raced, gate>>

CallStep(t) ==
    \/ Regenerate(t) \/ EngineGate(t) \/ EnsureRunning(t) \/ Yield(t)
    \/ SwitchOff(t) \/ ClearResidual(t) \/ ForgetResidual(t) \/ Start(t)
    \/ Record(t) \/ StopTake(t) \/ StopTerminate(t) \/ StopUnrecord(t)

-----------------------------------------------------------------------------
(* The monitor threads.                                                    *)

Superseded(m) == inner.generation # m.generation
Ends(m)       == monitors' = monitors \ {m}
Becomes(m, n) == monitors' = (monitors \ {m}) \cup {n}

\* The restart budget is spent, or the restart itself failed.
GiveUp(m) ==
    /\ inner' = [inner EXCEPT !.state = "failed", !.child = None]
    /\ files' = [files EXCEPT !.pid = None]
    /\ Ends(m)

\* Mutant of Exhausted: one restart too many.
ExhaustedLate(m) == m.attempt > RestartBudget

Exhausted(m) == m.attempt >= RestartBudget

\* The child was reaped; the rest happens under the mutex.
NoticeExit(m) ==
    /\ m.step = "wait"
    /\ m.child \notin alive
    /\ \/ Superseded(m) /\ Ends(m) /\ UNCHANGED <<inner, files>>
       \/ ~Superseded(m) /\ Exhausted(m) /\ GiveUp(m)
       \/ /\ ~Superseded(m) /\ ~Exhausted(m)
          /\ inner' = [inner EXCEPT !.state = "retrying", !.child = None]
          /\ Becomes(m, [m EXCEPT !.step = "sleep"])
          /\ UNCHANGED files
    /\ UNCHANGED <<spawned, alive, raced>>

\* Mutant of Restart: a restart takes a new generation.
RestartBumps(m) ==
    /\ m.step = "sleep"
    /\ \/ /\ Superseded(m)
          /\ Ends(m)
          /\ UNCHANGED <<inner, files, spawned, alive>>
       \/ /\ ~Superseded(m)
          /\ Spawned(inner.generation + 1)
          /\ Becomes(m, [m EXCEPT !.step = "record", !.child = NextPid,
                                  !.attempt = @ + 1])
          /\ UNCHANGED files
       \/ /\ ~Superseded(m)
          /\ GiveUp(m)
          /\ UNCHANGED <<spawned, alive>>
    /\ UNCHANGED raced

\* After the backoff, under the mutex again.
Restart(m) ==
    /\ m.step = "sleep"
    /\ \/ /\ Superseded(m)
          /\ Ends(m)
          /\ UNCHANGED <<inner, files, spawned, alive>>
       \/ /\ ~Superseded(m)
          /\ Spawned(inner.generation)
          /\ Becomes(m, [m EXCEPT !.step = "record", !.child = NextPid,
                                  !.attempt = @ + 1])
          /\ UNCHANGED files
       \/ /\ ~Superseded(m)
          /\ GiveUp(m)
          /\ UNCHANGED <<spawned, alive>>
    /\ UNCHANGED raced

\* The record is written after the mutex was released: a stop and a new start
\* may lie in between.
RecordRestart(m) ==
    /\ m.step = "record"
    /\ files' = [files EXCEPT !.pid = m.child]
    /\ raced' = (raced \/ (Superseded(m) /\ files.pid \in alive))
    /\ Becomes(m, [m EXCEPT !.step = "wait"])
    /\ UNCHANGED <<inner, spawned, alive>>

Monitor(m) ==
    /\ host = "up"
    /\ NoticeExit(m) \/ Restart(m) \/ RecordRestart(m)
    /\ UNCHANGED <<host, launches, commands, before, user, thread, gate>>

-----------------------------------------------------------------------------
(* What nobody asked for.                                                  *)

DaemonDies ==
    /\ \E d \in alive : alive' = alive \ {d}
    /\ UNCHANGED <<host, launches, commands, spawned, before, user, files, inner,
                   thread, monitors, raced, gate>>

UserTogglesOwn ==
    /\ user' = ~user
    /\ UNCHANGED <<host, launches, commands, spawned, before, alive, files, inner,
                   thread, monitors, raced, gate>>

\* The host dies with its threads and its memory; files and daemons stay.
HostCrash ==
    /\ host = "up"
    /\ host' = "crashed"
    /\ monitors' = {}
    /\ UNCHANGED <<launches, commands, spawned, before, alive, user, files, inner,
                   thread, raced, gate>>

Launch ==
    /\ host # "up"
    /\ launches < MaxLaunches
    /\ host' = "up"
    /\ launches' = launches + 1
    /\ before' = spawned
    /\ inner' = Idle
    /\ thread' = [t \in Threads |-> At(IF t = "boot" THEN "launch" ELSE "rest")]
    /\ gate' = TRUE
    /\ UNCHANGED <<commands, spawned, alive, user, files, monitors, raced>>

Next ==
    \/ Bootstrap \/ Enable \/ Status \/ Disable \/ Exit
    \/ \E t \in Threads : CallStep(t)
    \/ \E m \in monitors : Monitor(m)
    \/ DaemonDies \/ UserTogglesOwn \/ HostCrash \/ Launch

Generations == 1 .. (MaxCommands + MaxLaunches)

\* Threads that were started run; nothing makes the user click, or an engine die.
Fairness ==
    /\ \A t \in Threads : WF_vars(CallStep(t))
    /\ \A g \in Generations :
         WF_vars(\E m \in monitors : m.generation = g /\ Monitor(m))

Spec == Init /\ [][Next]_vars /\ Fairness

-----------------------------------------------------------------------------
Steps == {"launch", "rest", "regenerate", "gate", "ensure", "yield", "switch off",
          "clear", "forget", "spawn", "record", "stop", "terminate", "unrecord"}

\* Types; every pid that is known somewhere was spawned, and no monitor
\* restarts more often than its budget.
TypeOK ==
    /\ host \in {"up", "crashed", "exited"}
    /\ launches \in 1 .. MaxLaunches /\ commands \in 0 .. MaxCommands
    /\ spawned \in 0 .. MaxSpawns /\ before \in 0 .. spawned
    /\ alive \subseteq 1 .. spawned
    /\ user \in BOOLEAN /\ gate \in BOOLEAN /\ raced \in BOOLEAN
    /\ files \in [match : BOOLEAN, off : BOOLEAN, pid : 0 .. spawned]
    /\ inner \in [state : {"idle", "running", "retrying", "failed", "stopped"},
                  generation : Nat, child : 0 .. spawned]
    /\ thread \in [Threads -> [step : Steps, child : 0 .. spawned,
                               generation : Nat, exiting : BOOLEAN]]
    /\ monitors \subseteq [generation : Nat, child : 1 .. spawned,
                           attempt : 0 .. RestartBudget,
                           step : {"wait", "sleep", "record"}]

\* However starts, stops and restarts interleave, a generation has at most one
\* monitor, and what the supervisor shows is what the monitor of the current
\* generation knows: the daemon it waits for, or the restart it sleeps before.
OneMonitor ==
    /\ \A m, n \in monitors : m.generation = n.generation => m = n
    /\ \A m \in monitors : ~Superseded(m) =>
         IF m.step = "sleep" THEN inner.state = "retrying" /\ inner.child = None
         ELSE inner.state = "running" /\ inner.child = m.child

Ours   == {d \in alive : d > before}
AtRest == host = "up" /\ \A t \in Threads : Resting(t)

\* A daemon of this session that runs is the supervisor's child, is watched,
\* and is named by the pid file: if the host died now, the next start would
\* find it.
ChildIsKnown ==
    AtRest =>
        /\ Ours \subseteq {inner.child}
        /\ Supervised => \E m \in monitors : ~Superseded(m)
        /\ (\A m \in monitors : m.step # "record") => Ours \subseteq {files.pid}

\* "So no daemon outlives the app": none of a session outlives its regular exit.
NoneOutlivesExit == host = "exited" => Ours = {}

\* Off is off, across crashes between the steps of the switch: a pending
\* restart of the monitor, the bootstrap or a status read do not bring the
\* engine back; and one that had to make way for the user's own stays away.
OffStaysOff ==
    AtRest =>
        /\ files.off => ~files.match /\ ~Supervised
        /\ ~gate => ~Supervised
        /\ ~Supervised => Ours = {}

\* "Never leave orphans behind": while nothing races (ensure_running checks,
\* then starts; a monitor records its daemon after it lost the mutex), every
\* daemon of this session is watched, recorded, and ended with the session or
\* by the switch.
EngineAccounted ==
    OneMonitor /\ (~raced => ChildIsKnown /\ NoneOutlivesExit /\ OffStaysOff)

ChildLost == Supervised /\ inner.child \notin alive

\* An engine that died is running again, given up or stopped after a while:
\* the status never stays at an engine that is not there.
CrashIsHandled ==
    (host = "up" /\ ~raced /\ ChildLost) ~> (host # "up" \/ raced \/ ~ChildLost)
=============================================================================
