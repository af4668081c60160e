---------------------- MODULE EngineSupervisor_proofs ----------------------
(***************************************************************************)
(* EngineSupervisor: types, and that a generation has one monitor, for     *)
(* every restart budget and every bound, whatever calls overlap.           *)
(***************************************************************************)
EXTENDS EngineSupervisor, TLAPS

\* Monitors die with the host and never come from a later generation; one that
\* sleeps has restarts left.
MonitorsKnown ==
    /\ host # "up" => monitors = {}
    /\ \A m \in monitors : /\ m.generation <= inner.generation
                           /\ m.step = "sleep" => m.attempt < RestartBudget

Recording(t) == thread[t].step = "record"

\* Between the mutex and the monitor a start owns its generation alone.
StartsOwnGeneration ==
    /\ \A t \in Threads : Recording(t) =>
         /\ thread[t].child # None
         /\ thread[t].generation <= inner.generation
         /\ thread[t].generation = inner.generation =>
              inner.state = "running" /\ inner.child = thread[t].child
         /\ \A m \in monitors : m.generation # thread[t].generation
    /\ \A t, u \in Threads :
         Recording(t) /\ Recording(u) /\ thread[t].generation = thread[u].generation => t = u

Inv == TypeOK /\ OneMonitor /\ MonitorsKnown /\ StartsOwnGeneration

LEMMA InitInv == Init => Inv
<1> SUFFICES ASSUME Init PROVE Inv
  OBVIOUS
<1>1. TypeOK
  <2>1. /\ launches \in 1 .. MaxLaunches /\ commands \in 0 .. MaxCommands
        /\ spawned \in 0 .. MaxSpawns /\ before \in 0 .. spawned
    BY SupervisorAssumption DEF Init
  <2>2. thread \in [Threads -> [step : Steps, child : 0 .. spawned,
                               generation : Nat, exiting : BOOLEAN]]
    BY DEF Init, At, Steps, None
  <2>3. /\ inner \in [state : {"idle", "running", "retrying", "failed", "stopped"},
                      generation : Nat, child : 0 .. spawned]
        /\ files \in [match : BOOLEAN, off : BOOLEAN, pid : 0 .. spawned]
    BY DEF Init, Idle, None
  <2> QED BY <2>1, <2>2, <2>3 DEF Init, TypeOK
<1>2. OneMonitor /\ MonitorsKnown
  BY DEF Init, OneMonitor, MonitorsKnown
<1>3. StartsOwnGeneration
  BY DEF Init, StartsOwnGeneration, Recording, At, Threads
<1> QED BY <1>1, <1>2, <1>3 DEF Inv

\* A step of a thread keeps the types of the threads.
LEMMA GotoTyped ==
    ASSUME TypeOK, NEW t \in Threads, NEW step \in Steps, Goto(t, step)
    PROVE  thread' \in [Threads -> [step : Steps, child : 0 .. spawned,
                                   generation : Nat, exiting : BOOLEAN]]
  BY DEF TypeOK, Goto

\* What no step of the supervisor or a monitor touches stays as it is.
LEMMA QuietPreserves ==
    ASSUME OneMonitor, MonitorsKnown, StartsOwnGeneration, UNCHANGED inner,
           monitors' = monitors \/ monitors' = {},
           host' # "up" => monitors' = {},
           \A t \in Threads : thread'[t].step = "record" => thread'[t] = thread[t]
    PROVE  OneMonitor' /\ MonitorsKnown' /\ StartsOwnGeneration'
<1>1. OneMonitor'
  BY DEF OneMonitor, Superseded
<1>2. MonitorsKnown'
  BY DEF MonitorsKnown
<1>3. StartsOwnGeneration'
  BY DEF StartsOwnGeneration, Recording
<1> QED BY <1>1, <1>2, <1>3
\* Asking for something.
LEMMA AskingPreserves ==
    ASSUME Inv, Bootstrap \/ Enable \/ Status \/ Disable \/ Exit
    PROVE  Inv'
<1> DEFINE Typed == [Threads -> [step : Steps, child : 0 .. spawned,
                                generation : Nat, exiting : BOOLEAN]]
<1>1. ASSUME Bootstrap PROVE Inv'
  <2>1. thread' \in Typed
    BY <1>1, GotoTyped DEF Bootstrap, Inv, Threads, Steps
  <2>2. TypeOK'
    BY <1>1, <2>1 DEF Bootstrap, Begin, Inv, TypeOK
  <2>3. \A t \in Threads : thread'[t].step = "record" => thread'[t] = thread[t]
    BY <1>1 DEF Bootstrap, Goto, Inv, TypeOK, Threads
  <2> QED BY <1>1, <2>2, <2>3, QuietPreserves DEF Bootstrap, Inv
<1>2. ASSUME NEW step \in Steps \ {"record"}, NEW exits \in BOOLEAN, Command(step, exits),
             files' \in [match : BOOLEAN, off : BOOLEAN, pid : 0 .. spawned]
      PROVE  Inv'
  <2>0. [At(step) EXCEPT !.exiting = exits]
          \in [step : Steps, child : 0 .. spawned, generation : Nat, exiting : BOOLEAN]
    BY <1>2 DEF At, None, Inv, TypeOK
  <2>1. thread' \in Typed
    BY <1>2, <2>0 DEF Command, Inv, TypeOK
  <2>2. TypeOK'
    BY <1>2, <2>1, SupervisorAssumption DEF Command, Begin, Inv, TypeOK
  <2>3. \A t \in Threads : thread'[t].step = "record" => thread'[t] = thread[t]
    BY <1>2 DEF Command, At, Inv, TypeOK, Threads
  <2> QED BY <1>2, <2>2, <2>3, QuietPreserves DEF Command, Inv
<1>3. CASE Enable
  <2>1. files' \in [match : BOOLEAN, off : BOOLEAN, pid : 0 .. spawned]
    BY <1>3 DEF Enable, Inv, TypeOK
  <2> QED BY <1>2, <1>3, <2>1 DEF Enable, Steps
<1>4. CASE Status
  BY <1>2, <1>4 DEF Status, Steps, Inv, TypeOK
<1>5. CASE Disable
  <2>1. files' \in [match : BOOLEAN, off : BOOLEAN, pid : 0 .. spawned]
    BY <1>5 DEF Disable, Inv, TypeOK
  <2> QED BY <1>2, <1>5, <2>1 DEF Disable, Steps
<1>6. CASE Exit
  BY <1>2, <1>6 DEF Exit, Steps, Inv, TypeOK
<1> QED BY <1>1, <1>3, <1>4, <1>5, <1>6

\* Steps of a call that look, write files or end daemons.
LEMMA LookingPreserves ==
    ASSUME Inv, NEW t \in Threads, NEW step \in Steps \ {"record"}, Goto(t, step),
           alive' \subseteq alive,
           files' \in [match : BOOLEAN, off : BOOLEAN, pid : 0 .. spawned],
           gate' \in BOOLEAN,
           UNCHANGED <<host, launches, commands, spawned, before, user, inner,
                       monitors, raced>>
    PROVE  Inv'
<1>1. TypeOK'
  BY GotoTyped DEF Inv, TypeOK
<1>2. \A u \in Threads : thread'[u].step = "record" => thread'[u] = thread[u]
  BY DEF Goto, Inv, TypeOK
<1>3. host' # "up" => monitors' = {}
  BY DEF Inv, MonitorsKnown
<1> QED BY <1>1, <1>2, <1>3, QuietPreserves DEF Inv

LEMMA CallsPreserve ==
    ASSUME Inv, NEW t \in Threads,
           \/ Regenerate(t) \/ EngineGate(t) \/ EnsureRunning(t) \/ Yield(t)
           \/ SwitchOff(t) \/ ClearResidual(t) \/ ForgetResidual(t)
           \/ StopTerminate(t)
    PROVE  Inv'
<1> DEFINE Files == [match : BOOLEAN, off : BOOLEAN, pid : 0 .. spawned]
<1>0. /\ files \in Files /\ gate \in BOOLEAN
      /\ [files EXCEPT !.match = TRUE] \in Files
      /\ [files EXCEPT !.off = TRUE] \in Files
      /\ [files EXCEPT !.pid = None] \in Files
  <2>1. files \in Files /\ gate \in BOOLEAN /\ None \in 0 .. spawned
    BY DEF Inv, TypeOK, None
  <2> QED BY <2>1
<1> HIDE DEF Files
<1>1. CASE Regenerate(t)
  BY <1>0, <1>1, LookingPreserves DEF Regenerate, Steps, Files
<1>2. CASE EngineGate(t)
  <2>1. GateOpen \in BOOLEAN
    BY DEF GateOpen
  <2> QED BY <1>0, <1>2, <2>1, LookingPreserves DEF EngineGate, Steps, Files
<1>3. CASE EnsureRunning(t)
  BY <1>0, <1>3, LookingPreserves DEF EnsureRunning, Steps, Files
<1>4. CASE Yield(t)
  BY <1>0, <1>4, LookingPreserves DEF Yield, Steps, Files
<1>5. CASE SwitchOff(t)
  BY <1>0, <1>5, LookingPreserves DEF SwitchOff, Steps, Files
<1>6. CASE ClearResidual(t)
  BY <1>0, <1>6, LookingPreserves DEF ClearResidual, Steps, Files
<1>7. CASE ForgetResidual(t)
  BY <1>0, <1>7, LookingPreserves DEF ForgetResidual, Steps, Files
<1>8. CASE StopTerminate(t)
  BY <1>0, <1>8, LookingPreserves DEF StopTerminate, Steps, Files
<1> QED BY <1>1, <1>2, <1>3, <1>4, <1>5, <1>6, <1>7, <1>8

\* The last step of stop: the call returns, or the host is gone.
LEMMA StopUnrecordPreserves ==
    ASSUME Inv, NEW t \in Threads, StopUnrecord(t)
    PROVE  Inv'
<1>1. [files EXCEPT !.pid = None] \in [match : BOOLEAN, off : BOOLEAN, pid : 0 .. spawned]
  BY DEF Inv, TypeOK, None
<1>2. CASE thread[t].exiting
  <2>1. TypeOK'
    BY <1>1, <1>2 DEF StopUnrecord, Return, Inv, TypeOK
  <2> QED BY <1>2, <2>1, QuietPreserves DEF StopUnrecord, Return, Inv
<1>3. CASE ~thread[t].exiting
  <2>1. Goto(t, "rest") /\ UNCHANGED <<host, monitors>>
    BY <1>3 DEF StopUnrecord, Return
  <2> QED BY <1>1, <2>1, LookingPreserves DEF StopUnrecord, Steps, Inv, TypeOK
<1> QED BY <1>2, <1>3

\* stop under the mutex: every monitor and every start is superseded.
LEMMA StopTakePreserves ==
    ASSUME Inv, NEW t \in Threads, StopTake(t)
    PROVE  Inv'
<1>1. inner.generation \in Nat /\ \A m \in monitors : m.generation \in Nat
  BY DEF Inv, TypeOK
<1>2. thread' \in [Threads -> [step : Steps, child : 0 .. spawned,
                              generation : Nat, exiting : BOOLEAN]]
  <2>1. /\ spawned' = spawned /\ inner.child \in 0 .. spawned
        /\ thread' = [thread EXCEPT ![t].step = "terminate", ![t].child = inner.child]
    BY DEF StopTake, Inv, TypeOK
  <2>2. thread \in [Threads -> [step : Steps, child : 0 .. spawned,
                               generation : Nat, exiting : BOOLEAN]]
    BY DEF Inv, TypeOK
  <2>3. "terminate" \in Steps
    BY DEF Steps
  <2> QED BY <2>1, <2>2, <2>3
<1>3. TypeOK'
  BY <1>1, <1>2 DEF StopTake, Inv, TypeOK, None
<1>4. \A m \in monitors : m.generation < inner'.generation
  BY <1>1 DEF StopTake, Inv, MonitorsKnown
<1>5. OneMonitor' /\ MonitorsKnown'
  BY <1>1, <1>4 DEF StopTake, Inv, OneMonitor, MonitorsKnown, Superseded
<1>6. \A u \in Threads : thread'[u].step = "record" =>
        /\ thread'[u] = thread[u] /\ thread[u].generation \in Nat
        /\ thread[u].generation < inner'.generation
  BY <1>1 DEF StopTake, Inv, TypeOK, StartsOwnGeneration, Recording
<1>7. inner'.generation \in Nat /\ monitors' = monitors
  BY <1>1 DEF StopTake
<1>8. StartsOwnGeneration'
  BY <1>6, <1>7 DEF Inv, StartsOwnGeneration, Recording
<1> QED BY <1>3, <1>5, <1>8 DEF Inv

LEMMA StartPreserves ==
    ASSUME Inv, NEW t \in Threads, Start(t)
    PROVE  Inv'
<1> DEFINE next == inner.generation + 1
<1>1. /\ inner.generation \in Nat /\ spawned \in Nat /\ None = 0
      /\ \A m \in monitors : m.generation \in Nat /\ m.generation < next
      /\ \A u \in Threads : thread[u].generation \in Nat
      /\ \A u \in Threads : Recording(u) => thread[u].generation < next
  BY DEF Inv, TypeOK, MonitorsKnown, StartsOwnGeneration, None
<1>2. CASE /\ Spawned(next)
           /\ thread' = [thread EXCEPT ![t].step = "record", ![t].child = NextPid,
                                       ![t].generation = next]
           /\ UNCHANGED <<host, launches, commands, before, user, files, monitors,
                          raced, gate>>
  <2>1. /\ spawned' = spawned + 1 /\ spawned' \in 0 .. MaxSpawns
        /\ inner' = [state |-> "running", generation |-> next, child |-> spawned + 1]
        /\ alive' = alive \cup {spawned + 1} /\ UNCHANGED monitors
    BY <1>1, <1>2, SupervisorAssumption DEF Spawned, NextPid
  <2>2. thread' \in [Threads -> [step : Steps, child : 0 .. spawned',
                                generation : Nat, exiting : BOOLEAN]]
    <3> DEFINE Wider == [step : Steps, child : 0 .. spawned',
                         generation : Nat, exiting : BOOLEAN]
    <3>1. thread \in [Threads -> Wider]
      BY <1>1, <2>1 DEF Inv, TypeOK
    <3>2. next \in Nat /\ NextPid \in 0 .. spawned' /\ "record" \in Steps
      BY <1>1, <2>1 DEF NextPid, Steps
    <3> HIDE DEF next
    <3> QED BY <1>2, <3>1, <3>2
  <2>3. TypeOK'
    BY <1>1, <1>2, <2>1, <2>2 DEF Inv, TypeOK
  <2>4. OneMonitor' /\ MonitorsKnown'
    BY <1>1, <1>2, <2>1 DEF Inv, OneMonitor, MonitorsKnown, Superseded
  <2>5. /\ thread'[t].child = spawned + 1 /\ thread'[t].generation = next
        /\ \A u \in Threads \ {t} : thread'[u] = thread[u]
    BY <1>2 DEF Inv, TypeOK, NextPid
  <2>6. StartsOwnGeneration'
    BY <1>1, <2>1, <2>5 DEF Inv, StartsOwnGeneration, Recording
  <2> QED BY <2>3, <2>4, <2>6 DEF Inv
<1>3. CASE /\ inner' = [inner EXCEPT !.generation = @ + 1]
           /\ Goto(t, "rest")
           /\ UNCHANGED <<spawned, alive, host, launches, commands, before, user,
                          files, monitors, raced, gate>>
  <2>1. inner'.generation = next
    BY <1>3 DEF Inv, TypeOK
  <2>2. thread' \in [Threads -> [step : Steps, child : 0 .. spawned,
                                generation : Nat, exiting : BOOLEAN]]
    BY <1>3, GotoTyped DEF Inv, Steps
  <2>3. TypeOK'
    BY <1>1, <1>3, <2>2 DEF Inv, TypeOK
  <2>4. OneMonitor' /\ MonitorsKnown'
    BY <1>1, <1>3, <2>1 DEF Inv, OneMonitor, MonitorsKnown, Superseded
  <2>5. \A u \in Threads : thread'[u].step = "record" => thread'[u] = thread[u]
    BY <1>3 DEF Goto, Inv, TypeOK
  <2>6. StartsOwnGeneration'
    BY <1>1, <1>3, <2>1, <2>5 DEF Inv, StartsOwnGeneration, Recording
  <2> QED BY <2>3, <2>4, <2>6 DEF Inv
<1> QED BY <1>2, <1>3 DEF Start

LEMMA RecordPreserves ==
    ASSUME Inv, NEW t \in Threads, Record(t)
    PROVE  Inv'
<1> DEFINE w == Watch(thread[t].generation, thread[t].child)
<1>1. /\ Recording(t) /\ host = "up" /\ Goto(t, "rest")
      /\ monitors' = monitors \cup {w}
      /\ files' = [files EXCEPT !.pid = thread[t].child]
      /\ UNCHANGED <<host, launches, commands, spawned, before, alive, user, inner,
                     raced, gate>>
  BY DEF Record, Recording, Busy
<1>2. w \in [generation : Nat, child : 1 .. spawned, attempt : 0 .. RestartBudget,
            step : {"wait", "sleep", "record"}]
  BY <1>1, SupervisorAssumption
  DEF Watch, Inv, TypeOK, StartsOwnGeneration, None
<1>3. thread' \in [Threads -> [step : Steps, child : 0 .. spawned,
                              generation : Nat, exiting : BOOLEAN]]
  BY <1>1, GotoTyped DEF Inv, Steps
<1>4. TypeOK'
  BY <1>1, <1>2, <1>3 DEF Inv, TypeOK
<1>5. /\ w.generation = thread[t].generation /\ w.child = thread[t].child
      /\ w.step = "wait"
  BY DEF Watch
<1>6. OneMonitor'
  BY <1>1, <1>5 DEF Inv, OneMonitor, StartsOwnGeneration, Superseded
<1>7. MonitorsKnown'
  BY <1>1, <1>5 DEF Inv, MonitorsKnown, StartsOwnGeneration
<1>8. /\ thread'[t].step = "rest"
      /\ \A u \in Threads \ {t} : thread'[u] = thread[u]
  BY <1>1 DEF Goto, Inv, TypeOK
<1>9. StartsOwnGeneration'
  BY <1>1, <1>5, <1>8 DEF Inv, StartsOwnGeneration, Recording
<1> QED BY <1>4, <1>6, <1>7, <1>9 DEF Inv

\* What a monitor does.
MonitorType == [generation : Nat, child : 1 .. spawned, attempt : 0 .. RestartBudget,
                step : {"wait", "sleep", "record"}]

LEMMA GiveUpPreserves ==
    ASSUME Inv, NEW m \in monitors, host = "up", ~Superseded(m), GiveUp(m),
           UNCHANGED <<host, launches, commands, spawned, before, alive, user, gate,
                       raced, thread>>
    PROVE  Inv'
<1>1. /\ monitors' = monitors \ {m}
      /\ inner'.generation = inner.generation /\ m.generation = inner.generation
      /\ inner' \in [state : {"idle", "running", "retrying", "failed", "stopped"},
                     generation : Nat, child : 0 .. spawned]
      /\ files' \in [match : BOOLEAN, off : BOOLEAN, pid : 0 .. spawned]
  <2>1. None \in 0 .. spawned
    BY DEF Inv, TypeOK, None
  <2>2. inner' = [inner EXCEPT !.state = "failed", !.child = None]
    BY DEF GiveUp
  <2>3. inner' \in [state : {"idle", "running", "retrying", "failed", "stopped"},
                   generation : Nat, child : 0 .. spawned]
    BY <2>1, <2>2 DEF Inv, TypeOK
  <2>4. inner'.generation = inner.generation /\ m.generation = inner.generation
    BY <2>2 DEF Inv, TypeOK, Superseded
  <2> QED BY <2>1, <2>3, <2>4 DEF GiveUp, Ends, Inv, TypeOK
<1>2. TypeOK'
  BY <1>1 DEF Inv, TypeOK
<1>3. OneMonitor' /\ MonitorsKnown'
  BY <1>1 DEF Inv, OneMonitor, MonitorsKnown, Superseded
<1>4. StartsOwnGeneration'
  BY <1>1 DEF Inv, StartsOwnGeneration, Recording
<1> QED BY <1>2, <1>3, <1>4 DEF Inv

LEMMA NoticeExitPreserves ==
    ASSUME Inv, NEW m \in monitors, Monitor(m), NoticeExit(m)
    PROVE  Inv'
<1>1. /\ UNCHANGED <<host, launches, commands, spawned, before, alive, user, gate,
                     raced, thread>>
      /\ m.step = "wait" /\ host = "up" /\ m \in MonitorType
  BY DEF Monitor, NoticeExit, Inv, TypeOK, MonitorType
<1>2. CASE Superseded(m) /\ Ends(m) /\ UNCHANGED <<inner, files>>
  <2>1. TypeOK'
    BY <1>1, <1>2 DEF Ends, Inv, TypeOK
  <2>2. OneMonitor' /\ MonitorsKnown'
    BY <1>1, <1>2 DEF Ends, Inv, OneMonitor, MonitorsKnown, Superseded
  <2>3. StartsOwnGeneration'
    BY <1>1, <1>2 DEF Ends, Inv, StartsOwnGeneration, Recording
  <2> QED BY <2>1, <2>2, <2>3 DEF Inv
<1>3. CASE ~Superseded(m) /\ Exhausted(m) /\ GiveUp(m)
  BY <1>1, <1>3, GiveUpPreserves
<1>4. CASE /\ ~Superseded(m) /\ ~Exhausted(m)
           /\ inner' = [inner EXCEPT !.state = "retrying", !.child = None]
           /\ Becomes(m, [m EXCEPT !.step = "sleep"])
           /\ UNCHANGED files
  <2> DEFINE n == [m EXCEPT !.step = "sleep"]
  <2>1. /\ n \in MonitorType /\ n.step = "sleep" /\ n.generation = m.generation
        /\ n.attempt = m.attempt /\ n.attempt < RestartBudget
    BY <1>1, <1>4, SupervisorAssumption DEF MonitorType, Exhausted
  <2>2. monitors' = (monitors \ {m}) \cup {n}
    BY <1>4 DEF Becomes
  <2>3. /\ inner'.state = "retrying" /\ inner'.child = None
        /\ inner'.generation = inner.generation /\ inner.generation = m.generation
        /\ inner' \in [state : {"idle", "running", "retrying", "failed", "stopped"},
                       generation : Nat, child : 0 .. spawned]
    <3>1. None \in 0 .. spawned
      BY DEF Inv, TypeOK, None
    <3>2. inner' \in [state : {"idle", "running", "retrying", "failed", "stopped"},
                     generation : Nat, child : 0 .. spawned]
      BY <1>4, <3>1 DEF Inv, TypeOK
    <3> QED BY <1>4, <3>2 DEF Inv, TypeOK, Superseded
  <2> HIDE DEF n
  <2>4. TypeOK'
    BY <1>1, <1>4, <2>1, <2>2, <2>3 DEF Inv, TypeOK, MonitorType
  <2>5. OneMonitor' /\ MonitorsKnown'
    BY <1>1, <2>1, <2>2, <2>3 DEF Inv, OneMonitor, MonitorsKnown, Superseded
  <2>6. StartsOwnGeneration'
    BY <1>1, <2>1, <2>2, <2>3 DEF Inv, StartsOwnGeneration, Recording
  <2> QED BY <2>4, <2>5, <2>6 DEF Inv
<1> QED BY <1>2, <1>3, <1>4 DEF NoticeExit

LEMMA RestartPreserves ==
    ASSUME Inv, NEW m \in monitors, Monitor(m), Restart(m)
    PROVE  Inv'
<1>1. /\ UNCHANGED <<host, launches, commands, before, user, gate, raced, thread>>
      /\ m.step = "sleep" /\ host = "up" /\ m \in MonitorType
      /\ inner.generation \in Nat /\ spawned \in Nat /\ None = 0
  BY DEF Monitor, Restart, Inv, TypeOK, MonitorType, None
<1>2. CASE Superseded(m) /\ Ends(m) /\ UNCHANGED <<inner, files, spawned, alive>>
  <2>1. TypeOK'
    BY <1>1, <1>2 DEF Ends, Inv, TypeOK
  <2>2. OneMonitor' /\ MonitorsKnown'
    BY <1>1, <1>2 DEF Ends, Inv, OneMonitor, MonitorsKnown, Superseded
  <2>3. StartsOwnGeneration'
    BY <1>1, <1>2 DEF Ends, Inv, StartsOwnGeneration, Recording
  <2> QED BY <2>1, <2>2, <2>3 DEF Inv
<1>3. CASE /\ ~Superseded(m)
           /\ Spawned(inner.generation)
           /\ Becomes(m, [m EXCEPT !.step = "record", !.child = NextPid, !.attempt = @ + 1])
           /\ UNCHANGED files
  <2> DEFINE n == [m EXCEPT !.step = "record", !.child = NextPid, !.attempt = @ + 1]
  <2>1. /\ spawned' = spawned + 1 /\ spawned' \in 0 .. MaxSpawns
        /\ inner' = [state |-> "running", generation |-> inner.generation,
                     child |-> spawned + 1]
        /\ alive' = alive \cup {spawned + 1}
        /\ m.generation = inner.generation
    BY <1>1, <1>3, SupervisorAssumption DEF Spawned, NextPid, Superseded
  <2>2. m.attempt < RestartBudget
    BY <1>1 DEF Inv, MonitorsKnown
  <2>3. /\ n.step = "record" /\ n.generation = m.generation /\ n.child = spawned + 1
        /\ n \in MonitorType'
    <3>1. /\ m.generation \in Nat /\ m.attempt + 1 \in 0 .. RestartBudget
          /\ NextPid = spawned + 1 /\ NextPid \in 1 .. spawned'
      BY <1>1, <2>1, <2>2, SupervisorAssumption DEF MonitorType, NextPid
    <3>2. /\ n \in [generation : Nat, child : 1 .. spawned', attempt : 0 .. RestartBudget,
                   step : {"wait", "sleep", "record"}]
          /\ n.step = "record" /\ n.generation = m.generation /\ n.child = NextPid
      BY <1>1, <3>1, Zenon DEF MonitorType
    <3> HIDE DEF n
    <3> QED BY <3>1, <3>2, SupervisorAssumption DEF MonitorType
  <2>4. monitors' = (monitors \ {m}) \cup {n}
    BY <1>3 DEF Becomes
  <2> HIDE DEF n
  <2>5. thread \in [Threads -> [step : Steps, child : 0 .. spawned',
                               generation : Nat, exiting : BOOLEAN]]
    BY <1>1, <2>1 DEF Inv, TypeOK
  <2>6. monitors' \subseteq MonitorType'
    BY <1>1, <2>1, <2>3, <2>4 DEF Inv, TypeOK, MonitorType
  <2>7. TypeOK'
    BY <1>1, <1>3, <2>1, <2>5, <2>6 DEF Inv, TypeOK, MonitorType
  <2>8. OneMonitor' /\ MonitorsKnown'
    BY <1>1, <2>1, <2>3, <2>4 DEF Inv, OneMonitor, MonitorsKnown, Superseded
  <2>9. StartsOwnGeneration'
    BY <1>1, <2>1, <2>3, <2>4 DEF Inv, StartsOwnGeneration, Recording
  <2> QED BY <2>7, <2>8, <2>9 DEF Inv
<1>4. CASE ~Superseded(m) /\ GiveUp(m) /\ UNCHANGED <<spawned, alive>>
  BY <1>1, <1>4, GiveUpPreserves
<1> QED BY <1>2, <1>3, <1>4 DEF Restart

LEMMA RecordRestartPreserves ==
    ASSUME Inv, NEW m \in monitors, Monitor(m), RecordRestart(m)
    PROVE  Inv'
<1> DEFINE n == [m EXCEPT !.step = "wait"]
<1>1. /\ UNCHANGED <<host, launches, commands, spawned, before, alive, user, gate,
                     inner, thread>>
      /\ m.step = "record" /\ host = "up" /\ m \in MonitorType
      /\ monitors' = (monitors \ {m}) \cup {n}
      /\ files' = [files EXCEPT !.pid = m.child]
      /\ raced' = (raced \/ (Superseded(m) /\ files.pid \in alive))
  BY DEF Monitor, RecordRestart, Becomes, Inv, TypeOK, MonitorType
<1>2. /\ n \in MonitorType /\ n.step = "wait" /\ n.generation = m.generation
      /\ n.child = m.child
  BY <1>1 DEF MonitorType
<1> HIDE DEF n
<1>3. /\ files' \in [match : BOOLEAN, off : BOOLEAN, pid : 0 .. spawned]
      /\ raced' \in BOOLEAN
  <2>1. m.child \in 0 .. spawned
    BY <1>1 DEF MonitorType, Inv, TypeOK
  <2> QED BY <1>1, <2>1 DEF Inv, TypeOK
<1>4. TypeOK'
  BY <1>1, <1>2, <1>3 DEF Inv, TypeOK, MonitorType
<1>5. OneMonitor' /\ MonitorsKnown'
  BY <1>1, <1>2 DEF Inv, OneMonitor, MonitorsKnown, Superseded
<1>6. StartsOwnGeneration'
  BY <1>1, <1>2 DEF Inv, StartsOwnGeneration, Recording
<1> QED BY <1>4, <1>5, <1>6 DEF Inv

LEMMA NextPreservesInv == Inv /\ [Next]_vars => Inv'
<1> SUFFICES ASSUME Inv, [Next]_vars PROVE Inv'
  OBVIOUS
<1>1. CASE Bootstrap \/ Enable \/ Status \/ Disable \/ Exit
  BY <1>1, AskingPreserves
<1>2. ASSUME NEW t \in Threads, CallStep(t) PROVE Inv'
  BY <1>2, CallsPreserve, StartPreserves, RecordPreserves, StopTakePreserves,
     StopUnrecordPreserves DEF CallStep
<1>3. ASSUME NEW m \in monitors, Monitor(m) PROVE Inv'
  BY <1>3, NoticeExitPreserves, RestartPreserves, RecordRestartPreserves DEF Monitor
<1>4. CASE DaemonDies \/ UserTogglesOwn \/ HostCrash
  <2>1. TypeOK'
    BY <1>4 DEF DaemonDies, UserTogglesOwn, HostCrash, Inv, TypeOK
  <2> QED BY <1>4, <2>1, QuietPreserves
       DEF DaemonDies, UserTogglesOwn, HostCrash, Inv, MonitorsKnown
<1>5. CASE Launch
  <2>1. monitors = {} /\ monitors' = {}
    BY <1>5 DEF Launch, Inv, MonitorsKnown
  <2>2. /\ inner' \in [state : {"idle", "running", "retrying", "failed", "stopped"},
                       generation : Nat, child : 0 .. spawned]
        /\ launches' \in 1 .. MaxLaunches /\ before' \in 0 .. spawned
    BY <1>5, SupervisorAssumption DEF Launch, Idle, None, Inv, TypeOK
  <2>3. thread' \in [Threads -> [step : Steps, child : 0 .. spawned,
                                generation : Nat, exiting : BOOLEAN]]
    <3>1. \A step \in Steps : At(step) \in [step : Steps, child : 0 .. spawned,
                                          generation : Nat, exiting : BOOLEAN]
      BY DEF At, None, Inv, TypeOK
    <3>2. thread' = [t \in Threads |-> At(IF t = "boot" THEN "launch" ELSE "rest")]
      BY <1>5 DEF Launch
    <3>3. UNCHANGED spawned /\ {"launch", "rest"} \subseteq Steps
      BY <1>5 DEF Launch, Steps
    <3> QED BY <3>1, <3>2, <3>3
  <2>4. TypeOK'
    BY <1>5, <2>2, <2>3 DEF Launch, Inv, TypeOK
  <2>5. \A t \in Threads : thread'[t].step # "record"
    BY <1>5 DEF Launch, At
  <2> QED BY <2>1, <2>4, <2>5
       DEF Inv, OneMonitor, MonitorsKnown, StartsOwnGeneration, Recording
<1>6. CASE UNCHANGED vars
  BY <1>6 DEF vars, Inv, TypeOK, OneMonitor, MonitorsKnown, StartsOwnGeneration,
              Recording, Superseded
<1> QED BY <1>1, <1>2, <1>3, <1>4, <1>5, <1>6 DEF Next

-----------------------------------------------------------------------------
(* While nothing races: the argument for EngineAccounted.                  *)

\* Only a daemon that runs is the supervisor's child.
ChildRuns == inner.child # None => inner.state = "running"

\* One call at a time.
OneCall == \A t, u \in Threads : ~Resting(t) /\ ~Resting(u) => t = u

\* The off switch and the match file exclude each other, and so do the calls
\* that are about to write one of them.
FilesAgree ==
    /\ files.off => ~files.match
    /\ \A t \in Threads : /\ thread[t].step = "switch off" => ~files.match
                          /\ thread[t].step = "regenerate" => ~files.off

Starting == {"ensure", "clear", "forget", "spawn", "record"}
Halted   == {"clear", "forget", "spawn", "terminate", "unrecord"}

\* A call starts the engine behind an open gate and when there is none, and
\* ends what it stopped before anything else is started; a start that has not
\* recorded its daemon is the last one.
CallFits(t) ==
    /\ thread[t].step \in Starting => files.match /\ gate
    /\ thread[t].step \in Halted => ~Supervised
    /\ Recording(t) => thread[t].generation = inner.generation

\* An engine that is supervised has its monitor, or is about to get it.
Watched ==
    Supervised => \/ \E m \in monitors : ~Superseded(m)
                  \/ \E t \in Threads : Recording(t)

\* One that is switched off, or has to make way, is about to be stopped.
Unwanted ==
    /\ Supervised /\ files.off => \E t \in Threads : thread[t].step = "stop"
    /\ Supervised /\ ~gate => \E t \in Threads : thread[t].step \in {"yield", "stop"}

\* A daemon of this session is the supervisor's child or about to be ended,
Owned(d) == d = inner.child \/ \E t \in Threads : thread[t].step = "terminate" /\ thread[t].child = d

\* and it is recorded or about to be.
Recorded(d) ==
    \/ d = files.pid
    \/ \E t \in Threads : Recording(t) /\ thread[t].child = d
    \/ \E m \in monitors : m.step = "record" /\ m.child = d

SessionFits ==
    /\ \A t \in Threads : CallFits(t)
    /\ Watched
    /\ Unwanted
    /\ \A d \in Ours : Owned(d) /\ Recorded(d)

Orderly == OneCall /\ FilesAgree /\ (host = "up" => SessionFits) /\ NoneOutlivesExit

Calm == Inv /\ ChildRuns /\ (~raced => Orderly)

\* A call has the supervisor to itself.
LEMMA OthersRest ==
    ASSUME OneCall, NEW t \in Threads, ~Resting(t)
    PROVE  \A u \in Threads \ {t} : thread[u].step \in {"launch", "rest"}
  BY DEF OneCall, Resting

\* Without an engine under supervision and none on its way out, no daemon of
\* the session runs.
LEMMA NoneRuns ==
    ASSUME Inv, ChildRuns, SessionFits, ~Supervised,
           \A t \in Threads : thread[t].step # "terminate"
    PROVE  Ours = {}
<1>1. inner.child = None
  BY DEF ChildRuns, Supervised
<1>2. \A d \in Ours : d = None
  BY <1>1 DEF SessionFits, Owned
<1>3. \A d \in Ours : d \in 1 .. spawned
  BY DEF Inv, TypeOK, Ours
<1>4. spawned \in Nat
  BY SupervisorAssumption DEF Inv, TypeOK
<1> QED BY <1>2, <1>3, <1>4 DEF None

\* Steps of a call that look, write files or end daemons, and leave the
\* supervisor and its monitors alone.
LEMMA LookingFits ==
    ASSUME Calm, Orderly, NEW t \in Threads, Busy(t), NEW step \in Steps, Goto(t, step),
           thread[t].step \notin {"record", "stop", "terminate"},
           step \notin {"record", "terminate"},
           UNCHANGED <<host, before, inner, monitors, raced>>,
           alive' \subseteq alive,
           files'.pid = files.pid,
           files'.off => ~files'.match,
           step = "switch off" => ~files'.match,
           step = "regenerate" => ~files'.off,
           step \in Starting => files'.match /\ gate',
           step \in Halted => ~Supervised,
           Supervised /\ files'.off => step = "stop",
           Supervised /\ ~gate' => step \in {"yield", "stop"}
    PROVE  Orderly'
<1>1. /\ \A u \in Threads \ {t} : thread'[u] = thread[u] /\ thread[u].step \in {"launch", "rest"}
      /\ thread'[t] = [thread[t] EXCEPT !.step = step] /\ thread'[t].step = step
  BY OthersRest DEF Calm, Inv, TypeOK, Goto, Orderly, Busy
<1>2. OneCall'
  BY <1>1 DEF OneCall, Resting
<1>3. FilesAgree'
  BY <1>1 DEF FilesAgree
<1>4. SessionFits'
  <2>0. SessionFits /\ host = "up"
    BY DEF Orderly, Busy
  <2>1. \A u \in Threads : CallFits(u)'
    BY <1>1 DEF CallFits, Starting, Halted, Recording, Supervised
  <2>2. Watched'
    BY <1>1, <2>0 DEF SessionFits, Watched, Recording, Superseded, Supervised
  <2>3. Unwanted'
    BY <1>1 DEF Unwanted, Supervised
  <2>4. \A d \in Ours : d \in alive /\ d = inner.child
    BY <1>1, <2>0 DEF SessionFits, Owned, Ours
  <2>5. \A d \in Ours : d = files.pid \/ \E m \in monitors : m.step = "record" /\ m.child = d
    BY <1>1, <2>0 DEF SessionFits, Recorded, Recording, Ours
  <2>6. Ours' \subseteq Ours
    BY DEF Ours
  <2> QED BY <2>1, <2>2, <2>3, <2>4, <2>5, <2>6 DEF SessionFits, Owned, Recorded
<1>5. NoneOutlivesExit'
  BY DEF NoneOutlivesExit, Busy
<1> QED BY <1>2, <1>3, <1>4, <1>5 DEF Orderly

\* The steps that look for an open gate, an engine that runs or a residue.
LEMMA LookingCalm ==
    ASSUME Calm, ~raced, NEW t \in Threads,
           \/ Regenerate(t) \/ EngineGate(t) \/ EnsureRunning(t) \/ Yield(t)
           \/ SwitchOff(t) \/ ClearResidual(t)
    PROVE  Orderly'
<1>0. /\ Orderly /\ Inv /\ ChildRuns /\ OneCall /\ FilesAgree
  BY DEF Calm, Orderly
<1>1. /\ \A u \in Threads \ {t} : thread[u].step \in {"launch", "rest"}
      /\ SessionFits /\ host = "up" /\ Busy(t)
  BY <1>0, OthersRest DEF Orderly, Regenerate, EngineGate, EnsureRunning, Yield, SwitchOff,
     ClearResidual, Busy
<1>2. thread[t].step # "stop" /\ Supervised => ~files.off
  BY <1>1 DEF SessionFits, Unwanted
<1>3. thread[t].step \notin {"yield", "stop"} /\ Supervised => gate
  BY <1>1 DEF SessionFits, Unwanted
<1>4. CASE Regenerate(t)
  <2>1. files' = [files EXCEPT !.match = TRUE] \/ files' = files
    BY <1>4 DEF Regenerate
  <2>2. files'.pid = files.pid /\ files'.off = files.off /\ ~files.off
    BY <1>0, <1>4, <2>1 DEF Regenerate, FilesAgree, Inv, TypeOK
  <2>3. PICK step \in {"gate", "rest"} : Goto(t, step)
    BY <1>4 DEF Regenerate
  <2> QED BY <1>0, <1>1, <1>3, <1>4, <2>2, <2>3, LookingFits
       DEF Regenerate, Steps, Starting, Halted
<1>5. CASE EngineGate(t)
  <2>1. /\ Goto(t, IF GateOpen THEN "ensure" ELSE "yield") /\ gate' = GateOpen
        /\ GateOpen => files.match
    BY <1>5 DEF EngineGate, GateOpen
  <2>2. thread[t].step = "gate"
    BY <1>5 DEF EngineGate
  <2>3. files.off => ~files.match
    BY <1>0 DEF FilesAgree
  <2>4. CASE GateOpen
    BY <1>0, <1>1, <1>2, <1>5, <2>1, <2>2, <2>3, <2>4, LookingFits
       DEF EngineGate, Steps, Starting, Halted
  <2>5. CASE ~GateOpen
    BY <1>0, <1>1, <1>2, <1>5, <2>1, <2>2, <2>3, <2>5, LookingFits
       DEF EngineGate, Steps, Starting, Halted
  <2> QED BY <2>4, <2>5
<1>6. CASE EnsureRunning(t)
  <2>1. Goto(t, IF Supervised THEN "rest" ELSE "clear") /\ thread[t].step = "ensure"
    BY <1>6 DEF EnsureRunning
  <2>2. files.match /\ gate
    BY <1>1, <2>1 DEF SessionFits, CallFits, Starting
  <2>3. files.off => ~files.match
    BY <1>0 DEF FilesAgree
  <2>4. CASE Supervised
    BY <1>0, <1>1, <1>2, <1>6, <2>1, <2>2, <2>3, <2>4, LookingFits
       DEF EnsureRunning, Steps, Starting, Halted
  <2>5. CASE ~Supervised
    BY <1>0, <1>1, <1>2, <1>6, <2>1, <2>2, <2>3, <2>5, LookingFits
       DEF EnsureRunning, Steps, Starting, Halted
  <2> QED BY <2>4, <2>5
<1>7. CASE Yield(t)
  <2>1. Goto(t, IF Supervised THEN "stop" ELSE "rest") /\ thread[t].step = "yield"
    BY <1>7 DEF Yield
  <2>3. files.off => ~files.match
    BY <1>0 DEF FilesAgree
  <2>4. CASE Supervised
    BY <1>0, <1>1, <1>2, <1>7, <2>1, <2>3, <2>4, LookingFits
       DEF Yield, Steps, Starting, Halted
  <2>5. CASE ~Supervised
    BY <1>0, <1>1, <1>2, <1>7, <2>1, <2>3, <2>5, LookingFits
       DEF Yield, Steps, Starting, Halted
  <2> QED BY <2>4, <2>5
<1>8. CASE SwitchOff(t)
  <2>1. Goto(t, "stop") /\ thread[t].step = "switch off" /\ files' = [files EXCEPT !.off = TRUE]
    BY <1>8 DEF SwitchOff
  <2>2. ~files.match
    BY <1>0, <2>1 DEF FilesAgree
  <2>3. files'.pid = files.pid /\ files'.match = files.match
    BY <1>0, <2>1 DEF Inv, TypeOK
  <2> QED BY <1>0, <1>1, <1>8, <2>1, <2>2, <2>3, LookingFits
       DEF SwitchOff, Steps, Starting, Halted
<1>9. CASE ClearResidual(t)
  <2>1. Goto(t, "forget") /\ thread[t].step = "clear"
    BY <1>9 DEF ClearResidual
  <2>2. files.match /\ gate /\ ~Supervised
    BY <1>1, <2>1 DEF SessionFits, CallFits, Starting, Halted
  <2>3. files.off => ~files.match
    BY <1>0 DEF FilesAgree
  <2> QED BY <1>0, <1>1, <1>9, <2>1, <2>2, <2>3, LookingFits
       DEF ClearResidual, Steps, Starting, Halted
<1> QED BY <1>4, <1>5, <1>6, <1>7, <1>8, <1>9

\* The record of a residue is removed when there is nothing to be found by it.
LEMMA ForgetCalm ==
    ASSUME Calm, ~raced, NEW t \in Threads, ForgetResidual(t)
    PROVE  Orderly'
<1>0. /\ Orderly /\ Inv /\ ChildRuns /\ OneCall /\ FilesAgree /\ SessionFits
      /\ host = "up" /\ thread[t].step = "forget" /\ ~Resting(t)
  BY DEF Calm, Orderly, ForgetResidual, Busy
<1>1. \A u \in Threads \ {t} : thread[u].step \in {"launch", "rest"}
  BY <1>0, OthersRest
<1>2. files.match /\ gate /\ ~Supervised
  BY <1>0 DEF SessionFits, CallFits, Starting, Halted
<1>3. Ours = {}
  BY <1>0, <1>1, <1>2, NoneRuns
<1>4. /\ \A u \in Threads \ {t} : thread'[u] = thread[u]
      /\ thread'[t].step = "spawn"
  BY <1>0 DEF ForgetResidual, Goto, Inv, TypeOK
<1>5. files'.match = files.match /\ files'.off = files.off
  BY <1>0 DEF ForgetResidual, Inv, TypeOK
<1>6. UNCHANGED <<host, alive, before, inner, monitors, gate>>
  BY DEF ForgetResidual
<1>7. OneCall' /\ FilesAgree'
  BY <1>0, <1>1, <1>4, <1>5 DEF OneCall, Resting, FilesAgree
<1>8. \A u \in Threads : CallFits(u)'
  BY <1>1, <1>2, <1>4, <1>5, <1>6 DEF CallFits, Starting, Halted, Recording, Supervised
<1>9. Watched' /\ Unwanted' /\ Ours' = {}
  BY <1>2, <1>3, <1>6 DEF Watched, Unwanted, Supervised, Ours
<1>10. NoneOutlivesExit'
  BY <1>0, <1>6 DEF NoneOutlivesExit
<1> QED BY <1>7, <1>8, <1>9, <1>10 DEF Orderly, SessionFits

\* A start: there was nothing before it, so its daemon is the only one.
LEMMA StartCalm ==
    ASSUME Calm, ~raced, NEW t \in Threads, Start(t)
    PROVE  Orderly'
<1>0. /\ Orderly /\ Inv /\ ChildRuns /\ OneCall /\ FilesAgree /\ SessionFits
      /\ host = "up" /\ thread[t].step = "spawn" /\ ~Resting(t)
  BY DEF Calm, Orderly, Start, Busy
<1>1. \A u \in Threads \ {t} : thread[u].step \in {"launch", "rest"}
  BY <1>0, OthersRest
<1>2. files.match /\ gate /\ ~Supervised /\ ~files.off
  BY <1>0 DEF SessionFits, CallFits, Starting, Halted, FilesAgree
<1>3. Ours = {}
  BY <1>0, <1>1, <1>2, NoneRuns
<1>4. UNCHANGED <<host, before, files, monitors, gate>>
  BY DEF Start
<1>5. NoneOutlivesExit'
  BY <1>0, <1>4 DEF NoneOutlivesExit
<1>6. CASE Spawned(inner.generation + 1)
  <2>1. /\ inner'.state = "running" /\ inner'.child = NextPid
        /\ inner'.generation = inner.generation + 1
        /\ alive' = alive \cup {NextPid}
    BY <1>6 DEF Spawned
  <2>2. ASSUME thread' = [thread EXCEPT ![t].step = "record", ![t].child = NextPid,
                                        ![t].generation = inner.generation + 1]
        PROVE  Orderly'
    <3>1. /\ \A u \in Threads \ {t} : thread'[u] = thread[u]
          /\ thread'[t].step = "record" /\ thread'[t].child = NextPid
          /\ thread'[t].generation = inner.generation + 1
      BY <1>0, <2>2 DEF Inv, TypeOK
    <3>2. OneCall' /\ FilesAgree'
      BY <1>0, <1>1, <1>4, <3>1 DEF OneCall, Resting, FilesAgree
    <3>3. \A u \in Threads : CallFits(u)'
      BY <1>1, <1>2, <1>4, <2>1, <3>1 DEF CallFits, Starting, Halted, Recording
    <3>4. Watched' /\ Unwanted'
      BY <1>2, <1>4, <3>1 DEF Watched, Unwanted, Recording
    <3>5. \A d \in Ours' : d = NextPid
      BY <1>3, <1>4, <2>1 DEF Ours
    <3>6. \A d \in Ours' : Owned(d)' /\ Recorded(d)'
      BY <2>1, <3>1, <3>5 DEF Owned, Recorded, Recording
    <3> QED BY <1>5, <3>2, <3>3, <3>4, <3>6 DEF Orderly, SessionFits
  <2>3. CASE thread' = [thread EXCEPT ![t].step = "record", ![t].child = NextPid,
                                      ![t].generation = inner.generation + 1]
    BY <2>2, <2>3
  <2>4. CASE inner' = [inner EXCEPT !.generation = @ + 1]
    <3>1. inner'.state = inner.state
      BY <1>0, <2>4 DEF Inv, TypeOK
    <3> QED BY <1>2, <2>1, <3>1 DEF Supervised
  <2> QED BY <2>3, <2>4 DEF Start
<1>7. CASE /\ inner' = [inner EXCEPT !.generation = @ + 1]
           /\ Goto(t, "rest")
           /\ UNCHANGED <<spawned, alive>>
  <2>1. inner'.state = inner.state /\ inner'.child = inner.child
    BY <1>0, <1>7 DEF Inv, TypeOK
  <2>2. (\A u \in Threads \ {t} : thread'[u] = thread[u]) /\ thread'[t].step = "rest"
    BY <1>0, <1>7 DEF Goto, Inv, TypeOK
  <2>3. OneCall' /\ FilesAgree'
    BY <1>0, <1>1, <1>4, <2>2 DEF OneCall, Resting, FilesAgree
  <2>4. \A u \in Threads : CallFits(u)'
    BY <1>1, <2>2 DEF CallFits, Starting, Halted, Recording
  <2>5. Watched' /\ Unwanted' /\ Ours' = {}
    BY <1>0, <1>2, <1>3, <1>4, <1>7, <2>1 DEF Watched, Unwanted, Supervised, Ours
  <2> QED BY <1>5, <2>3, <2>4, <2>5 DEF Orderly, SessionFits
<1> QED BY <1>6, <1>7 DEF Start

\* The start records its daemon and leaves it to the monitor.
LEMMA RecordCalm ==
    ASSUME Calm, ~raced, NEW t \in Threads, Record(t)
    PROVE  Orderly'
<1>0. /\ Orderly /\ Inv /\ ChildRuns /\ OneCall /\ FilesAgree /\ SessionFits
      /\ host = "up" /\ thread[t].step = "record" /\ ~Resting(t) /\ Recording(t)
  BY DEF Calm, Orderly, Record, Busy, Recording
<1>1. \A u \in Threads \ {t} : thread[u].step \in {"launch", "rest"}
  BY <1>0, OthersRest
<1>2. files.match /\ gate /\ ~files.off /\ thread[t].generation = inner.generation
  BY <1>0 DEF SessionFits, CallFits, Starting, FilesAgree
<1>3. inner.child = thread[t].child
  BY <1>0, <1>2 DEF Inv, StartsOwnGeneration
<1>4. \A d \in Ours : d = thread[t].child
  BY <1>0, <1>1, <1>3 DEF SessionFits, Owned
<1>5. UNCHANGED <<host, alive, before, inner, gate>>
  BY DEF Record
<1>6. /\ \A u \in Threads \ {t} : thread'[u] = thread[u]
      /\ thread'[t].step = "rest"
  BY <1>0 DEF Record, Goto, Inv, TypeOK
<1>7. files'.pid = thread[t].child /\ files'.match = files.match /\ files'.off = files.off
  BY <1>0 DEF Record, Inv, TypeOK
<1>8. Watch(thread[t].generation, thread[t].child) \in monitors'
  BY DEF Record
<1>9. Watch(thread[t].generation, thread[t].child).generation = inner'.generation
  BY <1>2, <1>5 DEF Watch
<1>10. OneCall' /\ FilesAgree'
  BY <1>0, <1>1, <1>6, <1>7 DEF OneCall, Resting, FilesAgree
<1>11. \A u \in Threads : CallFits(u)'
  BY <1>1, <1>6 DEF CallFits, Starting, Halted, Recording
<1>12. Watched' /\ Unwanted'
  BY <1>2, <1>5, <1>7, <1>8, <1>9 DEF Watched, Unwanted, Superseded
<1>13. \A d \in Ours' : Owned(d)' /\ Recorded(d)'
  BY <1>3, <1>4, <1>5, <1>7 DEF Ours, Owned, Recorded
<1>14. NoneOutlivesExit'
  BY <1>0, <1>5 DEF NoneOutlivesExit
<1> QED BY <1>10, <1>11, <1>12, <1>13, <1>14 DEF Orderly, SessionFits

\* A stop takes the child from the supervisor,
LEMMA StopTakeCalm ==
    ASSUME Calm, ~raced, NEW t \in Threads, StopTake(t)
    PROVE  Orderly'
<1>0. /\ Orderly /\ Inv /\ ChildRuns /\ OneCall /\ FilesAgree /\ SessionFits
      /\ host = "up" /\ thread[t].step = "stop" /\ ~Resting(t)
  BY DEF Calm, Orderly, StopTake, Busy
<1>1. \A u \in Threads \ {t} : thread[u].step \in {"launch", "rest"}
  BY <1>0, OthersRest
<1>2. /\ \A u \in Threads \ {t} : thread'[u] = thread[u]
      /\ thread'[t].step = "terminate" /\ thread'[t].child = inner.child
  BY <1>0 DEF StopTake, Inv, TypeOK
<1>3. UNCHANGED <<host, alive, before, files, monitors, gate>>
  BY DEF StopTake
<1>4. inner'.state = "stopped" /\ inner'.child = None
  BY DEF StopTake
<1>5. ~Supervised'
  BY <1>4 DEF Supervised
<1>6. OneCall' /\ FilesAgree'
  BY <1>0, <1>1, <1>2, <1>3 DEF OneCall, Resting, FilesAgree
<1>7. \A u \in Threads : CallFits(u)'
  BY <1>1, <1>2, <1>5 DEF CallFits, Starting, Halted, Recording
<1>8. Watched' /\ Unwanted'
  BY <1>5 DEF Watched, Unwanted
<1>9. \A d \in Ours : /\ d = inner.child
                      /\ d = files.pid \/ \E m \in monitors : m.step = "record" /\ m.child = d
  BY <1>0, <1>1 DEF SessionFits, Owned, Recorded, Recording
<1>10. \A d \in Ours' : Owned(d)' /\ Recorded(d)'
  BY <1>2, <1>3, <1>9 DEF Ours, Owned, Recorded
<1>11. NoneOutlivesExit'
  BY <1>0, <1>3 DEF NoneOutlivesExit
<1> QED BY <1>6, <1>7, <1>8, <1>10, <1>11 DEF Orderly, SessionFits

\* ends it,
LEMMA StopTerminateCalm ==
    ASSUME Calm, ~raced, NEW t \in Threads, StopTerminate(t)
    PROVE  Orderly'
<1>0. /\ Orderly /\ Inv /\ ChildRuns /\ OneCall /\ FilesAgree /\ SessionFits
      /\ host = "up" /\ thread[t].step = "terminate" /\ ~Resting(t)
  BY DEF Calm, Orderly, StopTerminate, Busy
<1>1. \A u \in Threads \ {t} : thread[u].step \in {"launch", "rest"}
  BY <1>0, OthersRest
<1>2. ~Supervised
  BY <1>0 DEF SessionFits, CallFits, Halted
<1>3. /\ \A u \in Threads \ {t} : thread'[u] = thread[u]
      /\ thread'[t].step = "unrecord"
  BY <1>0 DEF StopTerminate, Goto, Inv, TypeOK
<1>4. UNCHANGED <<host, before, files, inner, monitors, gate>> /\ alive' = alive \ {thread[t].child}
  BY DEF StopTerminate
<1>5. \A d \in Ours : d = None \/ d = thread[t].child
  BY <1>0, <1>1, <1>2 DEF SessionFits, Owned, ChildRuns, Supervised
<1>6. Ours' = {}
  <2>1. None \notin Ours
    BY <1>0, SupervisorAssumption DEF Inv, TypeOK, Ours, None
  <2> QED BY <1>4, <1>5, <2>1 DEF Ours
<1>7. OneCall' /\ FilesAgree'
  BY <1>0, <1>1, <1>3, <1>4 DEF OneCall, Resting, FilesAgree
<1>8. \A u \in Threads : CallFits(u)'
  BY <1>1, <1>2, <1>3, <1>4 DEF CallFits, Starting, Halted, Recording, Supervised
<1>9. Watched' /\ Unwanted' /\ NoneOutlivesExit'
  BY <1>0, <1>2, <1>4 DEF Watched, Unwanted, Supervised, NoneOutlivesExit
<1> QED BY <1>6, <1>7, <1>8, <1>9 DEF Orderly, SessionFits

\* and removes the record; the host may exit then.
LEMMA StopUnrecordCalm ==
    ASSUME Calm, ~raced, NEW t \in Threads, StopUnrecord(t)
    PROVE  Orderly'
<1>0. /\ Orderly /\ Inv /\ ChildRuns /\ OneCall /\ FilesAgree /\ SessionFits
      /\ host = "up" /\ thread[t].step = "unrecord" /\ ~Resting(t)
  BY DEF Calm, Orderly, StopUnrecord, Busy
<1>1. \A u \in Threads \ {t} : thread[u].step \in {"launch", "rest"}
  BY <1>0, OthersRest
<1>2. ~Supervised
  BY <1>0 DEF SessionFits, CallFits, Halted
<1>3. Ours = {}
  BY <1>0, <1>1, <1>2, NoneRuns
<1>4. UNCHANGED <<alive, before, inner, gate>>
  BY DEF StopUnrecord
<1>5. files'.match = files.match /\ files'.off = files.off
  BY <1>0 DEF StopUnrecord, Inv, TypeOK
<1>6. /\ \A u \in Threads \ {t} : thread'[u] = thread[u]
      /\ thread'[t].step \in {"unrecord", "rest"}
  BY <1>0 DEF StopUnrecord, Return, Goto, Inv, TypeOK
<1>7. OneCall' /\ FilesAgree'
  BY <1>0, <1>1, <1>5, <1>6 DEF OneCall, Resting, FilesAgree
<1>8. \A u \in Threads : CallFits(u)'
  BY <1>1, <1>2, <1>4, <1>6 DEF CallFits, Starting, Halted, Recording, Supervised
<1>9. Watched' /\ Unwanted' /\ Ours' = {}
  BY <1>0, <1>2, <1>3, <1>4 DEF Watched, Unwanted, Supervised, Ours
<1> QED BY <1>7, <1>8, <1>9 DEF Orderly, SessionFits, NoneOutlivesExit

-----------------------------------------------------------------------------
(* The monitors.                                                           *)

\* While a monitor of the current generation is there, no call has the engine
\* in hand: all the session runs is the child, if that.
LEMMA MonitorAlone ==
    ASSUME Inv, ChildRuns, Orderly, host = "up", NEW m \in monitors, ~Superseded(m)
    PROVE  /\ Supervised /\ SessionFits
           /\ \A t \in Threads : thread[t].step \notin Halted \cup {"record"}
           /\ Ours \subseteq {inner.child}
           /\ m.step = "sleep" => Ours = {}
           /\ m.step # "sleep" => inner.child = m.child
<1>1. /\ Supervised /\ SessionFits
      /\ m.step = "sleep" => inner.child = None
      /\ m.step # "sleep" => inner.child = m.child
  BY DEF Inv, OneMonitor, Supervised, Orderly
<1>2. \A t \in Threads : thread[t].step \notin Halted
  BY <1>1 DEF SessionFits, CallFits
<1>3. \A t \in Threads : thread[t].step # "record"
  <2> SUFFICES ASSUME NEW t \in Threads, Recording(t) PROVE FALSE
    BY DEF Recording
  <2>1. thread[t].generation = inner.generation
    BY <1>1 DEF SessionFits, CallFits
  <2> QED BY <2>1 DEF Inv, StartsOwnGeneration, Superseded
<1>4. Ours \subseteq {inner.child}
  BY <1>1, <1>2 DEF SessionFits, Owned, Halted
<1>5. None \notin Ours
  BY SupervisorAssumption DEF Inv, TypeOK, Ours, None
<1> QED BY <1>1, <1>2, <1>3, <1>4, <1>5

\* What a monitor leaves alone.
LEMMA MonitorQuiet ==
    ASSUME Orderly, UNCHANGED <<host, thread>>, host = "up",
           files'.match = files.match, files'.off = files.off
    PROVE  OneCall' /\ FilesAgree' /\ NoneOutlivesExit'
  BY DEF Orderly, OneCall, Resting, FilesAgree, NoneOutlivesExit

\* A monitor that was superseded goes.
LEMMA EndsCalm ==
    ASSUME Calm, Orderly, host = "up", NEW m \in monitors, Superseded(m), m.step # "record",
           Ends(m), UNCHANGED <<host, before, thread, gate, inner, files, alive>>
    PROVE  Orderly'
<1>1. OneCall' /\ FilesAgree' /\ NoneOutlivesExit'
  BY MonitorQuiet
<1>2. SessionFits
  BY DEF Orderly
<1>3. \A t \in Threads : CallFits(t)'
  BY <1>2 DEF SessionFits, CallFits, Supervised, Recording
<1>4. \A n \in monitors : n \in monitors' \/ n = m
  BY DEF Ends
<1>5. Watched' /\ Unwanted'
  BY <1>2, <1>4 DEF SessionFits, Watched, Unwanted, Supervised, Superseded, Recording
<1>6. \A d \in Ours' : Owned(d)' /\ Recorded(d)'
  BY <1>2, <1>4 DEF SessionFits, Ours, Owned, Recorded, Recording
<1> QED BY <1>1, <1>3, <1>5, <1>6 DEF Orderly, SessionFits

\* One that gives up leaves no daemon.
LEMMA GiveUpCalm ==
    ASSUME Calm, Orderly, host = "up", NEW m \in monitors, ~Superseded(m), Ours = {},
           GiveUp(m), UNCHANGED <<host, before, thread, gate, alive>>
    PROVE  Orderly'
<1>0. Inv /\ ChildRuns
  BY DEF Calm
<1>1. files'.match = files.match /\ files'.off = files.off
  BY <1>0 DEF GiveUp, Inv, TypeOK
<1>2. inner'.state = "failed" /\ inner'.child = None
  BY <1>0 DEF GiveUp, Inv, TypeOK
<1>3. OneCall' /\ FilesAgree' /\ NoneOutlivesExit'
  BY <1>1, MonitorQuiet
<1>4. ~Supervised'
  BY <1>2 DEF Supervised
<1>5. \A t \in Threads : thread[t].step \notin Halted \cup {"record"}
  BY <1>0, MonitorAlone
<1>6. \A t \in Threads : CallFits(t)'
  BY <1>1, <1>4, <1>5 DEF Orderly, SessionFits, CallFits, Recording, Halted
<1>7. Watched' /\ Unwanted' /\ Ours' = {}
  BY <1>2, <1>4 DEF Watched, Unwanted, Ours
<1> QED BY <1>3, <1>6, <1>7 DEF Orderly, SessionFits

\* One that goes on: it notices an exit, restarts the daemon, or has recorded
\* it.
LEMMA BecomesCalm ==
    ASSUME Calm, Orderly, host = "up", NEW m \in monitors, ~Superseded(m),
           NEW n, Becomes(m, n), n.generation = m.generation,
           UNCHANGED <<host, before, thread, gate>>,
           files'.match = files.match, files'.off = files.off,
           inner'.generation = inner.generation,
           inner'.state \in {"running", "retrying"},
           \A d \in Ours' : /\ d = inner'.child
                            /\ d = files'.pid \/ (n.step = "record" /\ n.child = d)
    PROVE  Orderly'
<1>0. Inv /\ ChildRuns
  BY DEF Calm
<1>1. OneCall' /\ FilesAgree' /\ NoneOutlivesExit'
  BY MonitorQuiet
<1>2. /\ Supervised /\ SessionFits
      /\ \A t \in Threads : thread[t].step \notin Halted \cup {"record"}
  BY <1>0, MonitorAlone
<1>3. n \in monitors' /\ n.generation = inner'.generation
  BY DEF Becomes, Superseded
<1>4. \A t \in Threads : CallFits(t)'
  BY <1>2 DEF SessionFits, CallFits, Recording, Halted
<1>5. Watched' /\ Unwanted'
  BY <1>2, <1>3 DEF SessionFits, Watched, Unwanted, Supervised, Superseded
<1>6. \A d \in Ours' : Owned(d)' /\ Recorded(d)'
  BY <1>3 DEF Owned, Recorded
<1> QED BY <1>1, <1>4, <1>5, <1>6 DEF Orderly, SessionFits

LEMMA NoticeExitCalm ==
    ASSUME Calm, ~raced, NEW m \in monitors, Monitor(m), NoticeExit(m)
    PROVE  Orderly'
<1>0. /\ Inv /\ ChildRuns /\ Orderly /\ host = "up" /\ m.step = "wait"
      /\ UNCHANGED <<host, before, thread, gate, alive>>
  BY DEF Calm, Monitor, NoticeExit
<1>1. CASE Superseded(m) /\ Ends(m) /\ UNCHANGED <<inner, files>>
  BY <1>0, <1>1, EndsCalm
<1>2. ASSUME ~Superseded(m) PROVE Ours = {}
  <2>1. Ours \subseteq {m.child}
    BY <1>0, <1>2, MonitorAlone
  <2> QED BY <2>1 DEF NoticeExit, Ours
<1>3. CASE ~Superseded(m) /\ Exhausted(m) /\ GiveUp(m)
  BY <1>0, <1>2, <1>3, GiveUpCalm
<1>4. CASE /\ ~Superseded(m) /\ ~Exhausted(m)
           /\ inner' = [inner EXCEPT !.state = "retrying", !.child = None]
           /\ Becomes(m, [m EXCEPT !.step = "sleep"])
           /\ UNCHANGED files
  <2>1. /\ inner'.state = "retrying" /\ inner'.child = None
        /\ inner'.generation = inner.generation
    BY <1>0, <1>4 DEF Inv, TypeOK
  <2>2. [m EXCEPT !.step = "sleep"].generation = m.generation
    BY <1>0 DEF Inv, TypeOK
  <2>3. Ours' = {}
    BY <1>0, <1>2, <1>4 DEF Ours
  <2> QED BY <1>0, <1>4, <2>1, <2>2, <2>3, BecomesCalm
<1> QED BY <1>1, <1>3, <1>4 DEF NoticeExit

LEMMA RestartCalm ==
    ASSUME Calm, ~raced, NEW m \in monitors, Monitor(m), Restart(m)
    PROVE  Orderly'
<1>0. /\ Inv /\ ChildRuns /\ Orderly /\ host = "up" /\ m.step = "sleep"
      /\ UNCHANGED <<host, before, thread, gate>>
  BY DEF Calm, Monitor, Restart
<1>1. CASE Superseded(m) /\ Ends(m) /\ UNCHANGED <<inner, files, spawned, alive>>
  BY <1>0, <1>1, EndsCalm
<1>2. ~Superseded(m) => Ours = {}
  BY <1>0, MonitorAlone
<1>3. CASE ~Superseded(m) /\ GiveUp(m) /\ UNCHANGED <<spawned, alive>>
  BY <1>0, <1>2, <1>3, GiveUpCalm
<1>4. CASE /\ ~Superseded(m) /\ Spawned(inner.generation)
           /\ Becomes(m, [m EXCEPT !.step = "record", !.child = NextPid, !.attempt = @ + 1])
           /\ UNCHANGED files
  <2> DEFINE n == [m EXCEPT !.step = "record", !.child = NextPid, !.attempt = @ + 1]
  <2>1. /\ inner'.state = "running" /\ inner'.child = NextPid
        /\ inner'.generation = inner.generation
        /\ alive' = alive \cup {NextPid}
    BY <1>4 DEF Spawned
  <2>2. n.generation = m.generation /\ n.step = "record" /\ n.child = NextPid
    BY <1>0 DEF Inv, TypeOK
  <2>3. \A d \in Ours' : d = NextPid
    BY <1>0, <1>2, <1>4, <2>1 DEF Ours
  <2>4. Becomes(m, n)
    BY <1>4
  <2> HIDE DEF n
  <2> QED BY <1>0, <1>4, <2>1, <2>2, <2>3, <2>4, BecomesCalm
<1> QED BY <1>1, <1>3, <1>4 DEF Restart

\* A record that is written late, after the generation has changed, may only
\* replace that of a daemon that is gone.
LEMMA RecordRestartCalm ==
    ASSUME Calm, ~raced, ~raced', NEW m \in monitors, Monitor(m), RecordRestart(m)
    PROVE  Orderly'
<1>0. /\ Inv /\ ChildRuns /\ Orderly /\ host = "up" /\ m.step = "record"
      /\ UNCHANGED <<host, before, thread, gate, alive, inner>>
      /\ Becomes(m, [m EXCEPT !.step = "wait"])
      /\ Superseded(m) => files.pid \notin alive
  BY DEF Calm, Monitor, RecordRestart
<1>1. /\ files'.pid = m.child /\ files'.match = files.match /\ files'.off = files.off
  BY <1>0 DEF RecordRestart, Inv, TypeOK
<1>2. [m EXCEPT !.step = "wait"].generation = m.generation
  BY <1>0 DEF Inv, TypeOK
<1>3. CASE ~Superseded(m)
  <2>1. /\ Supervised /\ Ours \subseteq {inner.child} /\ inner.child = m.child
    BY <1>0, <1>3, MonitorAlone
  <2>2. \A d \in Ours' : d = inner'.child /\ d = files'.pid
    BY <1>0, <1>1, <2>1 DEF Ours
  <2>3. /\ inner'.generation = inner.generation /\ inner'.state \in {"running", "retrying"}
    BY <1>0, <2>1 DEF Supervised
  <2> QED BY <1>0, <1>1, <1>2, <1>3, <2>2, <2>3, BecomesCalm
<1>4. CASE Superseded(m)
  <2>1. OneCall' /\ FilesAgree' /\ NoneOutlivesExit'
    BY <1>0, <1>1, MonitorQuiet
  <2>2. SessionFits
    BY <1>0 DEF Orderly
  <2>3. \A t \in Threads : CallFits(t)'
    BY <1>0, <1>1, <2>2 DEF SessionFits, CallFits, Supervised, Recording
  <2>4. \A n \in monitors : n \in monitors' \/ n = m
    BY <1>0 DEF Becomes
  <2>5. Watched' /\ Unwanted'
    BY <1>0, <1>1, <1>4, <2>2, <2>4
       DEF SessionFits, Watched, Unwanted, Supervised, Superseded, Recording
  <2>6. ASSUME NEW d \in Ours PROVE Owned(d)' /\ Recorded(d)'
    <3>1. Owned(d)'
      BY <1>0, <2>2 DEF SessionFits, Owned
    <3>2. d # files.pid
      BY <1>0, <1>4 DEF Ours
    <3>3. Recorded(d)'
      BY <1>0, <1>1, <2>2, <2>4, <3>2 DEF SessionFits, Recorded, Recording
    <3> QED BY <3>1, <3>3
  <2>7. Ours' = Ours
    BY <1>0 DEF Ours
  <2> QED BY <1>0, <2>1, <2>3, <2>5, <2>6, <2>7 DEF Orderly, SessionFits
<1> QED BY <1>3, <1>4

-----------------------------------------------------------------------------
(* Everything else.                                                        *)

LEMMA AskingCalm ==
    ASSUME Calm, ~raced, ~raced', Bootstrap \/ Enable \/ Status \/ Disable \/ Exit
    PROVE  Orderly'
<1>0. /\ Inv /\ Orderly /\ OneCall /\ FilesAgree /\ SessionFits /\ host = "up"
      /\ UNCHANGED <<host, alive, before, inner, monitors, gate>>
  BY DEF Calm, Orderly, Bootstrap, Enable, Status, Disable, Exit, Command
<1>1. NoneOutlivesExit'
  BY <1>0 DEF NoneOutlivesExit
<1>2. ASSUME NEW t \in Threads, NEW step \in {"rest", "regenerate", "gate", "switch off", "stop"},
             thread'[t].step = step,
             \A u \in Threads \ {t} : thread'[u] = thread[u] /\ thread[u].step \in {"launch", "rest"},
             thread[t].step \in {"launch", "rest"},
             files'.pid = files.pid,
             files'.off => ~files'.match,
             files'.off => files.off,
             step = "switch off" => ~files'.match,
             step = "regenerate" => ~files'.off
      PROVE  Orderly'
  <2>1. OneCall' /\ FilesAgree'
    BY <1>2 DEF OneCall, Resting, FilesAgree
  <2>2. \A u \in Threads : CallFits(u)'
    BY <1>0, <1>2 DEF SessionFits, CallFits, Starting, Halted, Recording, Supervised
  <2>3. Watched' /\ Unwanted'
    BY <1>0, <1>2 DEF SessionFits, Watched, Unwanted, Supervised, Superseded, Recording
  <2>4. \A d \in Ours' : Owned(d)' /\ Recorded(d)'
    BY <1>0, <1>2 DEF SessionFits, Ours, Owned, Recorded, Recording
  <2> QED BY <1>1, <2>1, <2>2, <2>3, <2>4 DEF Orderly, SessionFits
<1>3. CASE Bootstrap
  <2>1. /\ thread["boot"].step = "launch" /\ "boot" \in Threads
        /\ \A u \in Threads \ {"boot"} : thread[u].step \in {"launch", "rest"}
    BY <1>3 DEF Bootstrap, Begin, Resting, Threads
  <2>2. /\ thread'["boot"].step = IF files.off THEN "rest" ELSE "regenerate"
        /\ \A u \in Threads \ {"boot"} : thread'[u] = thread[u]
        /\ files' = files
    BY <1>0, <1>3 DEF Bootstrap, Goto, Inv, TypeOK, Threads
  <2> QED BY <1>0, <1>2, <2>1, <2>2 DEF FilesAgree
<1>4. ASSUME NEW step \in {"regenerate", "gate", "switch off", "stop"}, NEW exits \in BOOLEAN,
             Command(step, exits)
      PROVE  /\ thread["main"].step = "rest" /\ "main" \in Threads
             /\ thread'["main"].step = step
             /\ \A u \in Threads \ {"main"} : /\ thread'[u] = thread[u]
                                              /\ thread[u].step \in {"launch", "rest"}
  <2>1. /\ thread["main"].step = "rest" /\ "main" \in Threads
        /\ \A u \in Threads \ {"main"} : thread[u].step \in {"launch", "rest"}
    BY <1>4 DEF Command, Begin, Resting, Threads
  <2>2. [At(step) EXCEPT !.exiting = exits].step = step
    BY DEF At
  <2>3. /\ thread'["main"].step = step
        /\ \A u \in Threads \ {"main"} : thread'[u] = thread[u]
    BY <1>0, <1>4, <2>2 DEF Command, Inv, TypeOK, Threads
  <2> QED BY <2>1, <2>3
<1>5. CASE Enable
  <2>1. files'.pid = files.pid /\ files'.off = FALSE
    BY <1>0, <1>5 DEF Enable, Inv, TypeOK
  <2> QED BY <1>2, <1>4, <1>5, <2>1 DEF Enable
<1>6. CASE Status
  BY <1>0, <1>2, <1>4, <1>6 DEF Status, FilesAgree
<1>7. CASE Disable
  <2>1. files'.pid = files.pid /\ files'.match = FALSE /\ files'.off = files.off
    BY <1>0, <1>7 DEF Disable, Inv, TypeOK
  <2> QED BY <1>2, <1>4, <1>7, <2>1 DEF Disable
<1>8. CASE Exit
  BY <1>0, <1>2, <1>4, <1>8 DEF Exit, FilesAgree
<1> QED BY <1>3, <1>5, <1>6, <1>7, <1>8

\* A daemon dies, the user's own engine comes or goes, the host dies or starts.
LEMMA WorldCalm ==
    ASSUME Calm, ~raced, DaemonDies \/ UserTogglesOwn \/ HostCrash \/ Launch
    PROVE  Orderly'
<1>0. Inv /\ Orderly /\ OneCall /\ FilesAgree /\ NoneOutlivesExit
  BY DEF Calm, Orderly
<1>1. CASE DaemonDies \/ UserTogglesOwn \/ HostCrash
  <2>1. /\ UNCHANGED <<before, files, inner, thread, gate>>
        /\ alive' \subseteq alive
        /\ host' = "up" => host = "up" /\ monitors' = monitors
        /\ host' = "exited" => host = "exited"
    BY <1>1 DEF DaemonDies, UserTogglesOwn, HostCrash
  <2>2. Ours' \subseteq Ours
    BY <2>1 DEF Ours
  <2>3. OneCall' /\ FilesAgree' /\ NoneOutlivesExit'
    BY <1>0, <2>1, <2>2 DEF OneCall, Resting, FilesAgree, NoneOutlivesExit
  <2>4. ASSUME host' = "up" PROVE SessionFits'
    <3>1. SessionFits /\ monitors' = monitors
      BY <1>0, <2>1, <2>4 DEF Orderly
    <3> QED BY <2>1, <2>2, <3>1
         DEF SessionFits, CallFits, Watched, Unwanted, Supervised, Superseded, Recording,
             Owned, Recorded
  <2> QED BY <2>3, <2>4 DEF Orderly
<1>2. CASE Launch
  <2>1. \A t \in Threads : thread'[t].step \in {"launch", "rest"}
    BY <1>2 DEF Launch, At
  <2>2. UNCHANGED files /\ inner'.state = "idle" /\ gate' = TRUE /\ host' = "up"
    BY <1>2 DEF Launch, Idle
  <2>3. Ours' = {}
    <3>1. alive \subseteq 1 .. spawned /\ spawned \in Nat
      BY <1>0, SupervisorAssumption DEF Inv, TypeOK
    <3>2. alive' = alive /\ before' = spawned
      BY <1>2 DEF Launch
    <3>3. \A d \in alive : ~(d > spawned)
      BY <3>1
    <3> QED BY <3>2, <3>3 DEF Ours
  <2>4. OneCall' /\ FilesAgree'
    BY <1>0, <2>1, <2>2 DEF OneCall, Resting, FilesAgree
  <2>5. Watched' /\ Unwanted' /\ \A t \in Threads : CallFits(t)'
    BY <2>1, <2>2 DEF Watched, Unwanted, Supervised, CallFits, Starting, Halted, Recording
  <2> QED BY <2>2, <2>3, <2>4, <2>5 DEF Orderly, SessionFits, NoneOutlivesExit
<1> QED BY <1>1, <1>2

\* Whatever races, only a running engine has a child.
LEMMA ChildRunsKept == Inv /\ ChildRuns /\ [Next]_vars => ChildRuns'
<1> SUFFICES ASSUME Inv, ChildRuns, [Next]_vars PROVE ChildRuns'
  OBVIOUS
<1>0. inner \in [state : {"idle", "running", "retrying", "failed", "stopped"},
                 generation : Nat, child : 0 .. spawned]
  BY DEF Inv, TypeOK
<1>1. CASE inner' = inner
  BY <1>1 DEF ChildRuns
<1>2. ASSUME NEW t \in Threads, Start(t) PROVE ChildRuns'
  BY <1>0, <1>2 DEF ChildRuns, Start, Spawned
<1>3. ASSUME NEW t \in Threads, StopTake(t) PROVE ChildRuns'
  BY <1>3 DEF ChildRuns, StopTake
<1>4. ASSUME NEW m \in monitors, GiveUp(m) PROVE ChildRuns'
  BY <1>0, <1>4 DEF ChildRuns, GiveUp
<1>5. ASSUME NEW m \in monitors, NoticeExit(m) PROVE ChildRuns'
  BY <1>0, <1>1, <1>4, <1>5 DEF ChildRuns, NoticeExit
<1>6. ASSUME NEW m \in monitors, Restart(m) PROVE ChildRuns'
  BY <1>1, <1>4, <1>6 DEF ChildRuns, Restart, Spawned
<1>7. CASE Launch
  BY <1>7 DEF Launch, Idle, ChildRuns
<1>8. ASSUME NEW t \in Threads, CallStep(t) PROVE ChildRuns'
  BY <1>1, <1>2, <1>3, <1>8
     DEF CallStep, Regenerate, EngineGate, EnsureRunning, Yield, SwitchOff, ClearResidual,
         ForgetResidual, Record, StopTerminate, StopUnrecord
<1>9. ASSUME NEW m \in monitors, Monitor(m) PROVE ChildRuns'
  BY <1>1, <1>5, <1>6, <1>9 DEF Monitor, RecordRestart
<1> QED BY <1>1, <1>7, <1>8, <1>9
     DEF Next, Bootstrap, Enable, Status, Disable, Exit, Command, DaemonDies, UserTogglesOwn,
         HostCrash, vars

LEMMA CallCalm ==
    ASSUME Calm, ~raced, NEW t \in Threads, CallStep(t)
    PROVE  Orderly'
  BY LookingCalm, ForgetCalm, StartCalm, RecordCalm, StopTakeCalm, StopTerminateCalm,
     StopUnrecordCalm DEF CallStep

LEMMA MonitorCalm ==
    ASSUME Calm, ~raced, ~raced', NEW m \in monitors, Monitor(m)
    PROVE  Orderly'
  BY NoticeExitCalm, RestartCalm, RecordRestartCalm DEF Monitor

LEMMA InitCalm == Init => Calm
<1> SUFFICES ASSUME Init PROVE Calm
  OBVIOUS
<1>1. \A t \in Threads : thread[t].step \in {"launch", "rest"}
  BY DEF Init, At
<1>2. OneCall /\ FilesAgree /\ \A t \in Threads : CallFits(t)
  BY <1>1 DEF Init, OneCall, Resting, FilesAgree, CallFits, Starting, Halted, Recording
<1>3. Ours = {} /\ Watched /\ Unwanted /\ ChildRuns
  BY DEF Init, Ours, Watched, Unwanted, Supervised, ChildRuns, Idle, None
<1> QED BY <1>2, <1>3, InitInv DEF Calm, Orderly, SessionFits, NoneOutlivesExit

LEMMA NextCalm == Calm /\ [Next]_vars => Calm'
<1> SUFFICES ASSUME Calm, [Next]_vars PROVE Calm'
  OBVIOUS
<1>1. Inv' /\ ChildRuns'
  BY NextPreservesInv, ChildRunsKept DEF Calm
<1>2. ASSUME ~raced' PROVE Orderly'
  <2>1. ASSUME NEW t \in Threads, CallStep(t) PROVE raced' = raced
    BY <2>1 DEF CallStep, Regenerate, EngineGate, EnsureRunning, Yield, SwitchOff, ClearResidual,
         ForgetResidual, Start, Record, StopTake, StopTerminate, StopUnrecord
  <2>2. ASSUME NEW m \in monitors, Monitor(m) PROVE raced => raced'
    BY <2>2 DEF Monitor, NoticeExit, Restart, RecordRestart
  <2>3. CASE Bootstrap \/ Enable \/ Status \/ Disable \/ Exit
    <3>1. PICK t \in Threads : Begin(t)
      BY <2>3 DEF Bootstrap, Enable, Status, Disable, Exit, Command, Threads
    <3>2. ~raced
      BY <1>2, <3>1 DEF Begin
    <3> QED BY <1>2, <2>3, <3>2, AskingCalm
  <2>4. DaemonDies \/ UserTogglesOwn \/ HostCrash \/ Launch => raced' = raced
    BY DEF DaemonDies, UserTogglesOwn, HostCrash, Launch
  <2>5. CASE UNCHANGED vars
    <3>1. ~raced /\ Orderly
      BY <1>2, <2>5 DEF Calm, vars
    <3>2. OneCall' /\ FilesAgree' /\ NoneOutlivesExit'
      BY <2>5, <3>1 DEF vars, Orderly, OneCall, Resting, FilesAgree, NoneOutlivesExit, Ours
    <3>3. SessionFits => SessionFits'
      BY <2>5 DEF vars, SessionFits, CallFits, Watched, Unwanted, Supervised, Superseded,
         Recording, Owned, Recorded, Ours
    <3> QED BY <2>5, <3>1, <3>2, <3>3 DEF vars, Orderly
  <2>6. CASE Next
    BY <1>2, <2>1, <2>2, <2>3, <2>4, <2>6, AskingCalm, CallCalm, MonitorCalm, WorldCalm DEF Next
  <2> QED BY <2>5, <2>6
<1> QED BY <1>1, <1>2 DEF Calm

LEMMA CalmAccounts == Calm => EngineAccounted
<1> SUFFICES ASSUME Calm, ~raced PROVE ChildIsKnown /\ NoneOutlivesExit /\ OffStaysOff
  BY DEF Calm, Inv, EngineAccounted
<1>1. Inv /\ ChildRuns /\ FilesAgree /\ NoneOutlivesExit /\ (host = "up" => SessionFits)
  BY DEF Calm, Orderly
<1>2. ASSUME AtRest PROVE /\ SessionFits
                          /\ \A t \in Threads : thread[t].step \in {"launch", "rest"}
  BY <1>1, <1>2 DEF AtRest, Resting
<1>3. ChildIsKnown
  <2> SUFFICES ASSUME AtRest
               PROVE  /\ Ours \subseteq {inner.child}
                      /\ Supervised => \E m \in monitors : ~Superseded(m)
                      /\ (\A m \in monitors : m.step # "record") => Ours \subseteq {files.pid}
    BY DEF ChildIsKnown
  <2> QED BY <1>2 DEF SessionFits, Owned, Recorded, Recording, Watched
<1>4. OffStaysOff
  <2> SUFFICES ASSUME AtRest
               PROVE  /\ files.off => ~files.match /\ ~Supervised
                      /\ ~gate => ~Supervised
                      /\ ~Supervised => Ours = {}
    BY DEF OffStaysOff
  <2>1. files.off => ~files.match
    BY <1>1 DEF FilesAgree
  <2>2. (files.off => ~Supervised) /\ (~gate => ~Supervised)
    BY <1>2 DEF SessionFits, Unwanted
  <2>3. ~Supervised => Ours = {}
    BY <1>1, <1>2, NoneRuns
  <2> QED BY <2>1, <2>2, <2>3
<1> QED BY <1>1, <1>3, <1>4

-----------------------------------------------------------------------------
\* EngineSupervisor::start, stop and supervise: for any number of daemons,
\* commands, launches and restarts, overlapping calls included, what is known of
\* them stays well formed, no monitor restarts beyond its budget, a generation
\* has at most one monitor, and that of the current one is in step with the
\* state the supervisor shows.
THEOREM EngineTyped == Spec => [](TypeOK /\ OneMonitor)
<1>1. Inv => TypeOK /\ OneMonitor
  BY DEF Inv
<1> QED BY InitInv, NextPreservesInv, <1>1, PTL DEF Spec

\* EngineSupervisor::start, stop and supervise, with calls that overlap or not:
\* OneMonitor; and while nothing races, every daemon of a session is watched,
\* recorded, and ended with the session or by the switch, across crashes of the
\* host at any step.
THEOREM EngineNeverOrphaned == Spec => []EngineAccounted
  BY InitCalm, NextCalm, CalmAccounts, PTL DEF Spec
=============================================================================
