---------------------------- MODULE SyncCadence ----------------------------
(***************************************************************************)
(* When the desktop host runs sync rounds: the Cadence arithmetic, the     *)
(* scheduler thread sleeping on the condvar of SyncScheduler, the user's   *)
(* "sync now", and the writers whose observer announces each queued change *)
(* from inside its write transaction.                                      *)
(*                                                                         *)
(* Locks: a round holds the sync mutex from its first step to its outcome; *)
(* a writer holds the connection from its announcement to its commit, so a *)
(* batch is never read in between; the cadence mutex is held within one    *)
(* step.  Times are ticks of the scheduler's monotonic clock.              *)
(***************************************************************************)
EXTENDS Integers, FiniteSets, FiniteSetsExt

CONSTANTS
  StartDelay,        \* START_DELAY_MS
  Debounce,          \* DEBOUNCE_MS
  IdleInterval,      \* IDLE_INTERVAL_MS
  BackoffBase,       \* BACKOFF_BASE_MS
  MaxTime,           \* bound: ticks of a behaviour
  MaxWrites,         \* bound: local changes
  MaxManual,         \* bound: rounds the user starts
  MaxFailures        \* bound: consecutive failures

ASSUME CadenceAssumption ==
  /\ {StartDelay, Debounce, IdleInterval, BackoffBase, MaxTime, MaxWrites,
      MaxManual, MaxFailures} \subseteq Nat
  /\ 0 < BackoffBase /\ BackoffBase <= IdleInterval

VARIABLES
  now,       \* the monotonic clock
  cadence,   \* [failures, dirtySince, nextPoll], dirtySince = Clean for None
  sleep,     \* until when the scheduler sleeps, Awake if it does not
  round,     \* round[a]: [at, started, batch, ok] of actor a's round
  writer,    \* the time an open write transaction announced, NoWrite if none
  pokes,     \* notify_all calls still to be made
  unpushed,  \* announcement times of committed changes no round has pushed
  writes,    \* local changes so far
  manuals,   \* rounds the user started so far
  starts     \* history: the times at which a round was marked as started

vars == <<now, cadence, sleep, round, writer, pokes, unpushed, writes, manuals, starts>>

Clean == -1
Awake == -1
NoWrite == -1
Actors == {"scheduler", "manual"}
NoRound == [at |-> "none", started |-> 0, batch |-> {}, ok |-> TRUE]

-----------------------------------------------------------------------------
\* Cadence: pure arithmetic.

NextDue(c) ==
  IF c.dirtySince = Clean THEN c.nextPoll
  ELSE Min({c.nextPoll, c.dirtySince + Debounce})

IsDue(c, t) == t >= NextDue(c)

\* Mutant of NoteLocalChange: every change starts the debounce again.
NoteLatestChange(c, t) == [c EXCEPT !.dirtySince = t]

NoteLocalChange(c, t) ==
  IF c.dirtySince = Clean THEN [c EXCEPT !.dirtySince = t] ELSE c

\* Mutant of Backoff: no cap at the idle interval.
BackoffUncapped(failures) == BackoffBase * 2 ^ Min({failures, 16})

\* Doubling per failure, at most sixteen times.
Backoff(failures) ==
  Min({BackoffBase * 2 ^ Min({failures - 1, 16}), IdleInterval})

\* Mutant of NoteRound: the change stays dirty.
NoteRoundDirty(c, started, t, ok) ==
  LET failures == IF ok THEN 0 ELSE c.failures + 1
  IN  [failures |-> failures,
       dirtySince |-> c.dirtySince,
       nextPoll |-> t + (IF ok THEN IdleInterval ELSE Backoff(failures))]

\* A change announced by the start of the round is consumed by it.
NoteRound(c, started, t, ok) ==
  LET failures == IF ok THEN 0 ELSE c.failures + 1
  IN  [failures |-> failures,
       dirtySince |-> IF c.dirtySince <= started THEN Clean ELSE c.dirtySince,
       nextPoll |-> t + (IF ok THEN IdleInterval ELSE Backoff(failures))]

-----------------------------------------------------------------------------

Init ==
  /\ now = 0
  /\ cadence = [failures |-> 0, dirtySince |-> Clean, nextPoll |-> StartDelay]
  /\ sleep = Awake
  /\ round = [a \in Actors |-> NoRound]
  /\ writer = NoWrite
  /\ pokes = {}
  /\ unpushed = {}
  /\ writes = 0
  /\ manuals = 0
  /\ starts = {}

Tick ==
  /\ now < MaxTime
  /\ now' = now + 1
  /\ UNCHANGED <<cadence, sleep, round, writer, pokes, unpushed, writes, manuals, starts>>

\* Mutant of Announce: the sleeping scheduler is not notified.
AnnounceSilently ==
  /\ writer = NoWrite
  /\ writes < MaxWrites
  /\ writer' = now
  /\ writes' = writes + 1
  /\ cadence' = NoteLocalChange(cadence, now)
  /\ UNCHANGED <<now, sleep, round, pokes, unpushed, manuals, starts>>

\* A write: the observer announces the change after sealing it, still inside
\* the write transaction.
Announce ==
  /\ writer = NoWrite
  /\ writes < MaxWrites
  /\ writer' = now
  /\ writes' = writes + 1
  /\ cadence' = NoteLocalChange(cadence, now)
  /\ pokes' = pokes \cup {"writer"}
  /\ UNCHANGED <<now, sleep, round, unpushed, manuals, starts>>

\* Mutant of Commit: without an open transaction.
CommitAnyway ==
  /\ "writer" \notin pokes
  /\ unpushed' = unpushed \cup {writer}
  /\ writer' = NoWrite
  /\ UNCHANGED <<now, cadence, sleep, round, pokes, writes, manuals, starts>>

Commit ==
  /\ writer # NoWrite
  /\ "writer" \notin pokes
  /\ unpushed' = unpushed \cup {writer}
  /\ writer' = NoWrite
  /\ UNCHANGED <<now, cadence, sleep, round, pokes, writes, manuals, starts>>

\* notify_all, after the cadence mutex is released.
Notify(a) ==
  /\ a \in pokes
  /\ pokes' = pokes \ {a}
  /\ sleep' = Awake
  /\ UNCHANGED <<now, cadence, round, writer, unpushed, writes, manuals, starts>>

\* wait_until_due under the cadence mutex: return, or sleep until the time the
\* next round is due now.
GoToSleep ==
  /\ round["scheduler"].at = "none"
  /\ sleep = Awake
  /\ ~IsDue(cadence, now)
  /\ sleep' = NextDue(cadence)
  /\ UNCHANGED <<now, cadence, round, writer, pokes, unpushed, writes, manuals, starts>>

TimeOut ==
  /\ sleep # Awake
  /\ now >= sleep
  /\ sleep' = Awake
  /\ UNCHANGED <<now, cadence, round, writer, pokes, unpushed, writes, manuals, starts>>

\* A round that counts as started now.
Begun(stage) == [at |-> stage, started |-> now, batch |-> {}, ok |-> TRUE]

\* The scheduler marks the start before it gets the sync mutex; a manual round
\* marks it afterwards.
MarkScheduled ==
  /\ round["scheduler"].at = "none"
  /\ sleep = Awake
  /\ IsDue(cadence, now)
  /\ round' = [round EXCEPT !["scheduler"] = Begun("marked")]
  /\ starts' = starts \cup {now}
  /\ UNCHANGED <<now, cadence, sleep, writer, pokes, unpushed, writes, manuals>>

SyncMutexFree ==
  /\ \A a \in Actors : round[a].at \notin {"locked", "pushed"}
  /\ round["manual"].at # "ended"

LockScheduled ==
  /\ round["scheduler"].at = "marked"
  /\ SyncMutexFree
  /\ round' = [round EXCEPT !["scheduler"].at = "locked"]
  /\ UNCHANGED <<now, cadence, sleep, writer, pokes, unpushed, writes, manuals, starts>>

StartManual ==
  /\ round["manual"].at = "none"
  /\ "manual" \notin pokes
  /\ SyncMutexFree
  /\ manuals < MaxManual
  /\ manuals' = manuals + 1
  /\ round' = [round EXCEPT !["manual"] = Begun("locked")]
  /\ starts' = starts \cup {now}
  /\ UNCHANGED <<now, cadence, sleep, writer, pokes, unpushed, writes>>

\* The push reads its batch with the connection in hand.
ReadBatch(a) ==
  /\ round[a].at = "locked"
  /\ writer = NoWrite
  /\ round' = [round EXCEPT ![a] = [@ EXCEPT !.at = "pushed", !.batch = unpushed]]
  /\ UNCHANGED <<now, cadence, sleep, writer, pokes, unpushed, writes, manuals, starts>>

\* The round ends: what it pushed is acknowledged, or nothing is.  The
\* scheduler gives the sync mutex back before it notes the outcome, sync_now
\* keeps it.
EndRound(a, ok) ==
  /\ round[a].at = "pushed"
  /\ ok \/ cadence.failures < MaxFailures
  /\ round' = [round EXCEPT ![a] = [@ EXCEPT !.at = "ended", !.ok = ok]]
  /\ unpushed' = IF ok THEN unpushed \ round[a].batch ELSE unpushed
  /\ UNCHANGED <<now, cadence, sleep, writer, pokes, writes, manuals, starts>>

Note(a) ==
  /\ round[a].at = "ended"
  /\ cadence' = NoteRound(cadence, round[a].started, now, round[a].ok)
  /\ round' = [round EXCEPT ![a] = NoRound]
  /\ pokes' = pokes \cup {a}
  /\ UNCHANGED <<now, sleep, writer, unpushed, writes, manuals, starts>>

Next ==
  \/ Tick
  \/ Announce \/ Commit
  \/ GoToSleep \/ TimeOut \/ MarkScheduled \/ LockScheduled \/ StartManual
  \/ \E a \in Actors : ReadBatch(a) \/ Note(a) \/ \E ok \in BOOLEAN : EndRound(a, ok)
  \/ \E a \in Actors \cup {"writer"} : Notify(a)

Spec == Init /\ [][Next]_vars

-----------------------------------------------------------------------------

TypeOK ==
  LET Time == 0..MaxTime
      At == {"none", "marked", "locked", "pushed", "ended"}
  IN  /\ now \in Time
      /\ cadence \in [failures : Nat, dirtySince : Time \cup {Clean}, nextPoll : Nat]
      /\ sleep \in Nat \cup {Awake}
      /\ round \in [Actors -> [at : At, started : Time, batch : SUBSET Time, ok : BOOLEAN]]
      /\ writer \in Time \cup {NoWrite}
      /\ pokes \subseteq Actors \cup {"writer"}
      /\ unpushed \subseteq Time
      /\ writes \in 0..MaxWrites
      /\ manuals \in 0..MaxManual
      /\ starts \subseteq Time

\* No wakeup is lost: a sleeping scheduler either wakes by the time the next
\* round is due, or somebody is about to notify it.
NoLostWakeup == sleep # Awake /\ sleep > NextDue(cadence) => pokes # {}

\* A dead server degrades to the idle cadence: however many rounds failed, the
\* next one is never further away than the idle interval.
DueWithinIdleInterval == NextDue(cadence) <= now + Max({IdleInterval, StartDelay})

\* cadence.rs: a change queued while a round is on the wire keeps its debounce.
\* With no round under way and no failure to recover from, every committed
\* change that no round has pushed is due within its debounce window.  (One
\* announced in the very tick of a round's start counts as consumed by it.)
ChangeKeepsDebounce ==
  /\ \A a \in Actors : round[a].at = "none"
  /\ cadence.failures = 0
  => \A t \in unpushed \ starts : NextDue(cadence) <= t + Debounce

\* Only the outcome of a round moves the next one away: a steady stream of
\* edits cannot postpone it.
OnlyOutcomesPostpone ==
  [][NextDue(cadence') > NextDue(cadence) => \E a \in Actors : Note(a)]_vars

\* A round does not make the next one due at once, unless a change was
\* announced after it started.
NoHotLoop ==
  [][\A a \in Actors :
       Note(a) /\ cadence.dirtySince <= round[a].started => ~IsDue(cadence', now)]_vars
=============================================================================
