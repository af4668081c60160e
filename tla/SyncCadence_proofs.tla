------------------------ MODULE SyncCadence_proofs ------------------------
(***************************************************************************)
(* The safety of the desktop cadence for every delay, debounce, interval   *)
(* and bound: no wakeup is lost, the next round is never further away than *)
(* the idle interval, only outcomes postpone it and no round makes the     *)
(* next one due at once.                                                   *)
(***************************************************************************)
EXTENDS SyncCadence, TLAPS

-----------------------------------------------------------------------------

\* The minimum of two integers is one of them and below both.
LEMMA MinOfTwo ==
  ASSUME NEW a \in Int, NEW b \in Int
  PROVE  /\ Min({a, b}) \in {a, b}
         /\ Min({a, b}) <= a
         /\ Min({a, b}) <= b
<1>1. \E x \in {a, b} : \A y \in {a, b} : x <= y
  <2>1. CASE a <= b
    BY <2>1
  <2>2. CASE b <= a
    BY <2>2
  <2> QED BY <2>1, <2>2
<1> QED BY <1>1 DEF Min

\* The maximum of two integers is one of them and above both.
LEMMA MaxOfTwo ==
  ASSUME NEW a \in Int, NEW b \in Int
  PROVE  /\ Max({a, b}) \in {a, b}
         /\ Max({a, b}) >= a
         /\ Max({a, b}) >= b
<1>1. \E x \in {a, b} : \A y \in {a, b} : x >= y
  <2>1. CASE a >= b
    BY <2>1
  <2>2. CASE b >= a
    BY <2>2
  <2> QED BY <2>1, <2>2
<1> QED BY <1>1 DEF Max

\* The saturating shift of backoff_ms has sixteen values besides the first.
LEMMA PowersOfTwo == \A n \in 0..16 : 2 ^ n \in Nat \ {0}
<1>1. /\ 2 ^ 0 \in Nat \ {0} /\ 2 ^ 1 \in Nat \ {0} /\ 2 ^ 2 \in Nat \ {0}
      /\ 2 ^ 3 \in Nat \ {0} /\ 2 ^ 4 \in Nat \ {0} /\ 2 ^ 5 \in Nat \ {0}
  OBVIOUS
<1>2. /\ 2 ^ 6 \in Nat \ {0} /\ 2 ^ 7 \in Nat \ {0} /\ 2 ^ 8 \in Nat \ {0}
      /\ 2 ^ 9 \in Nat \ {0} /\ 2 ^ 10 \in Nat \ {0} /\ 2 ^ 11 \in Nat \ {0}
  OBVIOUS
<1>3. /\ 2 ^ 12 \in Nat \ {0} /\ 2 ^ 13 \in Nat \ {0} /\ 2 ^ 14 \in Nat \ {0}
      /\ 2 ^ 15 \in Nat \ {0} /\ 2 ^ 16 \in Nat \ {0}
  OBVIOUS
<1> TAKE n \in 0..16
<1>4. \/ n = 0 \/ n = 1 \/ n = 2 \/ n = 3 \/ n = 4 \/ n = 5 \/ n = 6 \/ n = 7 \/ n = 8
      \/ n = 9 \/ n = 10 \/ n = 11 \/ n = 12 \/ n = 13 \/ n = 14 \/ n = 15 \/ n = 16
  OBVIOUS
<1> QED BY <1>1, <1>2, <1>3, <1>4, Zenon

\* After any number of failures the delay is positive and capped.
LEMMA BackoffBounds ==
  ASSUME NEW f \in Nat \ {0}
  PROVE  Backoff(f) \in Nat /\ 0 < Backoff(f) /\ Backoff(f) <= IdleInterval
<1> DEFINE n == Min({f - 1, 16})
           delay == BackoffBase * 2 ^ n
<1>1. n \in 0..16
  <2>1. f - 1 \in Nat /\ f - 1 \in Int /\ 16 \in Int
    OBVIOUS
  <2>2. n \in {f - 1, 16} /\ n <= 16
    BY <2>1, MinOfTwo, Zenon
  <2> HIDE DEF n
  <2> QED BY <2>1, <2>2
<1>2. 2 ^ n \in Nat \ {0}
  BY <1>1, PowersOfTwo
<1> HIDE DEF n
<1>3. delay \in Nat \ {0} /\ IdleInterval \in Nat \ {0}
  <2>1. BackoffBase \in Nat \ {0} /\ IdleInterval \in Nat \ {0}
    BY CadenceAssumption
  <2>2. \A x, y \in Nat \ {0} : x * y \in Nat \ {0}
    OBVIOUS
  <2> QED BY <1>2, <2>1, <2>2
<1>4. Backoff(f) = Min({delay, IdleInterval})
  BY DEF Backoff, n
<1> HIDE DEF delay
<1>5. delay \in Int /\ IdleInterval \in Int
  BY <1>3
<1>6. Backoff(f) \in {delay, IdleInterval} /\ Backoff(f) <= IdleInterval
  BY <1>4, <1>5, MinOfTwo, Zenon
<1> QED BY <1>3, <1>6

-----------------------------------------------------------------------------
\* What next_due is, in every well-formed state.

Time == 0..MaxTime
Cadences == [failures : Nat, dirtySince : Time \cup {Clean}, nextPoll : Nat]

LEMMA NextDueBounds ==
  ASSUME NEW c \in Cadences
  PROVE  /\ NextDue(c) \in Nat
         /\ NextDue(c) <= c.nextPoll
         /\ c.dirtySince = Clean => NextDue(c) = c.nextPoll
         /\ c.dirtySince # Clean => NextDue(c) <= c.dirtySince + Debounce
<1>1. Debounce \in Nat /\ MaxTime \in Nat /\ c.nextPoll \in Nat
  BY CadenceAssumption DEF Cadences
<1>2. CASE c.dirtySince = Clean
  BY <1>1, <1>2 DEF NextDue
<1>3. CASE c.dirtySince # Clean
  <2>1. c.dirtySince + Debounce \in Nat
    BY <1>1, <1>3 DEF Cadences, Time
  <2>2. c.dirtySince + Debounce \in Int /\ c.nextPoll \in Int
    BY <1>1, <2>1
  <2>3. NextDue(c) = Min({c.nextPoll, c.dirtySince + Debounce})
    BY <1>3 DEF NextDue
  <2>4. /\ NextDue(c) \in {c.nextPoll, c.dirtySince + Debounce}
        /\ NextDue(c) <= c.nextPoll
        /\ NextDue(c) <= c.dirtySince + Debounce
    BY <2>2, <2>3, MinOfTwo, Zenon
  <2> QED BY <1>1, <1>3, <2>1, <2>4
<1> QED BY <1>2, <1>3

\* A change never moves the next round away.
LEMMA ChangeAdvancesDue ==
  ASSUME NEW c \in Cadences, NEW t \in Time
  PROVE  /\ NoteLocalChange(c, t) \in Cadences
         /\ NoteLocalChange(c, t).nextPoll = c.nextPoll
         /\ NextDue(NoteLocalChange(c, t)) <= NextDue(c)
<1>1. NoteLocalChange(c, t) \in Cadences /\ NoteLocalChange(c, t).nextPoll = c.nextPoll
  BY DEF NoteLocalChange, Cadences
<1>2. CASE c.dirtySince = Clean
  BY <1>1, <1>2, NextDueBounds DEF Cadences
<1>3. CASE c.dirtySince # Clean
  BY <1>3, NextDueBounds DEF NoteLocalChange
<1> QED BY <1>1, <1>2, <1>3

\* The outcome of a round sets the next poll after now, by the idle interval at
\* most.
LEMMA OutcomeSetsPoll ==
  ASSUME NEW c \in Cadences, NEW started \in Time, NEW t \in Time, NEW ok \in BOOLEAN
  PROVE  LET n == NoteRound(c, started, t, ok)
         IN  /\ n \in Cadences
             /\ t < n.nextPoll /\ n.nextPoll <= t + IdleInterval
             /\ n.dirtySince = IF c.dirtySince <= started THEN Clean ELSE c.dirtySince
<1> DEFINE n == NoteRound(c, started, t, ok)
           failures == IF ok THEN 0 ELSE c.failures + 1
<1>1. failures \in Nat /\ (~ok => failures \in Nat \ {0})
  BY DEF Cadences
<1>2. IdleInterval \in Nat \ {0} /\ t \in Nat
  BY CadenceAssumption DEF Time
<1>3. /\ n.failures = failures
      /\ n.dirtySince = IF c.dirtySince <= started THEN Clean ELSE c.dirtySince
      /\ n.nextPoll = t + (IF ok THEN IdleInterval ELSE Backoff(failures))
      /\ n = [failures |-> n.failures, dirtySince |-> n.dirtySince, nextPoll |-> n.nextPoll]
  BY DEF NoteRound
<1> HIDE DEF n, failures
<1>4. n.nextPoll \in Nat /\ t < n.nextPoll /\ n.nextPoll <= t + IdleInterval
  <2>1. CASE ok
    BY <1>2, <1>3, <2>1
  <2>2. CASE ~ok
    <3>1. Backoff(failures) \in Nat /\ 0 < Backoff(failures) /\ Backoff(failures) <= IdleInterval
      BY <1>1, <2>2, BackoffBounds
    <3> QED BY <1>2, <1>3, <2>2, <3>1
  <2> QED BY <2>1, <2>2
<1>5. n.dirtySince \in Time \cup {Clean}
  BY <1>3 DEF Cadences
<1>6. n \in Cadences
  BY <1>1, <1>3, <1>4, <1>5 DEF Cadences
<1> QED BY <1>3, <1>4, <1>6 DEF n

-----------------------------------------------------------------------------
\* The inductive invariant: the bound of the next round has to hold of the
\* poll alone, since an outcome may take the dirty mark away.

PollWithinIdleInterval == cadence.nextPoll <= now + Max({IdleInterval, StartDelay})

Inv == TypeOK /\ NoLostWakeup /\ PollWithinIdleInterval

\* What TypeOK says in terms of the lemmas above.
LEMMA Types ==
  ASSUME TypeOK
  PROVE  /\ cadence \in Cadences /\ now \in Time /\ now \in Nat
         /\ \A a \in Actors : round[a].started \in Time /\ round[a].ok \in BOOLEAN
  BY CadenceAssumption DEF TypeOK, Cadences, Time

\* The longest the next poll is ever away.
LEMMA Longest ==
  /\ Max({IdleInterval, StartDelay}) \in Nat
  /\ IdleInterval <= Max({IdleInterval, StartDelay})
  /\ StartDelay <= Max({IdleInterval, StartDelay})
<1>1. IdleInterval \in Nat /\ StartDelay \in Nat /\ IdleInterval \in Int /\ StartDelay \in Int
  BY CadenceAssumption
<1>2. /\ Max({IdleInterval, StartDelay}) \in {IdleInterval, StartDelay}
      /\ Max({IdleInterval, StartDelay}) >= IdleInterval
      /\ Max({IdleInterval, StartDelay}) >= StartDelay
  BY <1>1, MaxOfTwo, Zenon
<1> QED BY <1>1, <1>2

\* The host starts in the invariant.
LEMMA InitInv == Init => Inv
<1> SUFFICES ASSUME Init PROVE Inv
  OBVIOUS
<1>1. TypeOK
  BY CadenceAssumption DEF Init, TypeOK, NoRound, Actors, Awake, Clean, NoWrite
<1>2. NoLostWakeup
  BY DEF Init, NoLostWakeup
<1>3. PollWithinIdleInterval
  BY Longest DEF Init, PollWithinIdleInterval
<1> QED BY <1>1, <1>2, <1>3 DEF Inv

\* The steps that leave the cadence alone cannot break the bound of the poll.
LEMMA SamePoll ==
  ASSUME TypeOK, PollWithinIdleInterval, UNCHANGED cadence, now' = now \/ now' = now + 1
  PROVE  PollWithinIdleInterval'
<1>1. cadence.nextPoll \in Nat /\ now \in Nat
  BY Types DEF Cadences
<1> QED BY <1>1, Longest DEF PollWithinIdleInterval

\* Every step of the scheduler, the user and the writers keeps it.
LEMMA NextInv == Inv /\ [Next]_vars => Inv'
<1> SUFFICES ASSUME Inv, [Next]_vars PROVE Inv'
  OBVIOUS
<1> USE DEF Inv
<1>1. CASE Tick
  <2>1. TypeOK'
    BY <1>1, CadenceAssumption DEF Tick, TypeOK
  <2>2. PollWithinIdleInterval'
    BY <1>1, SamePoll DEF Tick
  <2> QED BY <1>1, <2>1, <2>2 DEF Tick, NoLostWakeup
<1>2. CASE Announce
  <2>1. cadence' \in Cadences /\ cadence'.nextPoll = cadence.nextPoll
    BY <1>2, Types, ChangeAdvancesDue DEF Announce
  <2>2. TypeOK'
    BY <1>2, <2>1, CadenceAssumption DEF Announce, TypeOK, Cadences, Time
  <2>3. PollWithinIdleInterval'
    BY <1>2, <2>1 DEF Announce, PollWithinIdleInterval
  <2>4. NoLostWakeup'
    BY <1>2 DEF Announce, NoLostWakeup
  <2> QED BY <2>2, <2>3, <2>4
<1>3. CASE Commit
  <2>1. TypeOK'
    BY <1>3 DEF Commit, TypeOK
  <2>2. PollWithinIdleInterval'
    BY <1>3, SamePoll DEF Commit
  <2> QED BY <1>3, <2>1, <2>2 DEF Commit, NoLostWakeup
<1>4. CASE GoToSleep
  <2>1. TypeOK'
    BY <1>4, Types, NextDueBounds DEF GoToSleep, TypeOK
  <2>2. PollWithinIdleInterval'
    BY <1>4, SamePoll DEF GoToSleep
  <2>3. NoLostWakeup'
    BY <1>4, Types, NextDueBounds DEF GoToSleep, NoLostWakeup
  <2> QED BY <2>1, <2>2, <2>3
<1>5. CASE TimeOut
  <2>1. TypeOK'
    BY <1>5 DEF TimeOut, TypeOK
  <2>2. PollWithinIdleInterval'
    BY <1>5, SamePoll DEF TimeOut
  <2> QED BY <1>5, <2>1, <2>2 DEF TimeOut, NoLostWakeup
<1>6. CASE MarkScheduled
  <2>1. TypeOK'
    BY <1>6 DEF MarkScheduled, TypeOK, Actors, Begun
  <2>2. PollWithinIdleInterval'
    BY <1>6, SamePoll DEF MarkScheduled
  <2> QED BY <1>6, <2>1, <2>2 DEF MarkScheduled, NoLostWakeup
<1>7. CASE LockScheduled
  <2>1. TypeOK'
    BY <1>7 DEF LockScheduled, TypeOK, Actors
  <2>2. PollWithinIdleInterval'
    BY <1>7, SamePoll DEF LockScheduled
  <2> QED BY <1>7, <2>1, <2>2 DEF LockScheduled, NoLostWakeup
<1>8. CASE StartManual
  <2>1. TypeOK'
    BY <1>8, CadenceAssumption DEF StartManual, TypeOK, Actors, Begun
  <2>2. PollWithinIdleInterval'
    BY <1>8, SamePoll DEF StartManual
  <2> QED BY <1>8, <2>1, <2>2 DEF StartManual, NoLostWakeup
<1>9. ASSUME NEW a \in Actors, ReadBatch(a) PROVE Inv'
  <2>1. TypeOK'
    BY <1>9 DEF ReadBatch, TypeOK
  <2>2. PollWithinIdleInterval'
    BY <1>9, SamePoll DEF ReadBatch
  <2> QED BY <1>9, <2>1, <2>2 DEF ReadBatch, NoLostWakeup
<1>10. ASSUME NEW a \in Actors, NEW ok \in BOOLEAN, EndRound(a, ok) PROVE Inv'
  <2>1. TypeOK'
    BY <1>10 DEF EndRound, TypeOK
  <2>2. PollWithinIdleInterval'
    BY <1>10, SamePoll DEF EndRound
  <2> QED BY <1>10, <2>1, <2>2 DEF EndRound, NoLostWakeup
<1>11. ASSUME NEW a \in Actors, Note(a) PROVE Inv'
  <2>1. cadence' \in Cadences /\ cadence'.nextPoll <= now + IdleInterval
    BY <1>11, Types, OutcomeSetsPoll DEF Note
  <2>2. TypeOK'
    BY <1>11, <2>1, CadenceAssumption DEF Note, TypeOK, Cadences, Time, NoRound
  <2>3. PollWithinIdleInterval'
    <3>1. cadence'.nextPoll \in Nat /\ now \in Nat /\ IdleInterval \in Nat /\ now' = now
      BY <1>11, <2>1, Types, CadenceAssumption DEF Cadences, Note
    <3> QED BY <2>1, <3>1, Longest DEF PollWithinIdleInterval
  <2>4. NoLostWakeup'
    BY <1>11 DEF Note, NoLostWakeup
  <2> QED BY <2>2, <2>3, <2>4
<1>12. ASSUME NEW a \in Actors \cup {"writer"}, Notify(a) PROVE Inv'
  <2>1. TypeOK'
    BY <1>12 DEF Notify, TypeOK
  <2>2. PollWithinIdleInterval'
    BY <1>12, SamePoll DEF Notify
  <2> QED BY <1>12, <2>1, <2>2 DEF Notify, NoLostWakeup
<1>13. CASE UNCHANGED vars
  BY <1>13 DEF vars, TypeOK, NoLostWakeup, PollWithinIdleInterval, NextDue
<1> QED BY <1>1, <1>2, <1>3, <1>4, <1>5, <1>6, <1>7, <1>8, <1>9, <1>10, <1>11, <1>12, <1>13
        DEF Next

\* So it always holds.
LEMMA InvSafe == Spec => []Inv
  BY InitInv, NextInv, PTL DEF Spec

-----------------------------------------------------------------------------
\* The cadence's times and counters and the threads' steps stay in their ranges.
THEOREM CadenceTyped == Spec => []TypeOK
<1>1. Inv => TypeOK
  BY DEF Inv
<1> QED BY InvSafe, <1>1, PTL

\* A sleeping scheduler is never left behind by a change or an outcome.
THEOREM CadenceWakes == Spec => []NoLostWakeup
<1>1. Inv => NoLostWakeup
  BY DEF Inv
<1> QED BY InvSafe, <1>1, PTL

\* However many rounds fail, the next one is due within the idle interval.
THEOREM CadenceReturns == Spec => []DueWithinIdleInterval
<1>1. Inv => DueWithinIdleInterval
  <2> SUFFICES ASSUME Inv PROVE DueWithinIdleInterval
    OBVIOUS
  <2>1. NextDue(cadence) \in Nat /\ NextDue(cadence) <= cadence.nextPoll
    BY Types, NextDueBounds DEF Inv
  <2>2. now \in Nat /\ cadence.nextPoll \in Nat
    BY Types DEF Inv, Cadences
  <2> QED BY <2>1, <2>2, Longest DEF Inv, PollWithinIdleInterval, DueWithinIdleInterval
<1> QED BY InvSafe, <1>1, PTL

\* Only the outcome of a round moves the next one away; a change, a wakeup or
\* the clock never does.
THEOREM CadencePostponed == Spec => OnlyOutcomesPostpone
<1>1. Inv /\ [Next]_vars =>
        [NextDue(cadence') > NextDue(cadence) => \E a \in Actors : Note(a)]_vars
  <2> SUFFICES ASSUME Inv, Next, NextDue(cadence') > NextDue(cadence)
               PROVE  \E a \in Actors : Note(a)
    OBVIOUS
  <2>1. cadence' # cadence
    <3> SUFFICES ASSUME cadence' = cadence PROVE FALSE
      OBVIOUS
    <3>1. NextDue(cadence) \in Nat
      BY Types, NextDueBounds DEF Inv
    <3> QED BY <3>1
  <2>2. ~Announce
    <3> SUFFICES ASSUME Announce PROVE FALSE
      OBVIOUS
    <3>1. NextDue(cadence') <= NextDue(cadence)
      BY Types, ChangeAdvancesDue DEF Inv, Announce
    <3>2. NextDue(cadence) \in Nat /\ NextDue(cadence') \in Nat
      BY Types, ChangeAdvancesDue, NextDueBounds DEF Inv, Announce
    <3> QED BY <3>1, <3>2
  <2> QED BY <2>1, <2>2 DEF Next, Tick, Commit, GoToSleep, TimeOut, MarkScheduled,
             LockScheduled, StartManual, ReadBatch, EndRound, Notify
<1> QED BY InvSafe, <1>1, PTL DEF Spec, OnlyOutcomesPostpone

\* A round never makes the next one due at once, unless a change was announced
\* after it started.
THEOREM CadenceCools == Spec => NoHotLoop
<1>1. Inv /\ [Next]_vars =>
        [\A a \in Actors :
           Note(a) /\ cadence.dirtySince <= round[a].started => ~IsDue(cadence', now)]_vars
  <2> SUFFICES ASSUME Inv, NEW a \in Actors, Note(a), cadence.dirtySince <= round[a].started
               PROVE  ~IsDue(cadence', now)
    OBVIOUS
  <2>1. /\ cadence' \in Cadences
        /\ now < cadence'.nextPoll
        /\ cadence'.dirtySince = Clean
    BY Types, OutcomeSetsPoll DEF Inv, Note
  <2>2. NextDue(cadence') = cadence'.nextPoll
    BY <2>1, NextDueBounds
  <2>3. now \in Nat /\ cadence'.nextPoll \in Nat
    BY <2>1, Types DEF Inv, Cadences
  <2> QED BY <2>1, <2>2, <2>3 DEF IsDue
<1> QED BY InvSafe, <1>1, PTL DEF Spec, NoHotLoop
=============================================================================
