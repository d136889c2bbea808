------------------------- MODULE TaskWatchdogProofs -------------------------
(***************************************************************************)
(* Proofs about TaskWatchdog for every set of tasks, number of slots,      *)
(* configuration, check interval, COP geometry and lateness of the runner  *)
(* that satisfy WatchdogAssumption.                                        *)
(*                                                                         *)
(* The argument: the COP's count is at least the awake time any task has   *)
(* been starved (a check that finds it so does not service the COP), and   *)
(* at most the time since the last service unless a check found a starved  *)
(* task.  The first bound gives ResetInTime, the second NoNeedlessReset.   *)
(***************************************************************************)
EXTENDS TaskWatchdog, TLAPS

WatchdogTypeOK ==
    /\ chip \in {"up", "panicked", "reset", "restarted"}
    /\ now \in Nat
    /\ tasks \in [Slots -> Tasks \cup {None}]
    /\ next_check \in Nat \cup {None}
    /\ asked \in HwTimeouts
    /\ en \in BOOLEAN /\ wp \in BOOLEAN
    /\ timeout \in Nat /\ count \in Nat
    /\ hungry \in [Slots -> Nat] /\ missed \in BOOLEAN

Running == chip = "up" /\ next_check # None

(* A starved task stays starved until it is fed, so the COP has counted all *)
(* the while.                                                               *)
HungerCounted ==
    Running => /\ count < Period
               /\ \A s \in Slots : /\ hungry[s] * Cycles <= count
                                   /\ hungry[s] > 0 => Starved(s)

(* next_check - Interval is no later than the last service.                 *)
ServedOnTime ==
    Running => /\ next_check <= now + Interval
               /\ ~missed => count <= (now + Interval - next_check) * Cycles

(* Nothing but start() turns the COP on.                                    *)
CopOffUntilStart == chip = "up" /\ next_check = None => ~en

WatchdogInv ==
    /\ WatchdogTypeOK
    /\ CopOffUntilStart
    /\ MonitoringIsArmed
    /\ HungerCounted
    /\ ServedOnTime
    /\ NoNeedlessReset
-----------------------------------------------------------------------------
(* Multiplication, for the prover. *)
LEMMA Products ==
    ASSUME NEW a \in Nat, NEW b \in Nat, NEW c \in Nat
    PROVE  /\ a * c \in Nat
           /\ (a + b) * c = a * c + b * c
           /\ a <= b => a * c <= b * c
           /\ a < b /\ c > 0 => a * c < b * c
    BY SMT

(* The time-out from_millis picks is never shorter than the one asked for. *)
LEMMA FromMillisCovers ==
    ASSUME NEW ms \in Nat, FromMillis(ms) # None
    PROVE  /\ FromMillis(ms) \in Nat
           /\ (FromMillis(ms) + 1) * Step >= ms * Cycles
           /\ (FromMillis(ms) + 1) * Step > 0
<1> DEFINE c == ms * Cycles
           steps == (c + Step - 1) \div Step
<1>1. c \in Nat /\ Step \in Nat /\ Step > 0
    BY Products, WatchdogAssumption
<1> HIDE DEF c
<1>2. /\ steps \in Nat
      /\ c + Step - 1 < steps * Step + Step
    BY <1>1, SMT
<1>3. FromMillis(ms) = IF steps = 0 THEN 0
                       ELSE IF steps > FIELD_MASK + 1 THEN None ELSE steps - 1
    BY Zenon DEF FromMillis, CeilDiv, c
<1> HIDE DEF steps
<1>4. CASE steps = 0
    <2>1. steps * Step = 0 /\ (0 + 1) * Step = Step
        BY <1>1, <1>4
    <2> QED
        BY <1>1, <1>2, <1>3, <1>4, <2>1 DEF c
<1>5. CASE steps # 0
    <2>1. FromMillis(ms) = steps - 1 /\ steps - 1 \in Nat
        BY <1>2, <1>3, <1>5
    <2>2. (steps - 1) + 1 = steps
        BY <1>2
    <2>3. steps * Step \in Nat /\ steps * Step >= Step
        BY <1>1, <1>2, <1>5, SMT
    <2>4. steps * Step >= c
        BY <1>1, <1>2, <2>3
    <2> QED
        BY <1>1, <2>1, <2>2, <2>3, <2>4 DEF c
<1> QED
    BY <1>4, <1>5

(* What Tasks are made of. *)
LEMMA TaskFacts ==
    ASSUME NEW task \in Tasks
    PROVE  /\ task # None
           /\ task.last_feed \in Nat /\ task.limit \in Nat
           /\ task.setup \in Nat \cup {None, Unbounded}
    BY WatchdogAssumption DEF Tasks, Setups, Durations

(* Task::is_starved stays true as time goes by. *)
LEMMA StarvedStays ==
    ASSUME NEW task \in Tasks, NEW t \in Nat, IsStarved(task, t)
    PROVE  IsStarved(task, t + 1)
    BY TaskFacts, WatchdogAssumption DEF IsStarved

(* A registered task is a well-formed slot. *)
LEMMA NewTaskType ==
    ASSUME WatchdogTypeOK, NEW id \in Ids, NEW c \in Configs
    PROVE  NewTask(id, c) \in Tasks
<1>1. c.timeout \in Nat /\ c.retries \in Nat /\ c.setup \in Setups
    BY WatchdogAssumption DEF Durations
<1>2. c.timeout * (c.retries + 1) \in Nat
    BY <1>1, SMT
<1>3. Smaller(c.timeout * (c.retries + 1), MaxDuration) \in Durations
    BY <1>2, WatchdogAssumption DEF Smaller, Durations
<1> QED
    BY <1>1, <1>3 DEF NewTask, Tasks, WatchdogTypeOK
-----------------------------------------------------------------------------
(* Before start the watchdog's invariant holds. *)
LEMMA WatchdogInit == Init => WatchdogInv
<1> SUFFICES ASSUME Init PROVE WatchdogInv
    OBVIOUS
<1>1. WatchdogTypeOK
    BY DEF Init, WatchdogTypeOK
<1>2. ~Running /\ chip = "up" /\ ~en
    BY DEF Init, Running
<1> QED
    BY <1>1, <1>2
    DEF WatchdogInv, MonitoringIsArmed, HungerCounted, ServedOnTime,
        NoNeedlessReset, CopOffUntilStart, Running

(* A slot gets another task, none, or its task fed: what its old task owed  *)
(* is forgotten, the other slots are as they were.                          *)
LEMMA PutStep ==
    ASSUME WatchdogInv, chip = "up", NEW s, NEW task \in Tasks \cup {None},
           Put(s, task),
           UNCHANGED <<chip, now, next_check, asked, cop, missed>>
    PROVE  WatchdogInv'
<1> USE DEF WatchdogInv
<1>1. WatchdogTypeOK'
    BY DEF WatchdogTypeOK, Put, cop
<1>2. Period' = Period /\ (Running' <=> Running)
    BY DEF Period, Running, cop
<1>3. HungerCounted'
    <2> SUFFICES ASSUME Running
                 PROVE  /\ count < Period
                        /\ \A r \in Slots : /\ hungry'[r] * Cycles <= count
                                            /\ hungry'[r] > 0 => Starved(r)'
        BY <1>2 DEF HungerCounted, cop
    <2>1. ASSUME NEW r \in Slots, r # s
          PROVE  hungry'[r] = hungry[r] /\ (Starved(r)' <=> Starved(r))
        BY <2>1 DEF Put, Starved, IsStarved, WatchdogTypeOK
    <2>2. ASSUME NEW r \in Slots, r = s
          PROVE  hungry'[r] = 0 /\ hungry'[r] * Cycles = 0
        BY <2>2, WatchdogAssumption DEF Put, WatchdogTypeOK
    <2> QED
        BY <2>1, <2>2 DEF HungerCounted, WatchdogTypeOK
<1>4. MonitoringIsArmed' /\ ServedOnTime' /\ NoNeedlessReset' /\ CopOffUntilStart'
    BY <1>2
    DEF MonitoringIsArmed, ServedOnTime, NoNeedlessReset, CopOffUntilStart, Running, cop
<1> QED
    BY <1>1, <1>3, <1>4

(* Registering a task keeps the invariant. *)
LEMMA RegisterTaskStep ==
    ASSUME WatchdogInv, NEW id \in Ids, NEW c \in Configs, RegisterTask(id, c)
    PROVE  WatchdogInv'
<1>1. NewTask(id, c) \in Tasks
    BY NewTaskType DEF WatchdogInv
<1>2. PICK s : Put(s, NewTask(id, c))
    BY DEF RegisterTask
<1> QED
    BY <1>1, <1>2, PutStep DEF RegisterTask

(* Deregistering a task keeps the invariant. *)
LEMMA DeregisterTaskStep ==
    ASSUME WatchdogInv, NEW id \in Ids, DeregisterTask(id)
    PROVE  WatchdogInv'
    BY PutStep DEF DeregisterTask

(* Feeding keeps the invariant. *)
LEMMA FeedStep ==
    ASSUME WatchdogInv, NEW id \in Ids, Feed(id)
    PROVE  WatchdogInv'
<1>1. PICK s \in SlotOf(id) : Put(s, [tasks[s] EXCEPT !.last_feed = now, !.setup = None])
    BY DEF Feed
<1>2. tasks[s] \in Tasks
    BY DEF SlotOf, WatchdogInv, WatchdogTypeOK
<1>3. [tasks[s] EXCEPT !.last_feed = now, !.setup = None] \in Tasks
    BY <1>2 DEF Tasks, Setups, WatchdogInv, WatchdogTypeOK
<1> QED
    BY <1>1, <1>3, PutStep DEF Feed

(* start() services the COP and forgets what the tasks owed. *)
LEMMA StartStep == WatchdogInv /\ Start => WatchdogInv'
<1> SUFFICES ASSUME WatchdogInv, Start PROVE WatchdogInv'
    OBVIOUS
<1> USE DEF WatchdogInv
<1>1. /\ asked \in Nat /\ Interval \in Nat /\ now \in Nat /\ Cycles \in Nat
      /\ timeout' = FromMillis(asked) /\ FromMillis(asked) # None
      /\ en' = TRUE /\ count' = 0 /\ asked' = asked /\ wp' = wp
      /\ chip' = "up" /\ now' = now /\ next_check' = now + Interval
    BY WatchdogAssumption DEF Start, CopStart, WatchdogTypeOK
<1>2. timeout' \in Nat /\ Period' >= asked * Cycles /\ Period' > 0
    BY <1>1, FromMillisCovers DEF Period
<1>3. Restarted \in [Slots -> Tasks \cup {None}]
    BY DEF Restarted, Tasks, WatchdogTypeOK
<1>4. WatchdogTypeOK'
    BY <1>1, <1>2, <1>3 DEF Start, WatchdogTypeOK
<1>5. HungerCounted'
    BY <1>1, <1>2 DEF HungerCounted, Start
<1>6. ServedOnTime'
    <2>1. now + Interval - (now + Interval) = 0 /\ 0 * Cycles = 0
        BY <1>1
    <2> QED
        BY <1>1, <2>1 DEF ServedOnTime
<1>7. MonitoringIsArmed' /\ NoNeedlessReset' /\ CopOffUntilStart'
    BY <1>1, <1>2, WatchdogAssumption
    DEF MonitoringIsArmed, NoNeedlessReset, CopOffUntilStart
<1> QED
    BY <1>4, <1>5, <1>6, <1>7

(* A start that panics changes no more than the panic. *)
LEMMA StartPanicsStep == WatchdogInv /\ StartPanics => WatchdogInv'
    BY DEF WatchdogInv, StartPanics, WatchdogTypeOK, MonitoringIsArmed,
           HungerCounted, ServedOnTime, NoNeedlessReset, CopOffUntilStart, Running, cop, hist

(* A check services the COP only with no task starved, no earlier than      *)
(* next_check.                                                              *)
LEMMA CheckTasksStep == WatchdogInv /\ CheckTasks => WatchdogInv'
<1> SUFFICES ASSUME WatchdogInv, CheckTasks PROVE WatchdogInv'
    OBVIOUS
<1> USE DEF WatchdogInv
<1>1. /\ Interval \in Nat /\ Cycles \in Nat /\ now \in Nat /\ next_check \in Nat
      /\ count \in Nat /\ chip = "up" /\ Running /\ now >= next_check
    BY WatchdogAssumption DEF CheckTasks, WatchdogTypeOK, Running
<1>2. Period' = Period /\ next_check' = next_check + Interval /\ next_check' # None
    BY <1>1, WatchdogAssumption DEF CheckTasks, Period
<1>3. WatchdogTypeOK'
    <2>1. count' \in Nat
        BY <1>1 DEF CheckTasks
    <2>2. missed' \in BOOLEAN
        BY Zenon DEF CheckTasks
    <2> QED
        BY <1>1, <1>2, <2>1, <2>2 DEF CheckTasks, WatchdogTypeOK
<1>4. \A s \in Slots : Starved(s)' <=> Starved(s)
    BY DEF CheckTasks, Starved
<1>5. HungerCounted'
    <2>1. CASE \E s \in Slots : Starved(s)
        BY <1>1, <1>2, <1>4, <2>1 DEF CheckTasks, HungerCounted
    <2>2. CASE ~\E s \in Slots : Starved(s)
        <3>1. \A s \in Slots : hungry[s] = 0
            BY <1>1, <2>2 DEF HungerCounted, WatchdogTypeOK
        <3>2. count' = 0 /\ hungry' = hungry
            BY <2>2, Zenon DEF CheckTasks
        <3>3. 0 * Cycles = 0
            BY <1>1
        <3>6. Period \in Nat
            BY Products, WatchdogAssumption DEF Period, WatchdogTypeOK
        <3>5. Period > 0
            BY <1>1, <3>6 DEF HungerCounted
        <3>4. \A s \in Slots : hungry'[s] * Cycles = 0 /\ ~(hungry'[s] > 0)
            BY <3>1, <3>2, <3>3
        <3> QED
            BY <1>2, <3>2, <3>4, <3>5 DEF HungerCounted
    <2> QED
        BY <2>1, <2>2
<1>6. ServedOnTime'
    <2>1. now + Interval - next_check' \in Nat
        BY <1>1, <1>2
    <2>2. ~missed' => count' = 0
        BY DEF CheckTasks
    <2>3. (now + Interval - next_check') * Cycles \in Nat
        BY <1>1, <2>1, Products
    <2> QED
        BY <1>1, <1>2, <2>2, <2>3 DEF CheckTasks, ServedOnTime
<1>7. MonitoringIsArmed' /\ NoNeedlessReset' /\ CopOffUntilStart'
    BY <1>1, <1>2
    DEF CheckTasks, MonitoringIsArmed, NoNeedlessReset, CopOffUntilStart
<1> QED
    BY <1>3, <1>5, <1>6, <1>7

(* Locking changes neither period nor count; a reset by software ends it.   *)
LEMMA LockStep == WatchdogInv /\ Lock => WatchdogInv'
    BY DEF WatchdogInv, Lock, WatchdogTypeOK, MonitoringIsArmed, HungerCounted,
           ServedOnTime, NoNeedlessReset, CopOffUntilStart, Running, Period, Starved, hist

(* A reset on request keeps the invariant. *)
LEMMA TriggerResetStep == WatchdogInv /\ TriggerReset => WatchdogInv'
    BY DEF WatchdogInv, TriggerReset, WatchdogTypeOK, MonitoringIsArmed,
           HungerCounted, ServedOnTime, NoNeedlessReset, CopOffUntilStart, Running, cop, hist
-----------------------------------------------------------------------------
(* A millisecond later a task that was starved still is. *)
LEMMA StillStarved ==
    ASSUME WatchdogTypeOK, NEW s \in Slots, Starved(s), tasks' = tasks, now' = now + 1
    PROVE  Starved(s)'
<1>1. tasks[s] \in Tasks
    BY DEF Starved, WatchdogTypeOK
<1>2. IsStarved(tasks[s], now + 1)
    BY <1>1, StarvedStays DEF Starved, WatchdogTypeOK
<1> QED
    BY <1>2 DEF Starved

(* The runner is late by at most MaxLate, so that a COP that was serviced   *)
(* does not reach its period before the next check is over.                 *)
LEMMA NoResetWhenServed ==
    ASSUME WatchdogInv, Running, ~missed, OnTime
    PROVE  count + Cycles < Period
<1>1. /\ Interval \in Nat /\ Cycles \in Nat /\ Cycles > 0 /\ MaxLate \in Nat
      /\ now \in Nat /\ next_check \in Nat /\ count \in Nat
      /\ asked \in Nat /\ Interval + MaxLate < asked
    BY WatchdogAssumption DEF WatchdogInv, WatchdogTypeOK, Running
<1> DEFINE d == now + Interval - next_check
<1>2. d \in Nat /\ d + 1 < asked
    BY <1>1 DEF WatchdogInv, ServedOnTime, OnTime, Running
<1>3. count <= d * Cycles
    BY DEF WatchdogInv, ServedOnTime
<1> HIDE DEF d
<1>4. /\ (d + 1) * Cycles = d * Cycles + 1 * Cycles
      /\ (d + 1) * Cycles < asked * Cycles
      /\ d * Cycles \in Nat /\ asked * Cycles \in Nat
    BY <1>1, <1>2, Products
<1>5. Period >= asked * Cycles
    BY DEF WatchdogInv, MonitoringIsArmed, Running
<1>6. Period \in Nat
    BY Products, WatchdogAssumption DEF Period, WatchdogInv, WatchdogTypeOK
<1> QED
    BY <1>1, <1>3, <1>4, <1>5, <1>6

(* A unit of time keeps the invariant: a starved task has the COP counting  *)
(* towards the reset.                                                       *)
LEMMA TickStep == WatchdogInv /\ Tick => WatchdogInv'
<1> SUFFICES ASSUME WatchdogInv, Tick PROVE WatchdogInv'
    OBVIOUS
<1> USE DEF WatchdogInv
<1>1. /\ Cycles \in Nat /\ Interval \in Nat /\ now \in Nat /\ count \in Nat
      /\ chip = "up" /\ now' = now + 1 /\ tasks' = tasks
    BY WatchdogAssumption DEF Tick, WatchdogTypeOK
<1>2. WatchdogTypeOK'
    BY <1>1 DEF Tick, WatchdogTypeOK
<1>3. Period' = Period /\ Period \in Nat /\ next_check' = next_check
    BY Products, WatchdogAssumption DEF Tick, Period, WatchdogTypeOK
<1>4. Running => en
    BY DEF MonitoringIsArmed, Running
<1>5. HungerCounted'
    <2> SUFFICES ASSUME Running'
                 PROVE  /\ count' < Period
                        /\ \A s \in Slots : /\ hungry'[s] * Cycles <= count'
                                            /\ hungry'[s] > 0 => Starved(s)'
        BY <1>3 DEF HungerCounted
    <2>1. Running /\ en /\ count' = count + Cycles /\ count' < Period
        BY <1>1, <1>3, <1>4 DEF Tick, Running
    <2>2. ASSUME NEW s \in Slots, Starved(s)
          PROVE  hungry'[s] * Cycles <= count' /\ Starved(s)'
        <3>1. hungry[s] \in Nat /\ hungry'[s] = hungry[s] + 1
            BY <2>2 DEF Tick, WatchdogTypeOK
        <3>2. (hungry[s] + 1) * Cycles = hungry[s] * Cycles + 1 * Cycles
            BY <1>1, <3>1, Products
        <3>3. hungry[s] * Cycles <= count /\ hungry[s] * Cycles \in Nat
            BY <1>1, <2>1, <3>1, Products DEF HungerCounted
        <3> QED
            BY <1>1, <2>1, <2>2, <3>1, <3>2, <3>3, StillStarved
    <2>3. ASSUME NEW s \in Slots, ~Starved(s)
          PROVE  hungry'[s] = 0 /\ hungry'[s] * Cycles <= count'
        <3>1. hungry[s] = 0 /\ hungry'[s] = hungry[s] /\ 0 * Cycles = 0
            BY <1>1, <2>1, <2>3 DEF Tick, WatchdogTypeOK, HungerCounted
        <3> QED
            BY <1>1, <2>1, <3>1
    <2> QED
        BY <2>1, <2>2, <2>3
<1>6. ServedOnTime'
    <2> SUFFICES ASSUME Running'
                 PROVE  /\ next_check <= now + 1 + Interval
                        /\ ~missed => count' <= (now + 1 + Interval - next_check) * Cycles
        BY <1>1, <1>3 DEF ServedOnTime, Tick
    <2>1. Running /\ count' = count + Cycles /\ next_check \in Nat
        BY <1>1, <1>3, <1>4 DEF Tick, Running, WatchdogTypeOK
    <2> DEFINE d == now + Interval - next_check
    <2>2. d \in Nat /\ now + 1 + Interval - next_check = d + 1
        BY <1>1, <2>1 DEF ServedOnTime
    <2>3. ~missed => count <= d * Cycles
        BY <2>1 DEF ServedOnTime
    <2> HIDE DEF d
    <2>4. (d + 1) * Cycles = d * Cycles + 1 * Cycles /\ d * Cycles \in Nat
        BY <1>1, <2>2, Products
    <2>5. ~missed => count' <= (d + 1) * Cycles
        BY <1>1, <2>1, <2>3, <2>4
    <2> QED
        BY <1>1, <2>1, <2>2, <2>5 DEF ServedOnTime
<1>7. MonitoringIsArmed' /\ CopOffUntilStart'
    BY <1>3, <1>4 DEF MonitoringIsArmed, CopOffUntilStart, Tick, Running
<1>8. NoNeedlessReset'
    <2> SUFFICES ASSUME chip' = "reset", ~missed PROVE FALSE
        BY DEF NoNeedlessReset, Tick
    <2>1. en /\ count + Cycles >= Period
        BY <1>1 DEF Tick
    <2>2. CASE Running
        BY <1>1, <1>3, <2>1, <2>2, NoResetWhenServed DEF Tick
    <2>3. CASE ~Running
        BY <1>1, <2>1, <2>3 DEF CopOffUntilStart, Running
    <2> QED
        BY <2>2, <2>3
<1> QED
    BY <1>2, <1>5, <1>6, <1>7, <1>8

(* A millisecond of Doze only gives the COP more time. *)
LEMMA DozeStep == WatchdogInv /\ Doze => WatchdogInv'
<1> SUFFICES ASSUME WatchdogInv, Doze PROVE WatchdogInv'
    OBVIOUS
<1> USE DEF WatchdogInv
<1>1. /\ Cycles \in Nat /\ Interval \in Nat /\ now \in Nat /\ count \in Nat
      /\ now' = now + 1 /\ tasks' = tasks /\ Period' = Period
      /\ (Running' <=> Running)
    BY WatchdogAssumption DEF Doze, WatchdogTypeOK, Period, Running, cop
<1>2. WatchdogTypeOK'
    BY <1>1 DEF Doze, WatchdogTypeOK, cop, hist
<1>3. HungerCounted'
    BY <1>1, StillStarved DEF HungerCounted, Doze, cop, hist
<1>4. ServedOnTime'
    <2> SUFFICES ASSUME Running
                 PROVE  /\ next_check <= now + 1 + Interval
                        /\ ~missed => count <= (now + 1 + Interval - next_check) * Cycles
        BY <1>1 DEF ServedOnTime, Doze, cop, hist
    <2> DEFINE d == now + Interval - next_check
    <2>1. d \in Nat /\ now + 1 + Interval - next_check = d + 1 /\ next_check \in Nat
        BY <1>1 DEF ServedOnTime, Running, WatchdogTypeOK
    <2>2. ~missed => count <= d * Cycles
        BY DEF ServedOnTime
    <2> HIDE DEF d
    <2>3. (d + 1) * Cycles = d * Cycles + 1 * Cycles /\ d * Cycles \in Nat
        BY <1>1, <2>1, Products
    <2>4. ~missed => count <= (d + 1) * Cycles
        BY <1>1, <2>2, <2>3
    <2> QED
        BY <1>1, <2>1, <2>4 DEF ServedOnTime
<1>5. MonitoringIsArmed' /\ NoNeedlessReset' /\ CopOffUntilStart'
    BY <1>1 DEF MonitoringIsArmed, NoNeedlessReset, CopOffUntilStart, Doze, cop, hist
<1> QED
    BY <1>2, <1>3, <1>4, <1>5
-----------------------------------------------------------------------------
(* The invariant is inductive: one step per action of Next. *)
THEOREM WatchdogInvariance == Spec => []WatchdogInv
<1>1. WatchdogInv /\ [Next]_vars => WatchdogInv'
    <2> SUFFICES ASSUME WatchdogInv, [Next]_vars PROVE WatchdogInv'
        OBVIOUS
    <2>1. CASE \E id \in Ids, c \in Configs : RegisterTask(id, c)
        BY <2>1, RegisterTaskStep
    <2>2. CASE \E id \in Ids : DeregisterTask(id) \/ Feed(id)
        BY <2>2, DeregisterTaskStep, FeedStep
    <2>3. CASE Start \/ StartPanics \/ CheckTasks
        BY <2>3, StartStep, StartPanicsStep, CheckTasksStep
    <2>4. CASE Lock \/ TriggerReset
        BY <2>4, LockStep, TriggerResetStep
    <2>5. CASE Tick \/ Doze
        BY <2>5, TickStep, DozeStep
    <2>6. CASE UNCHANGED vars
        BY <2>6
        DEF vars, cop, hist, WatchdogInv, WatchdogTypeOK, MonitoringIsArmed,
            HungerCounted, ServedOnTime, NoNeedlessReset, CopOffUntilStart,
            Running, Period, Starved
    <2> QED
        BY <2>1, <2>2, <2>3, <2>4, <2>5, <2>6 DEF Next
<1> QED
    BY <1>1, WatchdogInit, PTL DEF Spec

(* The table of tasks and the COP's registers keep their types.             *)
THEOREM WatchdogTypeCorrect == Spec => []WatchdogTypeOK
    BY WatchdogInvariance, PTL DEF WatchdogInv

(* No task stays starved for a COP period of awake time with the chip up,   *)
(* for every number of tasks and slots and every geometry of the COP.       *)
THEOREM ResetsInTime == Spec => []ResetInTime
<1>1. WatchdogInv => ResetInTime
    <2> SUFFICES ASSUME WatchdogInv, Running, NEW s \in Slots
                 PROVE  hungry[s] * Cycles < Period
        BY DEF ResetInTime, Running
    <2>1. hungry[s] * Cycles \in Nat /\ Period \in Nat /\ count \in Nat
        BY Products, WatchdogAssumption DEF WatchdogInv, WatchdogTypeOK, Period
    <2> QED
        BY <2>1 DEF WatchdogInv, HungerCounted
<1> QED
    BY <1>1, WatchdogInvariance, PTL

(* Every reset by the COP follows a check that found a task starved: the    *)
(* rounding of the time-out and checks up to MaxLate late cause none.       *)
THEOREM ResetsAreNeeded == Spec => []NoNeedlessReset
    BY WatchdogInvariance, PTL DEF WatchdogInv

(* While the runner runs the COP runs, with no less than the time-out asked *)
(* for.                                                                     *)
THEOREM MonitoringStaysArmed == Spec => []MonitoringIsArmed
    BY WatchdogInvariance, PTL DEF WatchdogInv
=============================================================================
