------------------------ MODULE SleepyExecutorProofs ------------------------
(***************************************************************************)
(* Proofs about SleepyExecutor, for every counter width, period, sleep     *)
(* timer and delay that satisfy its assumptions.                           *)
(*                                                                         *)
(* The invariant has four parts: types, what PENDED says of the run queue, *)
(* the driver's registers (TimeDriverProofs!IInv without the exact clock,  *)
(* which a sleep gives up), and what tasks have seen of the time.          *)
(***************************************************************************)
EXTENDS SleepyExecutor, TimeDriverProofs, FiniteSetTheorems

ExecTypeOK ==
    /\ pc \in {"boot", "clear", "poll", "run", "decide", "program", "sync",
               "doze", "restarted", "sampled", "rearm"}
    /\ pended \in BOOLEAN
    /\ batch \in SUBSET Tasks /\ cur \in Tasks \cup {None}
    /\ waiting \in SUBSET Tasks /\ inflight \in SUBSET Tasks
    /\ wu_timeout \in Nat /\ snap \in Nat /\ slept \in Nat
    /\ sampled \in Word /\ lag \in 0..MaxLag
    /\ seen \in Nat /\ sleeps \in Nat

(* From the decision to the resync. *)
Asleep == Critical /\ pc # "rearm"

(* A task that was woken since poll() took the run queue has set PENDED, so *)
(* a decision that finds it clear finds the run queue empty.                *)
PendedCovers ==
    /\ batch \subseteq woken
    /\ pc \in {"run", "decide"} /\ woken \ batch # {} => pended
    /\ pc = "decide" => batch = {}
    /\ Asleep => woken = {} /\ waiting = {} /\ isr = "idle" /\ next_alarm # None

(* Before run(), the clock stands at zero; after the restart TMR0 has       *)
(* counted no more than lag, which no compare interrupts.                   *)
SleepShape ==
    /\ pc = "boot" => /\ ~tcf1 /\ isr = "idle" /\ base = 0 /\ Phase = 0
                      /\ elapsed = 0 /\ seen = 0 /\ sleeps = 0 /\ inflight = {}
    /\ ~started => pc = "boot"
    /\ pc \in {"restarted", "sampled"} =>
          /\ last_boundary = 0 /\ cntr <= lag /\ ~tcf1 /\ held = 0
          /\ slept <= wu_timeout * COUNTS_PER_DOZE_TICK + MaxWakeUp + lag
    /\ pc = "sampled" => sampled <= cntr

(* The distance to the boundary: what the resync leaves above a period      *)
(* comes on top until the re-arm has caught up.                             *)
RearmSlack == IF isr \in {"arm", "check"} THEN lag ELSE 0

ResyncBound == Backlog => Phase <= PERIOD + held + RearmSlack

DriverInv ==
    /\ TypeOK
    /\ NextTickArmed
    /\ HandlerArmed
    /\ ResyncBound
    /\ AlarmSound

(* What a task has seen is no later than the clock, or, while TMR0 is       *)
(* stopped, than the snapshot the resync starts from.                       *)
SeenBefore ==
    seen * PERIOD <= IF ClockStopped THEN base * PERIOD + snap ELSE Clock

ExecInv ==
    /\ ExecTypeOK
    /\ PendedCovers
    /\ SleepShape
    /\ DriverInv
    /\ SeenBefore
-----------------------------------------------------------------------------
(* The registers and everything computed from them stay as they are. *)
ClockKept == UNCHANGED <<started, tmr, clock, isr, elapsed, held>>

(* What follows from the clock when it is left alone. *)
LEMMA KeptFacts ==
    ASSUME ClockKept
    PROVE  /\ Phase' = Phase /\ Now' = Now /\ Clock' = Clock /\ Backlog' = Backlog
           /\ started' = started /\ cntr' = cntr /\ comp1' = comp1 /\ tcf1' = tcf1
           /\ base' = base /\ last_boundary' = last_boundary
           /\ isr' = isr /\ elapsed' = elapsed /\ held' = held
    BY DEF ClockKept, tmr, clock, Phase, Now, Clock, Backlog

(* Registers, queue and alarm kept: the driver's part stays. *)
LEMMA DriverKept ==
    ASSUME DriverInv, ClockKept, UNCHANGED <<queue, next_alarm, due>>,
           woken' \in SUBSET Tasks, lag' = lag \/ isr = "idle"
    PROVE  DriverInv'
<1>1. /\ Phase' = Phase /\ Backlog' = Backlog
      /\ started' = started /\ cntr' = cntr /\ comp1' = comp1 /\ tcf1' = tcf1
      /\ base' = base /\ last_boundary' = last_boundary
      /\ isr' = isr /\ elapsed' = elapsed /\ held' = held
    BY KeptFacts
<1>2. TypeOK'
    BY <1>1 DEF DriverInv, TypeOK
<1>3. NextTickArmed' /\ HandlerArmed' /\ AlarmSound'
    BY <1>1 DEF DriverInv, NextTickArmed, HandlerArmed, AlarmSound, Queued
<1>4. ResyncBound'
    BY <1>1 DEF DriverInv, ResyncBound, RearmSlack
<1> QED
    BY <1>2, <1>3, <1>4 DEF DriverInv

(* Time seen stays in the past when neither clock nor snapshot move. *)
LEMMA SeenKept ==
    ASSUME SeenBefore, ClockKept, seen' = seen, snap' = snap \/ ~ClockStopped',
           ClockStopped' = ClockStopped
    PROVE  SeenBefore'
    BY KeptFacts DEF SeenBefore

(* now() covers what was seen iff the clock does. *)
LEMMA SeenNow ==
    ASSUME TypeOK, seen \in Nat
    PROVE  /\ seen <= Now <=> seen * PERIOD <= Clock
           /\ Now * PERIOD <= Clock /\ Clock < Now * PERIOD + PERIOD
           /\ Clock \in Nat /\ Now \in Nat /\ Now * PERIOD \in Nat
<1> DEFINE q == Phase \div PERIOD
<1>0. Phase \in Nat /\ PERIOD \in Nat \ {0}
    BY PhaseType, TimeDriverAssumption
<1>1. /\ q \in Nat /\ q * PERIOD <= Phase /\ Phase < q * PERIOD + PERIOD /\ Phase \in Nat
      /\ base \in Nat /\ PERIOD \in Nat /\ PERIOD > 0
    BY <1>0, DivFacts DEF TypeOK
<1>2. Now = base + q
    BY DEF Now
<1> HIDE DEF q
<1>3. /\ (base + q) * PERIOD = base * PERIOD + q * PERIOD
      /\ base * PERIOD \in Nat /\ q * PERIOD \in Nat /\ seen * PERIOD \in Nat
    BY <1>1, MulFacts
<1>4. /\ Now * PERIOD <= Clock /\ Clock < Now * PERIOD + PERIOD
      /\ Clock \in Nat /\ Now \in Nat /\ Now * PERIOD \in Nat
    BY <1>1, <1>2, <1>3 DEF Clock
<1>5. seen <= Now => seen * PERIOD <= Now * PERIOD
    BY <1>1, <1>4, MulFacts
<1>6. Now < seen => (Now + 1) * PERIOD <= seen * PERIOD /\ (Now + 1) * PERIOD = Now * PERIOD + 1 * PERIOD
    BY <1>1, <1>4, MulFacts
<1> QED
    BY <1>1, <1>3, <1>4, <1>5, <1>6
-----------------------------------------------------------------------------
(* Before init() the executor's invariant holds. *)
LEMMA ExecInitInv == ExecInit => ExecInv
<1> SUFFICES ASSUME ExecInit PROVE ExecInv
    OBVIOUS
<1> USE DEF ExecInit
<1>1. IInv
    BY InitIInv
<1>2. 0 \in Word /\ 0 \in 0..MaxLag
    BY TimeDriverAssumption, SleepyExecutorAssumption DEF Word
<1>3. ExecTypeOK
    BY <1>2 DEF ExecTypeOK
<1>4. PendedCovers /\ SleepShape
    BY DEF Init, PendedCovers, SleepShape, Asleep, Critical, Phase, WSub
<1>5. DriverInv
    BY <1>1 DEF IInv, DriverInv, ResyncBound, Init, Backlog
<1>6. SeenBefore
    BY <1>1, SeenNow, TimeDriverAssumption DEF IInv, Init, SeenBefore, ClockStopped
<1> QED
    BY <1>3, <1>4, <1>5, <1>6 DEF ExecInv

(* The steps of the run loop leave the driver alone, and what they read of  *)
(* the time is now().                                                       *)
LEMMA LoopKeeps ==
    ASSUME ExecInv, ClockKept, isr = "idle", UNCHANGED <<queue, next_alarm, due>>,
           woken' \in SUBSET Tasks, ~ClockStopped, ~ClockStopped',
           started, pc' # "boot", seen' \in {seen, Now}
    PROVE  SleepShape' /\ DriverInv' /\ SeenBefore'
<1>1. DriverInv'
    BY DriverKept DEF ExecInv
<1>2. SleepShape'
    BY KeptFacts DEF SleepShape, ClockStopped
<1>3. TypeOK /\ seen * PERIOD <= Clock /\ Now * PERIOD <= Clock
    BY SeenNow DEF ExecInv, DriverInv, SeenBefore, ExecTypeOK
<1>4. SeenBefore'
    BY <1>3, KeptFacts DEF SeenBefore
<1> QED
    BY <1>1, <1>2, <1>4

(* Starting the time driver and the executor keeps the invariant. *)
LEMMA BootStep == ExecInv /\ Boot => ExecInv'
<1> SUFFICES ASSUME ExecInv, Boot PROVE ExecInv'
    OBVIOUS
<1> USE DEF ExecInv
<1>1. CASE InitDriver /\ UNCHANGED execVars
    <2>1. 0 \in Word /\ WAdd(0, PERIOD) \in Word
        BY TimeDriverAssumption DEF Word, WAdd
    <2>2. TypeOK'
        BY <1>1, <2>1 DEF DriverInv, TypeOK, Word, InitDriver, ConfigureTmr0, timers
    <2>3. pc = "boot" /\ Phase' = 0 /\ Phase = 0 /\ ~Backlog /\ ~Backlog' /\ base' = base
        BY <1>1 DEF Boot, InitDriver, ConfigureTmr0, Phase, WSub, Backlog, SleepShape
    <2>4. NextTickArmed' /\ HandlerArmed' /\ ResyncBound'
        BY <1>1, <2>3, TimeDriverAssumption
        DEF InitDriver, ConfigureTmr0, NextTickArmed, HandlerArmed, ResyncBound, Backlog
    <2>5. AlarmSound'
        BY <1>1 DEF InitDriver, timers, DriverInv, AlarmSound, Queued
    <2>6. ExecTypeOK' /\ PendedCovers'
        BY <1>1 DEF InitDriver, timers, execVars, loop, waits, doze, ExecTypeOK,
                    PendedCovers, Asleep, Critical
    <2>7. SleepShape'
        BY <1>1, <2>3 DEF Boot, SleepShape, InitDriver, ConfigureTmr0, execVars, loop, waits, doze
    <2>8. SeenBefore'
        BY <1>1, <2>3 DEF Boot, SeenBefore, ClockStopped, Clock, execVars, loop, doze
    <2> QED
        BY <2>2, <2>4, <2>5, <2>6, <2>7, <2>8 DEF DriverInv
<1>2. CASE started /\ pc' = "clear" /\ pended' = TRUE /\ woken' = Tasks
    <2>1. ClockKept /\ isr = "idle" /\ UNCHANGED <<queue, next_alarm, due, batch>> /\ seen' = seen
        BY <1>2 DEF Boot, ClockKept, SleepShape, InitDriver, tmr, clock
    <2>2. ExecTypeOK'
        BY <1>2 DEF Boot, ExecTypeOK, waits, doze, InitDriver
    <2>3. PendedCovers'
        BY <1>2, <2>1 DEF PendedCovers, Asleep, Critical, ExecTypeOK
    <2>4. SleepShape' /\ DriverInv' /\ SeenBefore'
        BY <1>2, <2>1, LoopKeeps DEF Boot, ClockStopped
    <2> QED
        BY <2>2, <2>3, <2>4
<1> QED
    BY <1>1, <1>2 DEF Boot

(* A peripheral interrupt, which pends and queues a task, keeps the         *)
(* invariant.                                                               *)
LEMMA PeripheralInterruptStep ==
    ASSUME ExecInv, NEW t \in Tasks, PeripheralInterrupt(t)
    PROVE  ExecInv'
<1> USE DEF ExecInv
<1>1. pc # "boot" /\ ~Critical /\ pc' = pc
    BY DEF PeripheralInterrupt, SleepShape
<1>2. /\ ClockKept /\ UNCHANGED <<queue, next_alarm, due>> /\ isr = "idle"
      /\ seen' = seen /\ started
    BY <1>1 DEF PeripheralInterrupt, ClockKept, SleepShape, tmr, clock
<1>3. woken' = woken \cup {t} /\ woken' \in SUBSET Tasks
    BY DEF PeripheralInterrupt, DriverInv, TypeOK
<1>4. SleepShape' /\ DriverInv' /\ SeenBefore'
    BY <1>1, <1>2, <1>3, LoopKeeps DEF ClockStopped, Critical
<1>5. ExecTypeOK'
    BY <1>1 DEF PeripheralInterrupt, ExecTypeOK, doze, Pend, PendIfEmpty
<1>6. PendedCovers'
    BY <1>1, <1>3, Zenon DEF PeripheralInterrupt, PendedCovers, Pend, PendIfEmpty, Asleep, Critical
<1> QED
    BY <1>4, <1>5, <1>6

(* Waking more tasks leaves PENDED's promise intact when Pend goes with it. *)
LEMMA WakeCovered ==
    ASSUME PendedCovers, Pend, woken \subseteq woken', ~Asleep', UNCHANGED <<pc, batch>>
    PROVE  PendedCovers'
<1>1. pended => pended'
    BY DEF Pend
<1>2. ASSUME pc \in {"run", "decide"}, woken' \ batch # {} PROVE pended'
    <2>1. CASE woken \ batch # {}
        BY <1>1, <1>2, <2>1 DEF PendedCovers
    <2>2. CASE woken \ batch = {}
        <3>1. woken' \ woken # {}
            BY <1>2, <2>2 DEF PendedCovers
        <3> QED
            BY <2>2, <3>1 DEF Pend, PendIfEmpty
    <2> QED
        BY <2>1, <2>2
<1>3. batch' \subseteq woken' /\ (pc' = "decide" => batch' = {})
    BY DEF PendedCovers
<1> QED
    BY <1>2, <1>3 DEF PendedCovers

(* The steps of the poll loop. *)
LEMMA PollLoopStep == ExecInv /\ PollLoop => ExecInv'
<1> SUFFICES ASSUME ExecInv, PollLoop PROVE ExecInv'
    OBVIOUS
<1> USE DEF ExecInv
<1>1. CASE ClearPended \/ Poll \/ PollEnd \/ PollTaskEnd
    <2>1. /\ ClockKept /\ UNCHANGED <<queue, next_alarm, due, woken>> /\ isr = "idle"
          /\ seen' = seen /\ started /\ ~ClockStopped /\ ~ClockStopped' /\ pc' # "boot"
        BY <1>1 DEF ClearPended, Poll, PollEnd, PollTaskEnd, ClockKept, SleepShape,
                    ClockStopped, vars, timers
    <2>2. SleepShape' /\ DriverInv' /\ SeenBefore'
        BY <2>1, LoopKeeps DEF DriverInv, TypeOK
    <2>3. ExecTypeOK' /\ PendedCovers'
        BY <1>1, <2>1 DEF ClearPended, Poll, PollEnd, PollTaskEnd, ExecTypeOK, DriverInv, TypeOK,
                    waits, doze, PendedCovers, Asleep, Critical
    <2> QED
        BY <2>2, <2>3
<1>2. ASSUME NEW t \in Tasks, PollTaskBegin(t) PROVE ExecInv'
    <2>1. /\ ClockKept /\ UNCHANGED <<queue, next_alarm, due>> /\ isr = "idle"
          /\ seen' = Now /\ started /\ ~ClockStopped /\ ~ClockStopped' /\ pc' # "boot"
        BY <1>2 DEF PollTaskBegin, ClockKept, SleepShape, ClockStopped, tmr, clock
    <2>2. woken' \in SUBSET Tasks /\ woken' = woken \ {t} /\ batch' = batch \ {t} /\ t \in batch
        BY <1>2 DEF PollTaskBegin, DriverInv, TypeOK
    <2>3. SleepShape' /\ DriverInv' /\ SeenBefore'
        BY <2>1, <2>2, LoopKeeps
    <2>4. ExecTypeOK'
        BY <1>2, <2>1, PhaseType DEF PollTaskBegin, ExecTypeOK, waits, doze, DriverInv
    <2>5. PendedCovers'
        BY <1>2, <2>2 DEF PollTaskBegin, PendedCovers, Asleep, Critical
    <2> QED
        BY <2>3, <2>4, <2>5
<1>3. CASE Decide
    <2>1. /\ ClockKept /\ UNCHANGED <<queue, next_alarm, due, woken>> /\ isr = "idle"
          /\ seen' = seen /\ started /\ ~ClockStopped /\ ~ClockStopped' /\ pc' # "boot"
        BY <1>3 DEF Decide, ClockKept, SleepShape, ClockStopped, vars, timers
    <2>2. SleepShape' /\ DriverInv' /\ SeenBefore'
        BY <2>1, LoopKeeps DEF DriverInv, TypeOK
    <2>3. ExecTypeOK'
        BY <1>3 DEF Decide, ExecTypeOK, waits, doze
    <2>4. CASE WorthSleeping
        <3>1. woken = {}
            BY <1>3, <2>4 DEF Decide, WorthSleeping, PendedCovers
        <3>2. waiting = {}
            <4>1. IsFiniteSet(waiting)
                BY FS_Subset, TimeDriverAssumption DEF ExecTypeOK
            <4> QED
                BY <2>4, <4>1, FS_EmptySet DEF WorthSleeping, InhibitCount
        <3> QED
            BY <1>3, <2>1, <2>2, <2>3, <3>1, <3>2
            DEF Decide, PendedCovers, Asleep, Critical, ClockKept, waits, WorthSleeping
    <2>5. CASE ~WorthSleeping
        BY <1>3, <2>1, <2>2, <2>3, <2>5 DEF Decide, PendedCovers, Asleep, Critical, ClockKept
    <2> QED
        BY <2>4, <2>5
<1> QED
    BY <1>1, <1>2, <1>3 DEF PollLoop

(* What a task does in its poll. *)
LEMMA AwaitPeripheralStep == ExecInv /\ AwaitPeripheral => ExecInv'
<1> SUFFICES ASSUME ExecInv, AwaitPeripheral PROVE ExecInv'
    OBVIOUS
<1> USE DEF ExecInv
<1>1. /\ ClockKept /\ UNCHANGED <<queue, next_alarm, due, woken>> /\ isr = "idle"
      /\ seen' = seen /\ started /\ ~ClockStopped /\ ~ClockStopped' /\ pc' # "boot"
    BY DEF AwaitPeripheral, ClockKept, SleepShape, ClockStopped, vars, timers, loop
<1>2. SleepShape' /\ DriverInv' /\ SeenBefore'
    BY <1>1, LoopKeeps DEF DriverInv, TypeOK
<1>3. ExecTypeOK' /\ PendedCovers'
    BY <1>1 DEF AwaitPeripheral, loop, doze, ExecTypeOK, PendedCovers, Asleep, Critical
<1> QED
    BY <1>2, <1>3

(* A poll that returns without a timer keeps the invariant. *)
LEMMA YieldStep == ExecInv /\ Yield => ExecInv'
<1> SUFFICES ASSUME ExecInv, Yield PROVE ExecInv'
    OBVIOUS
<1> USE DEF ExecInv
<1>1. /\ ClockKept /\ UNCHANGED <<queue, next_alarm, due>> /\ isr = "idle"
      /\ seen' = seen /\ started /\ ~ClockStopped /\ ~ClockStopped' /\ pc' # "boot"
    BY DEF Yield, ClockKept, SleepShape, ClockStopped, tmr, clock
<1>2. woken \subseteq woken' /\ woken' \in SUBSET Tasks
    BY DEF Yield, DriverInv, TypeOK, ExecTypeOK
<1>3. SleepShape' /\ DriverInv' /\ SeenBefore'
    BY <1>1, <1>2, LoopKeeps
<1>4. PendedCovers'
    BY <1>2, WakeCovered DEF Yield, Asleep, Critical
<1>5. ExecTypeOK'
    BY DEF Yield, ExecTypeOK, waits, doze, Pend, PendIfEmpty
<1> QED
    BY <1>3, <1>4, <1>5

(* A poll that sets a timer keeps the invariant. *)
LEMMA AwaitTimerStep == ExecInv /\ AwaitTimer => ExecInv'
<1> SUFFICES ASSUME ExecInv, AwaitTimer PROVE ExecInv'
    OBVIOUS
<1> USE DEF ExecInv
<1>1. PICK at \in Now..MaxAt : ScheduleWake(cur, at)
    BY DEF AwaitTimer
<1>2. cur \in Tasks /\ at \in Nat /\ at # None
    BY PhaseType, TimeDriverAssumption DEF AwaitTimer, ExecTypeOK, DriverInv
<1>3. /\ ClockKept /\ isr = "idle" /\ UNCHANGED <<pc, batch, cur, waits, doze, seen>>
      /\ pc = "run" /\ started
    BY <1>1 DEF AwaitTimer, ScheduleWake, ClockKept, SleepShape, tmr, clock
<1>4. next_alarm' \in Nat /\ next_alarm' <= at
      /\ (next_alarm # None => next_alarm' <= next_alarm)
    BY <1>1, <1>2, TimeDriverAssumption DEF ScheduleWake, Sooner, DriverInv, TypeOK
<1> DEFINE tick == Later(at, Now + 1)
<1>5. tick \in Nat
    BY <1>2, PhaseType DEF Later, DriverInv
<1> HIDE DEF tick
(* An entry that is there afterwards was there, or is the task's new one. *)
<1>6. /\ queue' \in [Tasks -> Nat \cup {None}] /\ due' \in [Tasks -> Nat]
      /\ woken \subseteq woken' /\ woken' \in SUBSET Tasks
      /\ \A u \in Queued' : \/ u \in Queued /\ queue'[u] = queue[u]
                            \/ u = cur /\ queue'[u] = at
    <2> USE DEF DriverInv
    <2>1. CASE /\ OweWake(cur, at) /\ queue[cur] # None
               /\ queue' = [queue EXCEPT ![cur] = Sooner(@, at)] /\ UNCHANGED woken
        BY <1>2, <1>5, <2>1, TimeDriverAssumption DEF OweWake, Queued, Sooner, TypeOK, tick
    <2>2. CASE /\ OweWake(cur, at) /\ queue[cur] = None
               /\ queue' = [queue EXCEPT ![cur] = at] /\ UNCHANGED woken
        BY <1>2, <1>5, <2>2, TimeDriverAssumption DEF OweWake, Queued, TypeOK, tick
    <2>3. CASE /\ OweWake(cur, at) /\ queue[cur] = None
               /\ \E v \in Queued : /\ queue' = [queue EXCEPT ![v] = None, ![cur] = at]
                                    /\ woken' = woken \cup {v}
        BY <1>2, <1>5, <2>3, TimeDriverAssumption DEF OweWake, Queued, TypeOK, tick
    <2>4. CASE woken' = woken \cup {cur} /\ UNCHANGED <<queue, due>>
        BY <1>2, <2>4 DEF Queued, TypeOK
    <2> QED
        BY <1>1, <2>1, <2>2, <2>3, <2>4 DEF ScheduleWake, QueueScheduleWake
<1>7. TypeOK'
    BY <1>3, <1>4, <1>6 DEF TypeOK, DriverInv, ClockKept, clock, tmr
<1>8. AlarmSound'
    <2> SUFFICES ASSUME NEW u \in Queued'
                 PROVE  next_alarm' # None /\ next_alarm' <= queue'[u]
        BY DEF AlarmSound
    <2>1. CASE u \in Queued /\ queue'[u] = queue[u]
        <3>1. next_alarm # None /\ next_alarm <= queue[u] /\ queue[u] \in Nat /\ next_alarm \in Nat
            BY <2>1 DEF DriverInv, AlarmSound, TypeOK, Queued
        <3> QED
            BY <1>4, <2>1, <3>1, TimeDriverAssumption
    <2> QED
        BY <1>2, <1>4, <1>6, <2>1, TimeDriverAssumption
<1>9. NextTickArmed' /\ HandlerArmed' /\ ResyncBound'
    BY <1>3, KeptFacts DEF DriverInv, NextTickArmed, HandlerArmed, ResyncBound, RearmSlack, doze
<1>10. SleepShape' /\ SeenBefore'
    BY <1>3, KeptFacts DEF SleepShape, SeenBefore, ClockStopped
<1>11. PendedCovers'
    BY <1>3, <1>6, WakeCovered DEF AwaitTimer, Asleep, Critical
<1>12. ExecTypeOK'
    BY <1>3 DEF AwaitTimer, ExecTypeOK, waits, doze, Pend, PendIfEmpty
<1> QED
    BY <1>7, <1>8, <1>9, <1>10, <1>11, <1>12 DEF DriverInv
-----------------------------------------------------------------------------
(* The interrupt handler, and the part of it that the resync shares: it     *)
(* runs outside of the sleep, and the time it computes does not go back.    *)
LEMMA HandlerKeeps ==
    ASSUME ExecInv, isr # "idle" \/ tcf1, ~Asleep, UNCHANGED <<pc, batch, cur, waits, doze, seen>>,
           started' = started, Clock' = Clock
    PROVE  SleepShape' /\ SeenBefore' /\ started /\ ~ClockStopped
<1>1. pc # "boot" /\ started /\ ~ClockStopped /\ ~ClockStopped'
    BY DEF ExecInv, SleepShape, Asleep, ClockStopped, Critical
<1> QED
    BY <1>1 DEF ExecInv, SleepShape, SeenBefore, ClockStopped

(* Entering the time driver's handler keeps the invariant. *)
LEMMA TickInterruptStep == ExecInv /\ TickInterrupt => ExecInv'
<1> SUFFICES ASSUME ExecInv, TickInterrupt PROVE ExecInv'
    OBVIOUS
<1> USE DEF ExecInv
<1>1. /\ UNCHANGED execVars /\ Tmr0Isr /\ ~Asleep
      /\ Backlog /\ Backlog' /\ Phase' = Phase /\ Clock' = Clock
    BY DEF TickInterrupt, Tmr0Isr, Backlog, Phase, Clock, clock, Asleep
<1>2. SleepShape' /\ SeenBefore'
    BY <1>1, HandlerKeeps DEF Tmr0Isr, execVars, loop
<1>3. TypeOK'
    BY <1>1 DEF Tmr0Isr, DriverInv, TypeOK, clock, timers
<1>4. NextTickArmed' /\ HandlerArmed' /\ ResyncBound' /\ AlarmSound'
    BY <1>1 DEF Tmr0Isr, DriverInv, NextTickArmed, HandlerArmed, ResyncBound, RearmSlack,
                AlarmSound, Queued, clock, timers
<1>5. ExecTypeOK' /\ PendedCovers'
    BY <1>1 DEF execVars, loop, waits, doze, Tmr0Isr, timers, ExecTypeOK,
                PendedCovers, Asleep, Critical
<1> QED
    BY <1>2, <1>3, <1>4, <1>5 DEF DriverInv

(* on_tick, run outside a sleep, keeps the invariant. *)
LEMMA OnTickRun == ExecInv /\ TickHandler /\ OnTick => ExecInv'
<1> SUFFICES ASSUME ExecInv, TickHandler, OnTick PROVE ExecInv'
    OBVIOUS
<1> USE DEF ExecInv
<1> DEFINE n == Phase \div PERIOD
<1>1. Phase \in Nat /\ TypeOK /\ PERIOD \in Nat \ {0}
    BY PhaseType, TimeDriverAssumption DEF DriverInv
<1>2. n \in Nat /\ n * PERIOD <= Phase /\ n * PERIOD \in Nat
    BY <1>1, DivFacts, MulFacts
<1>3. AddPeriods(n) /\ UNCHANGED cntr
    BY DEF OnTick, tmr
<1> HIDE DEF n
<1>4. /\ base' \in Nat /\ last_boundary' \in Word
      /\ Phase' = Phase - n * PERIOD /\ Clock' = Clock
    BY <1>1, <1>2, <1>3, AddPeriodsFacts
<1>5. /\ isr = "count" /\ isr' = "arm" /\ Backlog /\ Backlog' /\ ~Asleep /\ pended' = pended
      /\ UNCHANGED <<pc, batch, cur, waits, doze, seen>>
    BY DEF TickHandler, OnTick, ArmWrite, ArmCheck, ProcessQueue, Backlog, PendedCovers
<1>6. SleepShape' /\ SeenBefore'
    BY <1>4, <1>5, HandlerKeeps DEF OnTick
<1>7. TypeOK'
    BY <1>4 DEF OnTick, DriverInv, TypeOK, Word, tmr, timers
<1>8. ResyncBound'
    <2>1. held' = held /\ held \in Nat /\ lag' = lag /\ lag \in Nat /\ PERIOD \in Nat
        BY <1>1, <1>5, SleepyExecutorAssumption DEF OnTick, DriverInv, TypeOK, doze, ExecTypeOK
    <2>2. Phase <= PERIOD + held
        BY <1>5, <2>1 DEF DriverInv, ResyncBound, RearmSlack
    <2>3. Phase' <= Phase /\ Phase' \in Int
        BY <1>1, <1>2, <1>4
    <2>4. Phase' <= PERIOD + held' + lag'
        BY <1>1, <2>1, <2>2, <2>3
    <2> QED
        BY <1>5, <2>4, Zenon DEF ResyncBound, RearmSlack
<1>9. NextTickArmed' /\ HandlerArmed' /\ AlarmSound'
    BY <1>5 DEF OnTick, DriverInv, NextTickArmed, HandlerArmed, AlarmSound, Queued, timers
<1>10. ExecTypeOK' /\ PendedCovers'
    BY <1>5 DEF OnTick, timers, waits, doze, ExecTypeOK, PendedCovers, Asleep, Critical
<1> QED
    BY <1>6, <1>7, <1>8, <1>9, <1>10 DEF DriverInv

(* Writing the compare register keeps the invariant. *)
LEMMA ArmWriteRun == ExecInv /\ TickHandler /\ ArmWrite => ExecInv'
<1> SUFFICES ASSUME ExecInv, TickHandler, ArmWrite PROVE ExecInv'
    OBVIOUS
<1> USE DEF ExecInv
<1>1. /\ isr = "arm" /\ isr' = "check" /\ Backlog /\ Backlog' /\ ~Asleep /\ pended' = pended
      /\ UNCHANGED <<pc, batch, cur, waits, doze, seen>>
      /\ Phase' = Phase /\ Clock' = Clock
    BY DEF TickHandler, OnTick, ArmWrite, ArmCheck, ProcessQueue, Backlog, PendedCovers,
           Phase, Clock, clock
<1>2. SleepShape' /\ SeenBefore'
    BY <1>1, HandlerKeeps DEF ArmWrite
<1>3. comp1' \in Word
    BY WordFacts, TimeDriverAssumption DEF ArmWrite, DriverInv, TypeOK, Word
<1>4. TypeOK'
    BY <1>3 DEF ArmWrite, DriverInv, TypeOK, Word, clock, timers
<1>5. NextTickArmed' /\ HandlerArmed' /\ ResyncBound' /\ AlarmSound'
    BY <1>1 DEF ArmWrite, DriverInv, NextTickArmed, HandlerArmed, ResyncBound, RearmSlack,
                AlarmSound, Queued, clock, timers, doze
<1>6. ExecTypeOK' /\ PendedCovers'
    BY <1>1 DEF ArmWrite, timers, waits, doze, ExecTypeOK, PendedCovers, Asleep, Critical
<1> QED
    BY <1>2, <1>4, <1>5, <1>6 DEF DriverInv

(* Reading the counter back after arming keeps the invariant. *)
LEMMA ArmCheckRun == ExecInv /\ TickHandler /\ ArmCheck => ExecInv'
<1> SUFFICES ASSUME ExecInv, TickHandler, ArmCheck PROVE ExecInv'
    OBVIOUS
<1> USE DEF ExecInv
<1>1. /\ isr = "check" /\ isr' \in {"queue", "arm"} /\ Backlog /\ Backlog' /\ ~Asleep
      /\ pended' = pended /\ UNCHANGED <<pc, batch, cur, waits, doze, seen, timers, tmr>>
      /\ held' = held /\ started' = started
    BY DEF TickHandler, OnTick, ArmWrite, ArmCheck, ProcessQueue, Backlog, PendedCovers
<1>2. AlarmSound' /\ ExecTypeOK' /\ PendedCovers'
    BY <1>1 DEF DriverInv, AlarmSound, Queued, timers, waits, doze, ExecTypeOK,
                PendedCovers, Asleep, Critical
<1>3. /\ Phase \in Nat /\ TypeOK /\ 1 * PERIOD = PERIOD /\ PERIOD \in Nat
      /\ held \in Nat /\ lag \in Nat /\ lag' = lag
    BY <1>1, PhaseType, TimeDriverAssumption, SleepyExecutorAssumption
    DEF DriverInv, TypeOK, ExecTypeOK, doze
<1>4. CASE Phase < PERIOD /\ isr' = "queue" /\ UNCHANGED clock
    <2>1. Phase' = Phase /\ Clock' = Clock
        BY <1>1, <1>4 DEF Phase, Clock, clock, tmr
    <2>2. SleepShape' /\ SeenBefore'
        BY <1>1, <2>1, HandlerKeeps
    <2>3. TypeOK'
        BY <1>1, <1>4 DEF ArmCheck, DriverInv, TypeOK, clock, tmr, timers
    <2>4. NextTickArmed' /\ HandlerArmed'
        BY <1>1, <1>4, <2>1 DEF DriverInv, NextTickArmed, HandlerArmed, clock, tmr
    <2>5. ResyncBound'
        BY <1>1, <1>3, <1>4, <2>1 DEF ResyncBound, RearmSlack
    <2> QED
        BY <1>2, <2>2, <2>3, <2>4, <2>5 DEF DriverInv
<1>5. CASE Phase >= PERIOD /\ AddPeriods(1) /\ isr' = "arm"
    <2>1. /\ base' \in Nat /\ last_boundary' \in Word
          /\ Phase' = Phase - PERIOD /\ Clock' = Clock
        BY <1>1, <1>3, <1>5, AddPeriodsFacts DEF tmr
    <2>2. SleepShape' /\ SeenBefore'
        BY <1>1, <2>1, HandlerKeeps
    <2>3. TypeOK'
        BY <1>1, <1>5, <2>1 DEF ArmCheck, DriverInv, TypeOK, Word, tmr, timers
    <2>4. NextTickArmed' /\ HandlerArmed'
        BY <1>1, <1>5 DEF NextTickArmed, HandlerArmed
    <2>5. ResyncBound'
        BY <1>1, <1>3, <1>5, <2>1 DEF ResyncBound, RearmSlack, DriverInv
    <2> QED
        BY <1>2, <2>2, <2>3, <2>4, <2>5 DEF DriverInv
<1> QED
    BY <1>4, <1>5 DEF ArmCheck

(* Waking the expired timers keeps the invariant: whoever is queued is      *)
(* pended.                                                                  *)
LEMMA ProcessQueueRun == ExecInv /\ TickHandler /\ ProcessQueue => ExecInv'
<1> SUFFICES ASSUME ExecInv, TickHandler, ProcessQueue PROVE ExecInv'
    OBVIOUS
<1> USE DEF ExecInv
<1> DEFINE expired == {t \in Queued : queue[t] <= base}
           later   == {queue[t] : t \in Queued \ expired}
<1>1. /\ queue' = [t \in Tasks |-> IF t \in expired THEN None ELSE queue[t]]
      /\ due' = [t \in Tasks |-> IF t \in expired THEN 0 ELSE due[t]]
      /\ woken' = woken \cup expired
      /\ next_alarm' = IF later = {} THEN None ELSE Min(later)
    BY DEF ProcessQueue, NextExpiration
<1>2. /\ Queued' = Queued \ expired
      /\ \A t \in Queued' : queue'[t] = queue[t] /\ queue[t] \in Nat
    BY <1>1, TimeDriverAssumption DEF Queued, DriverInv, TypeOK
<1>3. later \in SUBSET Nat /\ \A t \in Queued' : queue[t] \in later
    BY <1>2
<1> HIDE DEF later
<1>4. next_alarm' \in Nat \cup {None}
    BY <1>1, <1>3, MinFacts
<1>5. AlarmSound'
    BY <1>1, <1>2, <1>3, MinFacts, TimeDriverAssumption DEF AlarmSound
<1>6. /\ isr = "queue" /\ isr' = "idle" /\ Backlog /\ (Backlog' <=> tcf1) /\ ~Asleep
      /\ UNCHANGED <<pc, batch, cur, waits, doze, seen, tmr, clock, started>> /\ Pend
      /\ Phase' = Phase /\ Clock' = Clock
    BY DEF TickHandler, OnTick, ArmWrite, ArmCheck, ProcessQueue, Backlog, PendedCovers,
           Phase, Clock, clock, tmr
<1>7. TypeOK'
    <2>1. queue' \in [Tasks -> Nat \cup {None}]
        BY <1>1 DEF DriverInv, TypeOK
    <2>2. woken' \in SUBSET Tasks /\ due' \in [Tasks -> Nat]
        BY <1>1 DEF DriverInv, TypeOK, Queued
    <2>3. held' \in 0..MaxHeld
        <3>1. held' = held \/ held' = 0
            BY Zenon DEF ProcessQueue
        <3> QED
            BY <3>1, TimeDriverAssumption DEF DriverInv, TypeOK
    <2> QED
        BY <1>4, <2>1, <2>2, <2>3 DEF ProcessQueue, DriverInv, TypeOK, clock, tmr
<1>8. NextTickArmed' /\ HandlerArmed' /\ ResyncBound'
    BY <1>6 DEF ProcessQueue, DriverInv, NextTickArmed, HandlerArmed, ResyncBound, RearmSlack,
                Backlog, clock, tmr
<1>9. SleepShape' /\ SeenBefore'
    BY <1>6, HandlerKeeps
<1>10. PendedCovers'
    BY <1>1, <1>6, WakeCovered DEF Asleep, Critical
<1>11. ExecTypeOK'
    BY <1>6 DEF ExecTypeOK, waits, doze, Pend, PendIfEmpty
<1> QED
    BY <1>5, <1>7, <1>8, <1>9, <1>10, <1>11 DEF DriverInv

(* Every step of the handler keeps the invariant. *)
LEMMA TickHandlerStep == ExecInv /\ TickHandler => ExecInv'
    BY OnTickRun, ArmWriteRun, ArmCheckRun, ProcessQueueRun DEF TickHandler

(* A count moves the counter, and with it the clock, by one. *)
LEMMA CountFacts ==
    ASSUME ExecInv, Count
    PROVE  /\ Phase \in Nat /\ Phase' = Phase + 1 /\ Clock' = Clock + 1
           /\ cntr' \in Word /\ UNCHANGED <<base, last_boundary, isr, started, comp1>>
           /\ elapsed' = elapsed + 1
<1> USE DEF ExecInv, DriverInv
<1>1. Phase \in Word /\ Phase \in Nat
    BY PhaseType
<1>2. held \in Nat /\ lag \in 0..MaxLag /\ MaxLag \in Nat /\ PERIOD \in Nat
      /\ MaxHeld \in Nat /\ WRAP \in Nat /\ PERIOD + MaxHeld + MaxLag < WRAP
    BY TimeDriverAssumption, SleepyExecutorAssumption DEF TypeOK, ExecTypeOK
<1>3. Phase < WRAP - 1
    <2>1. CASE Backlog
        <3>1. held < MaxHeld /\ Phase <= PERIOD + held + lag
            BY <1>1, <1>2, <2>1 DEF Count, ResyncBound, RearmSlack
        <3> QED
            BY <1>1, <1>2, <3>1
    <2>2. CASE ~Backlog
        BY <1>1, <1>2, <2>2 DEF Count, NextTickArmed
    <2> QED
        BY <2>1, <2>2
<1>4. cntr' \in Word /\ Phase' = Phase + 1
    BY <1>3, CountPhase DEF Count, Phase, TypeOK, Word, clock
<1>5. base * PERIOD \in Nat
    BY MulFacts, TimeDriverAssumption DEF TypeOK
<1> QED
    BY <1>1, <1>4, <1>5 DEF Count, Clock, clock

(* A count of the oscillator keeps the invariant. *)
LEMMA RunStep == ExecInv /\ Run => ExecInv'
<1> SUFFICES ASSUME ExecInv, Run PROVE ExecInv'
    OBVIOUS
<1> USE DEF ExecInv
<1>1. /\ Count /\ pc # "boot" /\ pc # "doze" /\ pc' = pc
      /\ Phase \in Nat /\ Phase' = Phase + 1 /\ Clock' = Clock + 1
      /\ cntr' \in Word /\ UNCHANGED <<base, last_boundary, isr, started, comp1>>
      /\ elapsed' = elapsed + 1
    BY CountFacts DEF Run, loop
<1>2. /\ held \in Nat /\ lag \in 0..MaxLag /\ MaxLag \in Nat /\ PERIOD \in Nat
      /\ MaxHeld \in Nat /\ MaxLag < PERIOD
    BY TimeDriverAssumption, SleepyExecutorAssumption DEF DriverInv, TypeOK, ExecTypeOK
<1>3. TypeOK'
    <2>1. held' \in 0..MaxHeld
        <3>1. CASE Backlog
            BY <1>1, <1>2, <3>1 DEF Count
        <3>2. CASE ~Backlog
            BY <1>1, <1>2, <3>2 DEF Count
        <3> QED
            BY <3>1, <3>2
    <2>2. tcf1' \in BOOLEAN
        BY <1>1, Zenon DEF Count, DriverInv, TypeOK
    <2> QED
        BY <1>1, <2>1, <2>2 DEF Count, DriverInv, TypeOK, Word, clock, timers
<1>4. ASSUME comp1 = WAdd(last_boundary, PERIOD), Phase < PERIOD, ~tcf1'
      PROVE  Phase' < PERIOD
    <2>1. PERIOD \in Word /\ last_boundary \in Word
        BY TimeDriverAssumption DEF DriverInv, TypeOK, Word
    <2>2. cntr' # comp1
        BY <1>1, <1>4 DEF Count
    <2>3. WSub(cntr', last_boundary) # PERIOD
        BY <1>1, <1>4, <2>1, <2>2, WordFacts
    <2> QED
        BY <1>1, <1>2, <1>4, <2>3 DEF Phase
<1>5. NextTickArmed' /\ HandlerArmed'
    BY <1>1, <1>4 DEF Count, DriverInv, NextTickArmed, HandlerArmed, Backlog
<1>6. lag' \in 0..MaxLag /\ lag <= lag'
    BY <1>1, <1>2 DEF Run
<1>7. ResyncBound'
    <2>0. RearmSlack \in Nat /\ \E r \in Nat : RearmSlack' = r /\ RearmSlack <= r
        BY <1>1, <1>2, <1>6 DEF RearmSlack
    <2>3. PICK r \in Nat : RearmSlack' = r /\ RearmSlack <= r
        BY <2>0
    <2>1. CASE Backlog
        <3>1. held' = held + 1
            BY <1>1, <2>1 DEF Count
        <3>2. Phase <= PERIOD + held + RearmSlack
            BY <2>1 DEF DriverInv, ResyncBound
        <3>3. Phase' <= PERIOD + held' + RearmSlack'
            BY <1>1, <1>2, <2>0, <2>3, <3>1, <3>2
        <3> QED
            BY <3>3 DEF ResyncBound
    <2>2. CASE ~Backlog
        <3>1. Phase < PERIOD /\ held' = 0
            BY <1>1, <2>2 DEF Count, DriverInv, NextTickArmed
        <3>2. Phase' <= PERIOD + held' + RearmSlack'
            BY <1>1, <1>2, <2>3, <3>1
        <3> QED
            BY <3>2 DEF ResyncBound
    <2> QED
        BY <2>1, <2>2
<1>8. AlarmSound'
    BY <1>1 DEF Count, DriverInv, AlarmSound, Queued, timers
<1>9. slept' \in Nat /\ (pc \in {"restarted", "sampled"} => slept' = slept + 1 /\ lag' = lag + 1)
    BY DEF Run, ExecTypeOK
<1>10. ExecTypeOK'
    BY <1>1, <1>6, <1>9 DEF Run, ExecTypeOK, loop, waits
<1>11. PendedCovers'
    BY <1>1 DEF Run, Count, timers, loop, waits, PendedCovers, Asleep, Critical
<1>12. SleepShape'
    <2>1. ASSUME pc \in {"restarted", "sampled"}
          PROVE  /\ cntr' = cntr + 1 /\ ~tcf1' /\ held' = 0
                 /\ slept' <= wu_timeout * COUNTS_PER_DOZE_TICK + MaxWakeUp + lag'
        <3>1. /\ last_boundary = 0 /\ cntr <= lag /\ ~tcf1 /\ held = 0 /\ isr = "idle"
              /\ slept <= wu_timeout * COUNTS_PER_DOZE_TICK + MaxWakeUp + lag
            BY <2>1 DEF SleepShape, PendedCovers, Asleep, Critical
        <3>0. cntr \in Nat
            BY DEF DriverInv, TypeOK
        <3>7. PICK c \in Nat : cntr' = c
            BY <1>1 DEF Word
        <3>2. Phase = cntr /\ Phase' = cntr'
            BY <1>1, <3>0, <3>1, <3>7 DEF Phase, WSub
        <3>3. lag + 1 <= MaxLag
            BY <1>2, <2>1 DEF Run
        <3>4. ~Backlog /\ comp1 = PERIOD /\ started
            BY <1>1, <3>1, TimeDriverAssumption DEF Count, Backlog, DriverInv, NextTickArmed, WAdd
        <3>5. cntr' = cntr + 1 /\ cntr' # comp1
            BY <1>1, <1>2, <3>0, <3>1, <3>2, <3>3, <3>4
        <3>6. ~tcf1' /\ held' = 0
            BY <1>1, <3>1, <3>4, <3>5 DEF Count
        <3>8. wu_timeout * COUNTS_PER_DOZE_TICK \in Nat /\ MaxWakeUp \in Nat /\ slept \in Nat
            BY MulFacts, SleepyExecutorAssumption DEF ExecTypeOK
        <3> QED
            BY <1>2, <1>9, <2>1, <3>1, <3>5, <3>6, <3>8
    <2>2. pc \in {"restarted", "sampled"} => last_boundary' = 0 /\ cntr' <= lag' /\ wu_timeout' = wu_timeout
        BY <1>1, <1>2, <1>9, <2>1 DEF SleepShape, Run, DriverInv, TypeOK
    <2>3. pc = "sampled" => sampled' <= cntr'
        BY <2>1 DEF SleepShape, Run, DriverInv, TypeOK, ExecTypeOK, Word
    <2> QED
        BY <1>1, <2>1, <2>2, <2>3 DEF SleepShape
<1>13. SeenBefore'
    <2>1. seen * PERIOD \in Nat /\ Clock \in Nat
        BY <1>2, MulFacts, SeenNow DEF ExecTypeOK, DriverInv
    <2>2. seen' = seen /\ snap' = snap /\ ClockStopped' = ClockStopped
        BY <1>1 DEF Run, ClockStopped
    <2> QED
        BY <1>1, <2>1, <2>2 DEF SeenBefore
<1> QED
    BY <1>3, <1>5, <1>7, <1>8, <1>10, <1>11, <1>12, <1>13 DEF DriverInv
-----------------------------------------------------------------------------
(* Remainders, and the order of factors: the arithmetic of the resync. *)
LEMMA ModFacts ==
    ASSUME NEW x \in Nat, NEW P \in Nat \ {0}
    PROVE  /\ x \div P \in Nat /\ x % P \in Nat /\ x % P < P
           /\ (x \div P) * P + (x % P) = x
<1>1. x % P \in Nat /\ x % P < P
    BY SMT
<1>2. x \div P \in Nat
    BY SMT
<1>3. P \in Nat /\ P > 0
    OBVIOUS
<1>4. (x \div P) * P + (x % P) = x
    BY <1>3, SMT
<1> QED
    BY <1>1, <1>2, <1>4, Zenon

(* Multiplication, for the prover. *)
LEMMA SwapFactors ==
    ASSUME NEW a \in Nat, NEW b \in Nat, NEW c \in Nat
    PROVE  (a * b) * c = (a * c) * b /\ a * b = b * a /\ a * b \in Nat
    BY SMT

(* A boundary m counts before a counter value s that was read earlier. *)
LEMMA SampledPhase ==
    ASSUME NEW c \in Word, NEW s \in Word, NEW m \in Nat, s <= c, m + (c - s) < WRAP
    PROVE  WSub(s, m) \in Word /\ WSub(c, WSub(s, m)) = (c - s) + m
    BY TimeDriverAssumption DEF WSub, Word

(* The chip is in the critical section, where nothing runs but this path. *)
LEMMA AsleepFacts ==
    ASSUME ExecInv, Asleep
    PROVE  /\ isr = "idle" /\ started /\ woken = {} /\ waiting = {}
           /\ pc # "boot" /\ next_alarm # None
    BY DEF ExecInv, PendedCovers, SleepShape, Asleep, Critical

(* Programming the sleep timer keeps the invariant. *)
LEMMA ProgramSleepStep == ExecInv /\ ProgramSleep => ExecInv'
<1> SUFFICES ASSUME ExecInv, ProgramSleep PROVE ExecInv'
    OBVIOUS
<1> USE DEF ExecInv
<1>1. Asleep /\ Asleep' /\ isr = "idle" /\ started
    BY AsleepFacts DEF ProgramSleep, Asleep, Critical
<1>2. /\ ClockKept /\ UNCHANGED <<queue, next_alarm, due, woken>> /\ seen' = seen
      /\ ~ClockStopped /\ ~ClockStopped' /\ pc' # "boot" /\ isr' = isr
    BY DEF ProgramSleep, ClockKept, ClockStopped, vars, timers
<1>3. SleepShape' /\ DriverInv' /\ SeenBefore'
    BY <1>1, <1>2, LoopKeeps DEF DriverInv, TypeOK
<1>4. PendedCovers'
    BY <1>1, <1>2 DEF ProgramSleep, PendedCovers, waits
<1>5. DozeTicks \in Nat
    <2>1. base \in Nat /\ Phase \in Nat /\ next_alarm \in Nat
          /\ PERIOD \in Nat \ {0} /\ DOZE_MAX \in Nat /\ COUNTS_PER_DOZE_TICK \in Nat \ {0}
        BY <1>1, AsleepFacts, PhaseType, TimeDriverAssumption, SleepyExecutorAssumption
        DEF DriverInv, TypeOK
    <2>2. \A a \in Nat, b \in Nat : SatSub(a, b) \in Nat /\ Sooner(a, b) \in Nat
        BY DEF SatSub, Sooner
    <2>3. SatSub(SatSub(next_alarm, base) * PERIOD, Phase) \in Nat
        BY <2>1, <2>2, MulFacts
    <2> QED
        BY <2>1, <2>2, <2>3, DivFacts DEF DozeTicks
<1>6. ExecTypeOK'
    BY <1>5, SleepyExecutorAssumption DEF ProgramSleep, ExecTypeOK, waits
<1> QED
    BY <1>3, <1>4, <1>6

(* The last read of TMR0 is the clock the resync starts from. *)
LEMMA PowerDownStep == ExecInv /\ PowerDown => ExecInv'
<1> SUFFICES ASSUME ExecInv, PowerDown PROVE ExecInv'
    OBVIOUS
<1> USE DEF ExecInv
<1>1. Asleep /\ Asleep' /\ isr = "idle" /\ started
    BY AsleepFacts DEF PowerDown, Asleep, Critical
<1>2. /\ ClockKept /\ UNCHANGED <<queue, next_alarm, due, woken>> /\ seen' = seen
      /\ isr' = isr /\ lag' = lag /\ Phase \in Nat
    BY PhaseType DEF PowerDown, ClockKept, vars, timers, DriverInv
<1>3. DriverInv'
    BY <1>1, <1>2, DriverKept DEF DriverInv, TypeOK
<1>4. SleepShape' /\ PendedCovers' /\ ExecTypeOK'
    BY <1>1, <1>2 DEF PowerDown, SleepShape, PendedCovers, ExecTypeOK, waits, vars
<1>5. SeenBefore'
    BY <1>2, KeptFacts DEF PowerDown, SeenBefore, ClockStopped, Clock
<1> QED
    BY <1>3, <1>4, <1>5

(* TMR0 restarts from zero; base and snapshot still tell the time before. *)
LEMMA WakeUpStep == ExecInv /\ WakeUp => ExecInv'
<1> SUFFICES ASSUME ExecInv, WakeUp PROVE ExecInv'
    OBVIOUS
<1> USE DEF ExecInv
<1>1. Asleep /\ Asleep' /\ isr = "idle" /\ started
    BY AsleepFacts DEF WakeUp, Asleep, Critical
<1>2. PICK gap \in 0..MaxGap, over \in 0..MaxWakeUp :
          /\ slept' = wu_timeout * COUNTS_PER_DOZE_TICK + over
          /\ elapsed' = elapsed + gap + slept'
    BY DEF WakeUp
<1>3. /\ wu_timeout * COUNTS_PER_DOZE_TICK \in Nat /\ gap \in Nat
      /\ over \in Nat /\ over <= MaxWakeUp /\ MaxWakeUp \in Nat /\ elapsed \in Nat
    BY MulFacts, SleepyExecutorAssumption DEF ExecTypeOK, DriverInv, TypeOK
<1>4. slept' \in Nat /\ elapsed' \in Nat
    BY <1>2, <1>3
<1>5. 0 \in Word /\ WAdd(0, PERIOD) \in Word
    BY TimeDriverAssumption DEF Word, WAdd
<1>6. /\ isr' = isr /\ tcf1' = FALSE /\ started' = started /\ cntr' = 0 /\ last_boundary' = 0
      /\ comp1' = WAdd(0, PERIOD) /\ held' = 0 /\ base' = base
      /\ UNCHANGED <<queue, next_alarm, woken, due>>
    BY DEF WakeUp, ConfigureTmr0, timers
<1>7. TypeOK'
    <2>1. cntr' \in Word /\ comp1' \in Word /\ last_boundary' \in Word
        BY <1>5, <1>6
    <2>2. held' \in 0..MaxHeld
        <3>1. 0 \in 0..MaxHeld
            BY TimeDriverAssumption
        <3> QED
            BY <1>6, <3>1
    <2>5. tcf1' \in BOOLEAN
        BY <1>6, Zenon
    <2>3. started' \in BOOLEAN /\ base' \in Nat /\ isr' = "idle"
        BY <1>1, <1>6 DEF DriverInv, TypeOK
    <2>4. /\ queue' \in [Tasks -> Nat \cup {None}] /\ next_alarm' \in Nat \cup {None}
          /\ woken' \in SUBSET Tasks /\ due' \in [Tasks -> Nat]
        BY <1>6 DEF DriverInv, TypeOK
    <2> QED
        BY <1>4, <2>1, <2>2, <2>3, <2>4, <2>5, Zenon DEF TypeOK, Word
<1>8. Phase' = 0 /\ ~Backlog'
    BY <1>1, <1>6 DEF Phase, WSub, Backlog
<1>9. NextTickArmed' /\ HandlerArmed' /\ ResyncBound'
    BY <1>1, <1>6, <1>8, TimeDriverAssumption DEF NextTickArmed, HandlerArmed, ResyncBound
<1>10. AlarmSound'
    BY <1>6 DEF DriverInv, AlarmSound, Queued
<1>11. ExecTypeOK' /\ PendedCovers'
    BY <1>1, <1>4, <1>6, SleepyExecutorAssumption
    DEF WakeUp, ExecTypeOK, PendedCovers, waits
<1>12. SleepShape'
    <2>1. slept' <= wu_timeout * COUNTS_PER_DOZE_TICK + MaxWakeUp + 0
        BY <1>2, <1>3
    <2> QED
        BY <1>1, <1>6, <2>1 DEF WakeUp, SleepShape
<1>13. SeenBefore'
    BY <1>6 DEF WakeUp, SeenBefore, ClockStopped
<1> QED
    BY <1>7, <1>9, <1>10, <1>11, <1>12, <1>13 DEF DriverInv

(* Reading the sleep timer's count keeps the invariant. *)
LEMMA SampleCounterStep == ExecInv /\ SampleCounter => ExecInv'
<1> SUFFICES ASSUME ExecInv, SampleCounter PROVE ExecInv'
    OBVIOUS
<1> USE DEF ExecInv
<1>1. Asleep /\ Asleep' /\ isr = "idle" /\ started
    BY AsleepFacts DEF SampleCounter, Asleep, Critical
<1>2. /\ ClockKept /\ UNCHANGED <<queue, next_alarm, due, woken>> /\ seen' = seen
      /\ isr' = isr /\ lag' = lag /\ snap' = snap /\ ClockStopped /\ ClockStopped'
      /\ cntr \in Word
    BY DEF SampleCounter, ClockKept, vars, timers, DriverInv, TypeOK, Word, ClockStopped
<1>3. DriverInv'
    BY <1>1, <1>2, DriverKept DEF DriverInv, TypeOK
<1>4. PendedCovers' /\ ExecTypeOK'
    BY <1>1, <1>2 DEF SampleCounter, PendedCovers, ExecTypeOK, waits, vars
<1>5. SleepShape'
    BY <1>1, <1>2, KeptFacts DEF SampleCounter, SleepShape, Word
<1>6. SeenBefore'
    BY <1>2, KeptFacts DEF SeenBefore
<1> QED
    BY <1>3, <1>4, <1>5, <1>6

(* Leaving the critical section keeps the invariant. *)
LEMMA LeaveCriticalStep == ExecInv /\ LeaveCritical => ExecInv'
<1> SUFFICES ASSUME ExecInv, LeaveCritical PROVE ExecInv'
    OBVIOUS
<1> USE DEF ExecInv
<1>1. /\ ClockKept /\ UNCHANGED <<queue, next_alarm, due, woken>> /\ seen' = seen
      /\ ~ClockStopped /\ ~ClockStopped' /\ pc' # "boot" /\ isr' = isr /\ isr = "idle" /\ started
    BY DEF LeaveCritical, ClockKept, ClockStopped, vars, timers, SleepShape
<1>2. SleepShape' /\ DriverInv' /\ SeenBefore'
    BY <1>1, LoopKeeps DEF DriverInv, TypeOK
<1>3. PendedCovers'
    BY <1>1 DEF LeaveCritical, PendedCovers, waits, Asleep, Critical
<1>4. 0 \in Word /\ 0 \in 0..MaxLag
    BY TimeDriverAssumption, SleepyExecutorAssumption DEF Word
<1>5. ExecTypeOK'
    BY <1>4 DEF LeaveCritical, ExecTypeOK, waits
<1> QED
    BY <1>2, <1>3, <1>5

(* The resync adds to the clock what the sleep timer shows, rounded up by   *)
(* half a tick of it, and what TMR0 counts after it is sampled.             *)
LEMMA ResyncFacts ==
    ASSUME ExecInv, ResyncClock
    PROVE  /\ base' \in Nat /\ last_boundary' \in Word
           /\ Phase' \in Nat /\ Phase' <= PERIOD + lag
           /\ TimerCount \in Nat /\ TimerCount * COUNTS_PER_DOZE_TICK \in Nat
           /\ Clock' = base * PERIOD + snap + TimerCount * COUNTS_PER_DOZE_TICK
                       + COUNTS_PER_DOZE_TICK \div 2 + (cntr - sampled)
<1> USE DEF ExecInv
<1> DEFINE C == COUNTS_PER_DOZE_TICK
           h == C \div 2
           q == TimerCount \div PERIOD
           r == TimerCount % PERIOD
           rest == RestOfSleep(snap)
<1>1. /\ C \in Nat \ {0} /\ PERIOD \in Nat \ {0} /\ DOZE_MAX + 1 \in Nat \ {0}
      /\ slept \in Nat /\ snap \in Nat /\ base \in Nat
      /\ h \in Nat
    BY SleepyExecutorAssumption, TimeDriverAssumption, DivFacts
    DEF ExecTypeOK, DriverInv, TypeOK
<1>2. TimerCount \in Nat
    BY <1>1, DivFacts, ModFacts DEF TimerCount
<1>3. q \in Nat /\ r \in Nat /\ TimerCount = q * PERIOD + r
    BY <1>1, <1>2, ModFacts
<1>4. rest = r * C + h + snap /\ r * C \in Nat
    BY <1>1, <1>3, MulFacts DEF RestOfSleep
<1>5. rest \in Nat
    BY <1>1, <1>4
<1> HIDE DEF rest, q, r, h
<1> DEFINE n == rest \div PERIOD
           m == rest % PERIOD
<1>6. n \in Nat /\ m \in Nat /\ m < PERIOD /\ rest = n * PERIOD + m
    BY <1>1, <1>5, ModFacts
<1>7. /\ base' = base + q * C + n /\ last_boundary' = WSub(sampled, m) /\ cntr' = cntr
    BY DEF ResyncClock, q, rest, tmr
<1> HIDE DEF n, m
<1>8. /\ sampled \in Word /\ cntr \in Word /\ sampled <= cntr /\ cntr <= lag
      /\ lag \in 0..MaxLag /\ MaxLag \in Nat /\ WRAP \in Nat /\ PERIOD + MaxLag < WRAP
      /\ cntr \in Nat /\ sampled \in Nat
    BY SleepyExecutorAssumption, TimeDriverAssumption
    DEF ResyncClock, SleepShape, ExecTypeOK, DriverInv, TypeOK, Word
<1>9. m + (cntr - sampled) < WRAP /\ m + (cntr - sampled) <= PERIOD + lag
    BY <1>1, <1>6, <1>8
<1>10. last_boundary' \in Word /\ Phase' = (cntr - sampled) + m
    BY <1>6, <1>7, <1>8, <1>9, SampledPhase DEF Phase
<1>11. /\ q * C \in Nat /\ (q * C) * PERIOD \in Nat /\ n * PERIOD \in Nat /\ base * PERIOD \in Nat
       /\ (base + q * C) * PERIOD = base * PERIOD + (q * C) * PERIOD
       /\ ((base + q * C) + n) * PERIOD = (base + q * C) * PERIOD + n * PERIOD
    <2>1. q * C \in Nat /\ base + q * C \in Nat
        BY <1>1, <1>3, MulFacts
    <2> QED
        BY <1>1, <1>6, <2>1, MulFacts
<1>12. TimerCount * C = (q * C) * PERIOD + r * C /\ TimerCount * C \in Nat
    <2>1. (q * PERIOD + r) * C = (q * PERIOD) * C + r * C
        BY <1>1, <1>3, MulFacts
    <2>2. (q * PERIOD) * C = (q * C) * PERIOD
        BY <1>1, <1>3, SwapFactors
    <2> QED
        BY <1>1, <1>2, <1>3, <2>1, <2>2, MulFacts
<1>13. base' \in Nat /\ base' * PERIOD = base * PERIOD + (q * C) * PERIOD + n * PERIOD
    BY <1>1, <1>6, <1>7, <1>11
<1>14. Clock' = base * PERIOD + snap + TimerCount * C + h + (cntr - sampled)
    BY <1>1, <1>4, <1>6, <1>8, <1>10, <1>11, <1>12, <1>13 DEF Clock
<1> QED
    BY <1>1, <1>2, <1>6, <1>8, <1>9, <1>10, <1>12, <1>13, <1>14 DEF h

(* resync_after_sleep keeps the invariant: base and counter move together. *)
LEMMA ResyncClockStep == ExecInv /\ ResyncClock => ExecInv'
<1> SUFFICES ASSUME ExecInv, ResyncClock PROVE ExecInv'
    OBVIOUS
<1> USE DEF ExecInv
<1>1. /\ pc = "sampled" /\ pc' = "rearm" /\ isr' = "arm" /\ isr = "idle" /\ started
      /\ ~tcf1 /\ held = 0
      /\ UNCHANGED <<started, tmr, timers, elapsed, held, pended, batch, cur, waits, doze, seen>>
    BY AsleepFacts DEF ResyncClock, SleepShape, Asleep, Critical
<1>2. base' \in Nat /\ last_boundary' \in Word
    BY ResyncFacts
<1>3. TypeOK'
    BY <1>1, <1>2 DEF DriverInv, TypeOK, Word, tmr, timers
<1>4. NextTickArmed' /\ HandlerArmed'
    BY <1>1 DEF NextTickArmed, HandlerArmed, Backlog
<1>5. ResyncBound'
    <2>1. PICK p \in Nat : Phase' = p /\ p <= PERIOD + lag
        BY ResyncFacts
    <2>2. held' = 0 /\ RearmSlack' = lag /\ lag \in Nat /\ PERIOD \in Nat
        BY <1>1, SleepyExecutorAssumption, TimeDriverAssumption DEF RearmSlack, doze, ExecTypeOK
    <2> QED
        BY <2>1, <2>2 DEF ResyncBound
<1>6. AlarmSound'
    BY <1>1 DEF DriverInv, AlarmSound, Queued, timers
<1>7. ExecTypeOK' /\ PendedCovers' /\ SleepShape'
    BY <1>1 DEF ExecTypeOK, PendedCovers, SleepShape, Asleep, Critical, waits, doze, timers, tmr
<1>8. SeenBefore'
    <2>1. /\ base * PERIOD \in Nat /\ snap \in Nat /\ COUNTS_PER_DOZE_TICK \div 2 \in Nat
          /\ seen * PERIOD \in Nat
        BY MulFacts, DivFacts, SleepyExecutorAssumption, TimeDriverAssumption
        DEF DriverInv, TypeOK, ExecTypeOK
    <2>2. cntr \in Nat /\ sampled \in Nat /\ sampled <= cntr
        BY <1>1 DEF SleepShape, DriverInv, TypeOK, ExecTypeOK, Word
    <2>3. seen * PERIOD <= base * PERIOD + snap
        BY <1>1 DEF SeenBefore, ClockStopped
    <2>4. seen * PERIOD <= Clock'
        BY <2>1, <2>2, <2>3, ResyncFacts
    <2> QED
        BY <1>1, <2>4 DEF SeenBefore, ClockStopped
<1> QED
    BY <1>3, <1>4, <1>5, <1>6, <1>7, <1>8 DEF DriverInv
-----------------------------------------------------------------------------
(* One step per action of ExecNext. *)
LEMMA ExecInvStep == ExecInv /\ [ExecNext]_allVars => ExecInv'
<1> SUFFICES ASSUME ExecInv, [ExecNext]_allVars PROVE ExecInv'
    OBVIOUS
<1>1. CASE Boot \/ Run \/ TickInterrupt \/ TickHandler \/ PollLoop
    BY <1>1, BootStep, RunStep, TickInterruptStep, TickHandlerStep, PollLoopStep
<1>2. ASSUME NEW t \in Tasks, PeripheralInterrupt(t) PROVE ExecInv'
    BY <1>2, PeripheralInterruptStep
<1>3. CASE AwaitTimer \/ AwaitPeripheral \/ Yield
    BY <1>3, AwaitTimerStep, AwaitPeripheralStep, YieldStep
<1>4. CASE SleepPath
    BY <1>4, ProgramSleepStep, PowerDownStep, WakeUpStep, SampleCounterStep,
       ResyncClockStep, LeaveCriticalStep DEF SleepPath
<1>5. CASE UNCHANGED allVars
    <2>1. UNCHANGED <<vars, execVars, loop, waits, doze>>
        BY <1>5 DEF allVars, execVars
    <2>2. ClockKept /\ UNCHANGED <<queue, next_alarm, due, woken, lag, isr>>
        BY <2>1 DEF vars, timers, ClockKept, doze
    <2>3. DriverInv'
        BY <2>2, DriverKept DEF ExecInv, DriverInv, TypeOK
    <2>4. SleepShape' /\ SeenBefore'
        BY <2>1, <2>2, KeptFacts
        DEF ExecInv, SleepShape, SeenBefore, ClockStopped, execVars, loop, waits, doze
    <2>5. ExecTypeOK' /\ PendedCovers'
        BY <2>1, <2>2
        DEF ExecInv, ExecTypeOK, PendedCovers, Asleep, Critical, execVars, loop, waits, doze
    <2> QED
        BY <2>3, <2>4, <2>5 DEF ExecInv
<1> QED
    BY <1>1, <1>2, <1>3, <1>4, <1>5 DEF ExecNext

(* The executor's invariant holds in every behaviour: above all, a task in  *)
(* the run queue while the loop decides to sleep implies PENDED, and the    *)
(* clock is exact while it runs.                                            *)
LEMMA ExecInvariance == ExecSpec => []ExecInv
    BY ExecInitInv, ExecInvStep, PTL DEF ExecSpec

(* The chip never sleeps with a task in the run queue, whatever interrupts  *)
(* come between the clearing of PENDED, the poll and the decision.          *)
THEOREM NeverSleepsOnWork == ExecSpec => []NoSleepOnWork
<1>1. ExecInv => NoSleepOnWork
    BY DEF ExecInv, PendedCovers, NoSleepOnWork, Asleep
<1> QED
    BY <1>1, ExecInvariance, PTL

(* now() never goes back for a task, whatever the sleep timer shows after   *)
(* the wake-up, a value that has wrapped included.                          *)
THEOREM TimeNeverRunsBackwards == ExecSpec => []NowNeverBackwards
<1>1. ExecInv => NowNeverBackwards
    BY SeenNow DEF ExecInv, DriverInv, ExecTypeOK, SeenBefore, NowNeverBackwards
<1> QED
    BY <1>1, ExecInvariance, PTL
-----------------------------------------------------------------------------
(* No interrupt is held off for as long as the executor demands to sleep,   *)
(* less one tick: else the deadline it decided on may have gone by when     *)
(* doze_ticks_until_next_wake() reads the clock again.                      *)
ShortDecision == MaxHeld <= (MIN_SLEEP_TICKS - 1) * PERIOD

(* How far ahead the alarm is from the decision to the resync. *)
DeadlineAhead ==
    /\ pc = "program" =>
          /\ Backlog  => Clock + (MIN_SLEEP_TICKS - 1) * PERIOD <= next_alarm * PERIOD + held
          /\ ~Backlog => base + MIN_SLEEP_TICKS <= next_alarm
    /\ pc = "sync" => Clock + wu_timeout * COUNTS_PER_DOZE_TICK <= next_alarm * PERIOD + lag
    /\ pc = "doze" =>
          base * PERIOD + snap + wu_timeout * COUNTS_PER_DOZE_TICK
              <= next_alarm * PERIOD + MaxLag
    /\ pc \in {"restarted", "sampled"} =>
          base * PERIOD + snap + slept <= next_alarm * PERIOD + MaxLag + MaxWakeUp + lag

(* The types of what a sleep is made of. *)
LEMMA AsleepTypes ==
    ASSUME ExecInv, Asleep
    PROVE  /\ base \in Nat /\ Phase \in Nat /\ next_alarm \in Nat /\ held \in 0..MaxHeld
           /\ held \in Nat /\ lag \in Nat /\ lag <= MaxLag /\ MaxLag \in Nat
           /\ snap \in Nat /\ slept \in Nat /\ wu_timeout \in Nat
           /\ Clock \in Nat /\ base * PERIOD \in Nat /\ next_alarm * PERIOD \in Nat
           /\ wu_timeout * COUNTS_PER_DOZE_TICK \in Nat /\ MaxWakeUp \in Nat
           /\ PERIOD \in Nat /\ PERIOD > 0 /\ COUNTS_PER_DOZE_TICK \in Nat \ {0}
           /\ MIN_SLEEP_TICKS - 1 \in Nat /\ (MIN_SLEEP_TICKS - 1) * PERIOD \in Nat
           /\ MIN_SLEEP_TICKS \in Nat
<1>1. /\ PERIOD \in Nat \ {0} /\ COUNTS_PER_DOZE_TICK \in Nat \ {0} /\ MaxLag \in Nat
      /\ MIN_SLEEP_TICKS \in Nat \ {0} /\ MaxWakeUp \in Nat /\ MaxHeld \in Nat
    BY TimeDriverAssumption, SleepyExecutorAssumption
<1>2. /\ base \in Nat /\ Phase \in Nat /\ next_alarm \in Nat /\ held \in 0..MaxHeld
    BY AsleepFacts, PhaseType DEF ExecInv, DriverInv, TypeOK
<1>3. /\ lag \in 0..MaxLag /\ snap \in Nat /\ slept \in Nat /\ wu_timeout \in Nat /\ seen \in Nat
    BY DEF ExecInv, ExecTypeOK
<1>4. MIN_SLEEP_TICKS - 1 \in Nat
    BY <1>1
<1>5. /\ base * PERIOD \in Nat /\ next_alarm * PERIOD \in Nat
      /\ (MIN_SLEEP_TICKS - 1) * PERIOD \in Nat /\ wu_timeout * COUNTS_PER_DOZE_TICK \in Nat
    BY <1>1, <1>2, <1>3, <1>4, MulFacts
<1> QED
    BY <1>1, <1>2, <1>3, <1>4, <1>5 DEF Clock

(* The decision to sleep leaves the deadline ahead of the wake-up. *)
LEMMA DecideAhead == ExecInv /\ Decide => DeadlineAhead'
<1> SUFFICES ASSUME ExecInv, Decide, WorthSleeping PROVE DeadlineAhead'
    BY DEF Decide, DeadlineAhead
<1>0. /\ pc' = "program" /\ ClockKept /\ next_alarm' = next_alarm
    BY DEF Decide, ClockKept, vars, timers
<1>1. /\ next_alarm \in Nat /\ base \in Nat /\ held \in Nat /\ MIN_SLEEP_TICKS - 1 \in Nat
      /\ MIN_SLEEP_TICKS \in Nat /\ MIN_SLEEP_TICKS > 0 /\ PERIOD \in Nat
    BY SleepyExecutorAssumption, TimeDriverAssumption
    DEF WorthSleeping, ExecInv, DriverInv, TypeOK
<1>2. /\ Now \in Nat /\ base <= Now /\ Clock \in Nat /\ Clock < Now * PERIOD + PERIOD
      /\ Now * PERIOD \in Nat
    BY SeenNow, PhaseType DEF ExecInv, DriverInv, ExecTypeOK
<1>3. Now + 1 + (MIN_SLEEP_TICKS - 1) <= next_alarm
    BY <1>1, <1>2 DEF WorthSleeping, TicksUntilNextWake, SatSub
<1> DEFINE K == MIN_SLEEP_TICKS - 1
<1> HIDE DEF K
<1>4. /\ ((Now + 1) + K) * PERIOD = (Now + 1) * PERIOD + K * PERIOD
      /\ (Now + 1) * PERIOD = Now * PERIOD + 1 * PERIOD
      /\ ((Now + 1) + K) * PERIOD <= next_alarm * PERIOD
      /\ K * PERIOD \in Nat /\ next_alarm * PERIOD \in Nat
    <2>1. K \in Nat /\ Now + 1 \in Nat /\ (Now + 1) + K \in Nat /\ (Now + 1) + K <= next_alarm
        BY <1>1, <1>2, <1>3 DEF K
    <2> QED
        BY <1>1, <1>2, <2>1, MulFacts
<1>5. Clock + K * PERIOD <= next_alarm * PERIOD + held
    BY <1>1, <1>2, <1>4
<1>6. base + MIN_SLEEP_TICKS <= next_alarm
    BY <1>1, <1>2, <1>3
<1> QED
    BY <1>0, <1>5, <1>6, KeptFacts DEF DeadlineAhead, K

(* Counts that pass on the way into and out of the sleep keep the deadline  *)
(* ahead.                                                                   *)
LEMMA RunAhead == ExecInv /\ DeadlineAhead /\ Run => DeadlineAhead'
<1> SUFFICES ASSUME ExecInv, DeadlineAhead, Run, Asleep PROVE DeadlineAhead'
    BY DEF Run, loop, Asleep, Critical, DeadlineAhead
<1>1. /\ Count /\ pc # "doze" /\ pc' = pc
      /\ Phase \in Nat /\ Phase' = Phase + 1 /\ Clock' = Clock + 1
      /\ UNCHANGED <<base, isr, snap, wu_timeout, next_alarm>>
      /\ (pc \in {"sync", "restarted", "sampled"} => lag' = lag + 1)
      /\ (pc \in {"restarted", "sampled"} => slept' = slept + 1)
    BY CountFacts DEF Run, loop, Count, timers
<1> DEFINE K == MIN_SLEEP_TICKS - 1
<1> HIDE DEF K
<1>2. /\ base \in Nat /\ Clock \in Nat /\ next_alarm \in Nat /\ base * PERIOD \in Nat
      /\ next_alarm * PERIOD \in Nat /\ K * PERIOD \in Nat /\ PERIOD \in Nat /\ K \in Nat
      /\ held \in Nat /\ lag \in Nat /\ wu_timeout * COUNTS_PER_DOZE_TICK \in Nat
      /\ snap \in Nat /\ slept \in Nat /\ MaxLag \in Nat /\ MaxWakeUp \in Nat
      /\ MIN_SLEEP_TICKS = 1 + K
    BY AsleepTypes DEF K
<1>3. CASE pc = "program" /\ Backlog
    <2>1. held' = held + 1 /\ Backlog'
        BY <1>1, <1>3, Zenon DEF Count, Backlog
    <2>2. Clock + K * PERIOD <= next_alarm * PERIOD + held
        BY <1>3 DEF DeadlineAhead, K
    <2>3. Clock' + K * PERIOD <= next_alarm * PERIOD + held'
        BY <1>1, <1>2, <2>1, <2>2
    <2> QED
        BY <1>1, <1>3, <2>1, <2>3 DEF DeadlineAhead, K
<1>4. CASE pc = "program" /\ ~Backlog
    <2>1. base + (1 + K) <= next_alarm
        BY <1>2, <1>4 DEF DeadlineAhead
    <2>2. held' = 0 /\ Phase < PERIOD
        BY <1>1, <1>4 DEF Count, ExecInv, DriverInv, NextTickArmed
    <2>3. /\ (base + (1 + K)) * PERIOD = base * PERIOD + (1 + K) * PERIOD
          /\ (1 + K) * PERIOD = 1 * PERIOD + K * PERIOD
          /\ (base + (1 + K)) * PERIOD <= next_alarm * PERIOD
        <3>1. 1 + K \in Nat /\ base + (1 + K) \in Nat
            BY <1>2
        <3> QED
            BY <1>2, <2>1, <3>1, MulFacts
    <2>4. Clock' + K * PERIOD <= next_alarm * PERIOD + held'
        BY <1>1, <1>2, <2>2, <2>3 DEF Clock
    <2> QED
        BY <1>1, <1>2, <1>4, <2>1, <2>4 DEF DeadlineAhead, K
<1>5. CASE pc = "sync"
    <2>1. Clock + wu_timeout * COUNTS_PER_DOZE_TICK <= next_alarm * PERIOD + lag
        BY <1>5 DEF DeadlineAhead
    <2>2. Clock' + wu_timeout * COUNTS_PER_DOZE_TICK <= next_alarm * PERIOD + lag'
        BY <1>1, <1>2, <1>5, <2>1
    <2> QED
        BY <1>1, <1>5, <2>2 DEF DeadlineAhead
<1>6. CASE pc \in {"restarted", "sampled"}
    <2>1. base * PERIOD + snap + slept <= next_alarm * PERIOD + MaxLag + MaxWakeUp + lag
        BY <1>6 DEF DeadlineAhead
    <2>2. base * PERIOD + snap + slept' <= next_alarm * PERIOD + MaxLag + MaxWakeUp + lag'
        BY <1>1, <1>2, <1>6, <2>1
    <2> QED
        BY <1>1, <1>6, <2>2 DEF DeadlineAhead
<1> QED
    BY <1>1, <1>3, <1>4, <1>5, <1>6 DEF Asleep, Critical

(* doze_ticks_until_next_wake() rounds down and saturates, both early. *)
LEMMA ProgramAhead ==
    ShortDecision /\ ExecInv /\ DeadlineAhead /\ ProgramSleep => DeadlineAhead'
<1> SUFFICES ASSUME ShortDecision, ExecInv, DeadlineAhead, ProgramSleep PROVE DeadlineAhead'
    OBVIOUS
<1>1. pc = "program" /\ pc' = "sync" /\ Asleep /\ ClockKept /\ next_alarm' = next_alarm
      /\ wu_timeout' = DozeTicks /\ lag' = 0
    BY DEF ProgramSleep, Asleep, Critical, ClockKept, vars, timers
<1> DEFINE K == MIN_SLEEP_TICKS - 1
           C == COUNTS_PER_DOZE_TICK
<1> HIDE DEF K
<1>2. /\ base \in Nat /\ Phase \in Nat /\ Clock \in Nat /\ next_alarm \in Nat
      /\ base * PERIOD \in Nat /\ next_alarm * PERIOD \in Nat /\ K * PERIOD \in Nat
      /\ PERIOD \in Nat /\ PERIOD > 0 /\ K \in Nat /\ held \in Nat /\ held <= MaxHeld
      /\ MaxHeld \in Nat /\ C \in Nat \ {0} /\ MIN_SLEEP_TICKS = 1 + K
      /\ DOZE_MAX \in Nat
    BY <1>1, AsleepTypes, TimeDriverAssumption, SleepyExecutorAssumption DEF K
<1>3. Clock <= next_alarm * PERIOD
    <2>1. CASE Backlog
        BY <1>1, <1>2, <2>1 DEF DeadlineAhead, ShortDecision, K
    <2>2. CASE ~Backlog
        <3>1. base + 1 <= next_alarm
            BY <1>1, <1>2, <2>2 DEF DeadlineAhead
        <3>2. (base + 1) * PERIOD = base * PERIOD + 1 * PERIOD
              /\ (base + 1) * PERIOD <= next_alarm * PERIOD
            BY <1>2, <3>1, MulFacts
        <3>3. Phase < PERIOD
            BY <1>1, <2>2, AsleepFacts DEF ExecInv, DriverInv, NextTickArmed
        <3> QED
            BY <1>2, <3>2, <3>3 DEF Clock
    <2> QED
        BY <2>1, <2>2
<1>4. base <= next_alarm
    <2>1. SUFFICES ASSUME next_alarm + 1 <= base PROVE FALSE
        BY <1>2
    <2>2. (next_alarm + 1) * PERIOD = next_alarm * PERIOD + 1 * PERIOD
          /\ (next_alarm + 1) * PERIOD <= base * PERIOD
        BY <1>2, <2>1, MulFacts
    <2> QED
        BY <1>2, <1>3, <2>2 DEF Clock
<1>5. PICK n \in Nat : next_alarm = base + n
    <2>1. next_alarm - base \in Nat /\ next_alarm = base + (next_alarm - base)
        BY <1>2, <1>4
    <2> QED
        BY <2>1
<1>6. SatSub(next_alarm, base) = n /\ next_alarm * PERIOD = base * PERIOD + n * PERIOD
      /\ n * PERIOD \in Nat
    BY <1>2, <1>5, MulFacts DEF SatSub
<1>7. SatSub(n * PERIOD, Phase) = n * PERIOD - Phase /\ n * PERIOD - Phase \in Nat
    BY <1>2, <1>3, <1>6 DEF SatSub, Clock
<1> DEFINE counts == n * PERIOD - Phase
           d == counts \div C
<1>8. d \in Nat /\ d * C <= counts /\ d * C \in Nat
    BY <1>2, <1>7, DivFacts, MulFacts
<1>9. DozeTicks = Sooner(d, DOZE_MAX)
    BY <1>6, <1>7 DEF DozeTicks
<1> HIDE DEF counts, d
<1>10. PICK w \in Nat : DozeTicks = w /\ w <= d
    BY <1>2, <1>8, <1>9 DEF Sooner
<1>11. w * C <= d * C /\ w * C \in Nat
    BY <1>2, <1>8, <1>10, MulFacts
<1>12. Clock + w * C <= next_alarm * PERIOD + 0
    BY <1>2, <1>6, <1>7, <1>8, <1>11 DEF Clock, counts
<1> QED
    BY <1>1, <1>10, <1>12, KeptFacts DEF DeadlineAhead

(* Powering down, waking and reading the count keep the deadline ahead. *)
LEMMA DozeAhead ==
    ExecInv /\ DeadlineAhead /\ (PowerDown \/ WakeUp \/ SampleCounter) => DeadlineAhead'
<1> SUFFICES ASSUME ExecInv, DeadlineAhead, PowerDown \/ WakeUp \/ SampleCounter
             PROVE  DeadlineAhead'
    OBVIOUS
<1>1. /\ Asleep /\ base' = base /\ next_alarm' = next_alarm /\ wu_timeout' = wu_timeout
    BY DEF PowerDown, WakeUp, SampleCounter, Asleep, Critical, vars, clock, timers
<1>2. /\ Clock \in Nat /\ base * PERIOD \in Nat /\ next_alarm * PERIOD \in Nat
      /\ wu_timeout * COUNTS_PER_DOZE_TICK \in Nat /\ snap \in Nat /\ slept \in Nat
      /\ lag \in Nat /\ lag <= MaxLag /\ MaxLag \in Nat /\ MaxWakeUp \in Nat /\ Phase \in Nat
    BY <1>1, AsleepTypes
<1>3. CASE PowerDown
    <2>1. base * PERIOD + Phase + wu_timeout * COUNTS_PER_DOZE_TICK
              <= next_alarm * PERIOD + MaxLag
        BY <1>2, <1>3 DEF PowerDown, DeadlineAhead, Clock
    <2> QED
        BY <1>1, <1>3, <2>1 DEF PowerDown, DeadlineAhead
<1>4. CASE WakeUp
    <2>1. PICK over \in 0..MaxWakeUp : slept' = wu_timeout * COUNTS_PER_DOZE_TICK + over
        BY <1>4 DEF WakeUp
    <2>2. base * PERIOD + snap + wu_timeout * COUNTS_PER_DOZE_TICK
              <= next_alarm * PERIOD + MaxLag
        BY <1>4 DEF WakeUp, DeadlineAhead
    <2>3. base * PERIOD + snap + slept' <= next_alarm * PERIOD + MaxLag + MaxWakeUp + 0
        BY <1>2, <2>1, <2>2
    <2> QED
        BY <1>1, <1>4, <2>3 DEF WakeUp, DeadlineAhead
<1>5. CASE SampleCounter
    BY <1>1, <1>5 DEF SampleCounter, DeadlineAhead
<1> QED
    BY <1>3, <1>4, <1>5

(* Every step keeps the deadline ahead of the sleep's end. *)
LEMMA DeadlineStep ==
    ShortDecision /\ ExecInv /\ DeadlineAhead /\ [ExecNext]_allVars => DeadlineAhead'
<1> SUFFICES ASSUME ShortDecision, ExecInv, DeadlineAhead, [ExecNext]_allVars
             PROVE  DeadlineAhead'
    OBVIOUS
<1>1. CASE Run
    BY <1>1, RunAhead
<1>2. CASE Decide
    BY <1>2, DecideAhead
<1>3. CASE ProgramSleep \/ PowerDown \/ WakeUp \/ SampleCounter
    BY <1>3, ProgramAhead, DozeAhead
<1>4. CASE pc' \notin {"program", "sync", "doze", "restarted", "sampled"}
    BY <1>4 DEF DeadlineAhead
<1>5. CASE /\ pc' = pc /\ ~Asleep
    BY <1>5 DEF DeadlineAhead, Asleep, Critical
<1>6. CASE UNCHANGED allVars
    <2>1. ClockKept /\ UNCHANGED <<pc, next_alarm, wu_timeout, lag, snap, slept>>
        BY <1>6 DEF allVars, vars, execVars, loop, doze, timers, ClockKept
    <2> QED
        BY <2>1, KeptFacts DEF DeadlineAhead
<1>7. TickHandler => pc' = pc /\ ~Asleep
    BY AsleepFacts DEF TickHandler, OnTick, ArmWrite, ArmCheck, ProcessQueue
<1>8. TickInterrupt \/ (\E t \in Tasks : PeripheralInterrupt(t)) => pc' = pc /\ ~Asleep
    BY DEF TickInterrupt, PeripheralInterrupt, execVars, loop, Asleep
<1>9. \/ Boot \/ ClearPended \/ Poll \/ PollEnd \/ PollTaskEnd
      \/ (\E t \in Tasks : PollTaskBegin(t)) \/ AwaitTimer \/ AwaitPeripheral \/ Yield
      \/ ResyncClock \/ LeaveCritical
      => pc' \notin {"program", "sync", "doze", "restarted", "sampled"}
    BY DEF Boot, execVars, loop, ClearPended, Poll, PollEnd, PollTaskEnd, PollTaskBegin,
           AwaitTimer, AwaitPeripheral, Yield, ResyncClock, LeaveCritical
<1> QED
    BY <1>1, <1>2, <1>3, <1>4, <1>5, <1>6, <1>7, <1>8, <1>9
    DEF ExecNext, PollLoop, SleepPath

(* A sleep ends by the earliest deadline, but for the delays of the chip:   *)
(* as long as no interrupt is held off through the ticks that are left when *)
(* the executor decides to sleep.                                           *)
THEOREM SleepsEndByDeadline ==
    ASSUME ShortDecision
    PROVE  ExecSpec => []SleepEndsByDeadline
<1>1. ExecInit => DeadlineAhead
    BY DEF ExecInit, DeadlineAhead
<1>2. ExecSpec => []DeadlineAhead
    BY <1>1, DeadlineStep, ExecInvariance, PTL DEF ExecSpec
<1>3. ASSUME ExecInv, DeadlineAhead, pc \in {"restarted", "sampled"}, NEW t \in Queued
      PROVE  base * PERIOD + snap + slept <= queue[t] * PERIOD + 2 * MaxLag + MaxWakeUp
    <2>1. Asleep
        BY <1>3 DEF Asleep, Critical
    <2>2. /\ next_alarm \in Nat /\ queue[t] \in Nat /\ next_alarm <= queue[t]
        BY <1>3, <2>1, AsleepTypes DEF ExecInv, DriverInv, AlarmSound, TypeOK, Queued
    <2>3. PERIOD \in Nat
        BY TimeDriverAssumption
    <2>4. next_alarm * PERIOD <= queue[t] * PERIOD /\ queue[t] * PERIOD \in Nat
        BY <2>2, <2>3, MulFacts
    <2>5. base * PERIOD + snap + slept <= next_alarm * PERIOD + MaxLag + MaxWakeUp + lag
        BY <1>3 DEF DeadlineAhead
    <2>6. /\ base * PERIOD \in Nat /\ snap \in Nat /\ slept \in Nat /\ next_alarm * PERIOD \in Nat
          /\ lag \in Nat /\ lag <= MaxLag /\ MaxLag \in Nat /\ MaxWakeUp \in Nat
        BY <1>3, <2>1, AsleepTypes
    <2> QED
        BY <2>4, <2>5, <2>6
<1>4. ExecInv /\ DeadlineAhead => SleepEndsByDeadline
    BY <1>3 DEF SleepEndsByDeadline
<1> QED
    BY <1>2, <1>4, ExecInvariance, PTL
-----------------------------------------------------------------------------
(* No sleep takes the 32-bit sleep timer through a whole turn: its wake-up  *)
(* is programmed below the end of the range by at least the wake-up delays. *)
(* Without this the time slept cannot be told (MCSleepyWrap shows it).      *)
ShortSleep ==
    wu_timeout * COUNTS_PER_DOZE_TICK + MaxWakeUp + MaxLag
        < (DOZE_MAX + 1) * COUNTS_PER_DOZE_TICK

(* The drift while TMR0 is stopped, from the snapshot and the sleep timer;  *)
(* the power-down gap counts before the sleep does.                         *)
DriftInv ==
    /\ DriftBounded
    /\ pc = "doze" =>
          /\ base * PERIOD + snap <= elapsed + sleeps * GainPerSleep
          /\ elapsed <= base * PERIOD + snap + sleeps * LossPerSleep
    /\ pc \in {"restarted", "sampled"} =>
          /\ sleeps > 0
          /\ base * PERIOD + snap + slept <= elapsed + (sleeps - 1) * GainPerSleep
          /\ elapsed <= base * PERIOD + snap + slept + MaxGap + (sleeps - 1) * LossPerSleep

(* The types of what the drift is made of. *)
LEMMA DriftTypes ==
    ASSUME ExecInv
    PROVE  /\ base * PERIOD \in Nat /\ snap \in Nat /\ slept \in Nat /\ elapsed \in Nat
           /\ sleeps \in Nat /\ Clock \in Nat /\ MaxGap \in Nat /\ MaxLag \in Nat
           /\ MaxWakeUp \in Nat /\ lag \in Nat /\ lag <= MaxLag
           /\ GainPerSleep \in Nat /\ LossPerSleep \in Nat
           /\ COUNTS_PER_DOZE_TICK \in Nat \ {0} /\ COUNTS_PER_DOZE_TICK \div 2 \in Nat
           /\ LossPerSleep = MaxGap + COUNTS_PER_DOZE_TICK - 1 - COUNTS_PER_DOZE_TICK \div 2
           /\ GainPerSleep = COUNTS_PER_DOZE_TICK \div 2 + MaxLag
           /\ sleeps * GainPerSleep \in Nat /\ sleeps * LossPerSleep \in Nat
<1> DEFINE h == COUNTS_PER_DOZE_TICK \div 2
<1>1. /\ COUNTS_PER_DOZE_TICK \in Nat \ {0} /\ MaxGap \in Nat /\ MaxLag \in Nat
      /\ MaxWakeUp \in Nat /\ PERIOD \in Nat
    BY SleepyExecutorAssumption, TimeDriverAssumption
<1>2. h \in Nat /\ h <= COUNTS_PER_DOZE_TICK - 1
    <2>1. h \in Nat /\ h * 2 <= COUNTS_PER_DOZE_TICK /\ COUNTS_PER_DOZE_TICK < h * 2 + 2
        BY <1>1, DivFacts
    <2> QED
        BY <1>1, <2>1
<1>3. /\ base \in Nat /\ snap \in Nat /\ slept \in Nat /\ elapsed \in Nat /\ sleeps \in Nat
      /\ lag \in 0..MaxLag /\ seen \in Nat
    BY DEF ExecInv, ExecTypeOK, DriverInv, TypeOK
<1>4. Clock \in Nat
    BY <1>3, SeenNow DEF ExecInv, DriverInv
<1> HIDE DEF h
<1>5. /\ GainPerSleep = h + MaxLag /\ LossPerSleep = MaxGap + COUNTS_PER_DOZE_TICK - 1 - h
    BY DEF GainPerSleep, LossPerSleep, h
<1>6. GainPerSleep \in Nat /\ LossPerSleep \in Nat
    BY <1>1, <1>2, <1>5
<1>7. base * PERIOD \in Nat /\ sleeps * GainPerSleep \in Nat /\ sleeps * LossPerSleep \in Nat
    BY <1>1, <1>3, <1>6, MulFacts
<1> QED
    BY <1>1, <1>2, <1>3, <1>4, <1>5, <1>6, <1>7 DEF h

(* Outside the sleep, clock and real time advance together or not at all. *)
LEMMA ClockRuns ==
    ASSUME ExecInv, [ExecNext]_allVars, ~ClockStopped, ~ClockStopped'
    PROVE  /\ sleeps' = sleeps
           /\ \/ Clock' = Clock /\ elapsed' = elapsed
              \/ Clock' = Clock + 1 /\ elapsed' = elapsed + 1
<1> USE DEF ExecInv
<1>1. CASE InitDriver /\ UNCHANGED execVars /\ pc = "boot"
    <2>1. Phase' = 0 /\ Phase = 0 /\ base' = base
        BY <1>1 DEF InitDriver, ConfigureTmr0, Phase, WSub, SleepShape
    <2> QED
        BY <1>1, <2>1 DEF InitDriver, Clock, execVars, doze
<1>2. CASE Run
    BY <1>2, CountFacts DEF Run
<1>3. CASE ClockKept /\ sleeps' = sleeps
    BY <1>3, KeptFacts
<1>4. CASE TickInterrupt
    BY <1>4 DEF TickInterrupt, Tmr0Isr, Clock, Phase, clock, execVars, doze
<1>5. CASE TickHandler
    <2>1. sleeps' = sleeps /\ elapsed' = elapsed /\ cntr' = cntr
        BY <1>5 DEF TickHandler, OnTick, ArmWrite, ArmCheck, ProcessQueue, doze, tmr
    <2>2. TypeOK /\ Phase \in Nat /\ PERIOD \in Nat \ {0} /\ 1 * PERIOD = PERIOD
        BY PhaseType, TimeDriverAssumption DEF DriverInv
    <2>3. CASE OnTick
        <3> DEFINE n == Phase \div PERIOD
        <3>1. n \in Nat /\ n * PERIOD <= Phase /\ AddPeriods(n)
            BY <2>2, <2>3, DivFacts DEF OnTick
        <3> HIDE DEF n
        <3> QED
            BY <2>1, <2>2, <3>1, AddPeriodsFacts
    <2>4. CASE AddPeriods(1) /\ Phase >= PERIOD
        BY <2>1, <2>2, <2>4, AddPeriodsFacts
    <2>5. CASE UNCHANGED clock
        BY <2>1, <2>5 DEF clock, Clock, Phase
    <2> QED
        BY <1>5, <2>3, <2>4, <2>5 DEF TickHandler, ArmWrite, ArmCheck, ProcessQueue
<1>6. CASE SleepPath
    BY <1>3, <1>6 DEF SleepPath, ProgramSleep, PowerDown, WakeUp, SampleCounter, ResyncClock,
       LeaveCritical, ClockStopped, ClockKept, vars
<1>7. CASE PollLoop \/ AwaitPeripheral \/ Yield \/ AwaitTimer \/ Boot
    BY <1>1, <1>3, <1>7 DEF PollLoop, AwaitPeripheral, Yield, AwaitTimer, Boot, ClearPended, Poll,
       PollEnd, Decide, PollTaskEnd, PollTaskBegin, ClockKept, vars, doze, ScheduleWake, tmr, clock
<1>8. CASE UNCHANGED allVars
    BY <1>3, <1>8 DEF allVars, vars, execVars, doze, ClockKept
<1>9. ASSUME NEW t \in Tasks, PeripheralInterrupt(t)
      PROVE  ClockKept /\ sleeps' = sleeps
    BY <1>9 DEF PeripheralInterrupt, ClockKept, doze, tmr, clock
<1> QED
    BY <1>2, <1>3, <1>4, <1>5, <1>6, <1>7, <1>8, <1>9 DEF ExecNext

(* While the counter runs, clock and real time move together. *)
LEMMA DriftWhileRunning ==
    ASSUME ExecInv, DriftInv, [ExecNext]_allVars, ~ClockStopped, ~ClockStopped'
    PROVE  DriftInv'
<1>1. /\ Clock <= elapsed + sleeps * GainPerSleep
      /\ elapsed <= Clock + sleeps * LossPerSleep
    BY DEF DriftInv, DriftBounded
<1>2. GainPerSleep' = GainPerSleep /\ LossPerSleep' = LossPerSleep
    BY DEF GainPerSleep, LossPerSleep
<1>3. /\ Clock \in Nat /\ elapsed \in Nat
      /\ sleeps * GainPerSleep \in Nat /\ sleeps * LossPerSleep \in Nat
    BY DriftTypes
<1>4. /\ Clock' <= elapsed' + sleeps * GainPerSleep
      /\ elapsed' <= Clock' + sleeps * LossPerSleep
    BY <1>1, <1>3, ClockRuns
<1> QED
    BY <1>2, <1>4, ClockRuns DEF DriftInv, DriftBounded, ClockStopped

(* Stopping the clocks keeps the drift within its bound. *)
LEMMA DriftIntoSleep ==
    ASSUME ExecInv, DriftInv, PowerDown
    PROVE  DriftInv'
<1>1. /\ Clock <= elapsed + sleeps * GainPerSleep
      /\ elapsed <= Clock + sleeps * LossPerSleep
      /\ Clock = base * PERIOD + Phase
    BY DEF PowerDown, ClockStopped, DriftInv, DriftBounded, Clock
<1>2. /\ pc' = "doze" /\ snap' = Phase
      /\ UNCHANGED <<base, elapsed, sleeps>>
    BY DEF PowerDown, vars, clock
<1>3. GainPerSleep' = GainPerSleep /\ LossPerSleep' = LossPerSleep
    BY DEF GainPerSleep, LossPerSleep
<1> QED
    BY <1>1, <1>2, <1>3 DEF DriftInv, DriftBounded, ClockStopped

(* The end of a sleep keeps the drift within its bound. *)
LEMMA DriftAtWakeUp ==
    ASSUME ExecInv, DriftInv, WakeUp
    PROVE  DriftInv'
<1>1. /\ base * PERIOD + snap <= elapsed + sleeps * GainPerSleep
      /\ elapsed <= base * PERIOD + snap + sleeps * LossPerSleep
    BY DEF WakeUp, DriftInv
<1>2. PICK gap \in 0..MaxGap, over \in 0..MaxWakeUp :
          /\ slept' = wu_timeout * COUNTS_PER_DOZE_TICK + over
          /\ elapsed' = elapsed + gap + slept'
    BY DEF WakeUp
<1>3. /\ base * PERIOD \in Nat /\ snap \in Nat /\ elapsed \in Nat /\ sleeps \in Nat
      /\ sleeps * GainPerSleep \in Nat /\ sleeps * LossPerSleep \in Nat /\ MaxGap \in Nat
      /\ MaxWakeUp \in Nat
    BY DriftTypes
<1>4. wu_timeout * COUNTS_PER_DOZE_TICK \in Nat
    BY MulFacts, SleepyExecutorAssumption DEF ExecInv, ExecTypeOK
<1>5. PICK z \in Nat : slept' = z
    BY <1>2, <1>3, <1>4
<1>6. /\ base * PERIOD + snap + z <= elapsed' + sleeps * GainPerSleep
      /\ elapsed' <= base * PERIOD + snap + z + MaxGap + sleeps * LossPerSleep
    BY <1>1, <1>2, <1>3, <1>5
<1>7. /\ pc' = "restarted" /\ sleeps' = sleeps + 1 /\ (sleeps + 1) - 1 = sleeps /\ sleeps + 1 > 0
      /\ base' = base /\ snap' = snap
    BY <1>3 DEF WakeUp
<1>8. GainPerSleep' = GainPerSleep /\ LossPerSleep' = LossPerSleep
    BY DEF GainPerSleep, LossPerSleep
<1> QED
    BY <1>5, <1>6, <1>7, <1>8 DEF DriftInv, DriftBounded, ClockStopped

(* A sleep under way has its own share of the bound. *)
LEMMA DriftOfSleep ==
    ASSUME ExecInv, DriftInv, pc \in {"restarted", "sampled"}
    PROVE  \E g \in Nat, l \in Nat :
              /\ g = (sleeps - 1) * GainPerSleep /\ l = (sleeps - 1) * LossPerSleep
              /\ sleeps * GainPerSleep = g + GainPerSleep
              /\ sleeps * LossPerSleep = l + LossPerSleep
              /\ base * PERIOD + snap + slept <= elapsed + g
              /\ elapsed <= base * PERIOD + snap + slept + MaxGap + l
<1>1. sleeps \in Nat /\ sleeps > 0 /\ GainPerSleep \in Nat /\ LossPerSleep \in Nat
    BY DriftTypes DEF DriftInv
<1>2. PICK n \in Nat : sleeps = n + 1 /\ sleeps - 1 = n
    <2>1. sleeps - 1 \in Nat /\ sleeps = (sleeps - 1) + 1
        BY <1>1
    <2> QED
        BY <2>1
<1>3. /\ (n + 1) * GainPerSleep = n * GainPerSleep + 1 * GainPerSleep
      /\ (n + 1) * LossPerSleep = n * LossPerSleep + 1 * LossPerSleep
      /\ n * GainPerSleep \in Nat /\ n * LossPerSleep \in Nat
      /\ 1 * GainPerSleep = GainPerSleep /\ 1 * LossPerSleep = LossPerSleep
    BY <1>1, MulFacts
<1> QED
    BY <1>2, <1>3 DEF DriftInv

(* Counts that pass while the counter still stands keep the drift within    *)
(* its bound.                                                               *)
LEMMA DriftWhileStopped ==
    ASSUME ExecInv, DriftInv, Run, pc \in {"restarted", "sampled"}
    PROVE  DriftInv'
<1>1. /\ slept' = slept + 1 /\ elapsed' = elapsed + 1 /\ pc' = pc
      /\ UNCHANGED <<base, snap, sleeps>>
    BY CountFacts DEF Run, loop
<1>2. PICK g \in Nat, l \in Nat :
          /\ g = (sleeps - 1) * GainPerSleep /\ l = (sleeps - 1) * LossPerSleep
          /\ base * PERIOD + snap + slept <= elapsed + g
          /\ elapsed <= base * PERIOD + snap + slept + MaxGap + l
    BY DriftOfSleep
<1>3. /\ base * PERIOD \in Nat /\ snap \in Nat /\ elapsed \in Nat /\ slept \in Nat
      /\ MaxGap \in Nat
    BY DriftTypes
<1>4. /\ base * PERIOD + snap + (slept + 1) <= (elapsed + 1) + g
      /\ elapsed + 1 <= base * PERIOD + snap + (slept + 1) + MaxGap + l
    BY <1>2, <1>3
<1>5. GainPerSleep' = GainPerSleep /\ LossPerSleep' = LossPerSleep
    BY DEF GainPerSleep, LossPerSleep
<1> QED
    BY <1>1, <1>2, <1>4, <1>5 DEF DriftInv, DriftBounded, ClockStopped

(* A sleep that does not turn the sleep timer is counted to within a tick.  *)
LEMMA DriftAtResync ==
    ASSUME ExecInv, DriftInv, ShortSleep, ResyncClock
    PROVE  DriftInv'
<1> DEFINE C == COUNTS_PER_DOZE_TICK
           h == C \div 2
           T == TimerCount * C
<1>1. PICK g \in Nat, l \in Nat :
          /\ sleeps * GainPerSleep = g + GainPerSleep
          /\ sleeps * LossPerSleep = l + LossPerSleep
          /\ base * PERIOD + snap + slept <= elapsed + g
          /\ elapsed <= base * PERIOD + snap + slept + MaxGap + l
    BY DriftOfSleep DEF ResyncClock
<1>2. /\ base * PERIOD \in Nat /\ snap \in Nat /\ elapsed \in Nat /\ slept \in Nat
      /\ MaxGap \in Nat /\ MaxLag \in Nat /\ lag \in Nat /\ lag <= MaxLag
      /\ C \in Nat \ {0} /\ h \in Nat
      /\ GainPerSleep = h + MaxLag /\ LossPerSleep = MaxGap + C - 1 - h
    BY DriftTypes
<1>3. cntr \in Nat /\ sampled \in Nat /\ sampled <= cntr /\ cntr <= lag
    BY DEF ResyncClock, ExecInv, SleepShape, DriverInv, TypeOK, ExecTypeOK, Word
<1>4. T \in Nat /\ T <= slept /\ slept <= T + C - 1
    <2> DEFINE d == slept \div C
    <2>1. d \in Nat /\ d * C <= slept /\ slept < d * C + C /\ d * C \in Nat
        BY <1>2, DivFacts, MulFacts
    <2>2. slept <= wu_timeout * C + MaxWakeUp + lag
        BY DEF ResyncClock, ExecInv, SleepShape
    <2>3. DOZE_MAX + 1 \in Nat \ {0} /\ (DOZE_MAX + 1) * C \in Nat /\ MaxWakeUp \in Nat
          /\ wu_timeout * C \in Nat
        <3>1. DOZE_MAX + 1 \in Nat \ {0} /\ MaxWakeUp \in Nat /\ wu_timeout \in Nat
            BY SleepyExecutorAssumption DEF ExecInv, ExecTypeOK
        <3> QED
            BY <1>2, <3>1, MulFacts
    <2>4. d * C < (DOZE_MAX + 1) * C
        BY <1>2, <2>1, <2>2, <2>3 DEF ShortSleep
    <2> HIDE DEF d
    <2>5. d < DOZE_MAX + 1
        <3>1. SUFFICES ASSUME DOZE_MAX + 1 <= d PROVE FALSE
            BY <2>1, <2>3
        <3>2. (DOZE_MAX + 1) * C <= d * C
            BY <1>2, <2>1, <2>3, <3>1, MulFacts
        <3> QED
            BY <2>1, <2>3, <2>4, <3>2
    <2>6. d % (DOZE_MAX + 1) = d
        BY <2>1, <2>3, <2>5
    <2>7. TimerCount = d
        BY <2>6 DEF TimerCount, d
    <2> QED
        BY <1>2, <2>1, <2>7
<1> HIDE DEF h, T
<1>5. Clock' = base * PERIOD + snap + T + h + (cntr - sampled)
    BY ResyncFacts DEF T, h
<1>6. /\ Clock' <= elapsed + sleeps * GainPerSleep
      /\ elapsed <= Clock' + sleeps * LossPerSleep
    BY <1>1, <1>2, <1>3, <1>4, <1>5
<1>7. pc' = "rearm" /\ elapsed' = elapsed /\ sleeps' = sleeps
      /\ GainPerSleep' = GainPerSleep /\ LossPerSleep' = LossPerSleep
    BY DEF ResyncClock, doze, GainPerSleep, LossPerSleep
<1> QED
    BY <1>6, <1>7 DEF DriftInv, DriftBounded

(* Every step keeps the drift within its bound. *)
LEMMA DriftStep ==
    ExecInv /\ ShortSleep /\ DriftInv /\ [ExecNext]_allVars => DriftInv'
<1> SUFFICES ASSUME ExecInv, ShortSleep, DriftInv, [ExecNext]_allVars PROVE DriftInv'
    OBVIOUS
<1>1. CASE ~ClockStopped /\ ~ClockStopped'
    BY <1>1, DriftWhileRunning
<1>2. CASE PowerDown
    BY <1>2, DriftIntoSleep
<1>3. CASE WakeUp
    BY <1>3, DriftAtWakeUp
<1>4. CASE Run /\ ClockStopped
    BY <1>4, DriftWhileStopped DEF Run, ClockStopped
<1>5. CASE ResyncClock
    BY <1>5, DriftAtResync
<1>6. CASE \/ UNCHANGED <<pc, base, snap, slept, elapsed, sleeps>> /\ ClockStopped
           \/ SampleCounter
    <2>1. GainPerSleep' = GainPerSleep /\ LossPerSleep' = LossPerSleep
        BY DEF GainPerSleep, LossPerSleep
    <2>2. UNCHANGED <<base, snap, slept, elapsed, sleeps>>
        BY <1>6 DEF SampleCounter, vars, clock
    <2> QED
        BY <1>6, <2>1, <2>2 DEF SampleCounter, DriftInv, DriftBounded, ClockStopped
<1>7. CASE UNCHANGED allVars
    BY <1>1, <1>6, <1>7 DEF allVars, vars, execVars, loop, doze, clock, ClockStopped
<1>8. ClockStopped => /\ ~TickHandler /\ ~TickInterrupt /\ ~Boot /\ ~PollLoop
                      /\ ~AwaitTimer /\ ~AwaitPeripheral /\ ~Yield
                      /\ \A t \in Tasks : ~PeripheralInterrupt(t)
    <2> SUFFICES ASSUME ClockStopped
                 PROVE  /\ ~TickHandler /\ ~TickInterrupt /\ ~Boot /\ ~PollLoop
                        /\ ~AwaitTimer /\ ~AwaitPeripheral /\ ~Yield
                        /\ \A t \in Tasks : ~PeripheralInterrupt(t)
        OBVIOUS
    <2>1. isr = "idle" /\ Critical /\ pc \in {"doze", "restarted", "sampled"}
        BY AsleepFacts DEF ClockStopped, Asleep, Critical
    <2> QED
        BY <2>1 DEF TickHandler, OnTick, ArmWrite, ArmCheck, ProcessQueue, TickInterrupt, Boot,
           PollLoop, ClearPended, Poll, PollEnd, Decide, PollTaskEnd, PollTaskBegin, AwaitTimer,
           AwaitPeripheral, Yield, PeripheralInterrupt
<1>9. ~ClockStopped /\ ClockStopped' => PowerDown \/ WakeUp \/ SampleCounter
    BY DEF ExecNext, Boot, Run, TickInterrupt, TickHandler, PeripheralInterrupt, PollLoop, ClearPended,
       Poll, PollEnd, Decide, PollTaskEnd, PollTaskBegin, AwaitTimer, AwaitPeripheral, Yield,
       SleepPath, ProgramSleep, ResyncClock, LeaveCritical, ClockStopped, allVars, execVars, loop
<1> QED
    BY <1>1, <1>2, <1>3, <1>4, <1>5, <1>6, <1>7, <1>8, <1>9
    DEF ExecNext, SleepPath, ProgramSleep, LeaveCritical, ClockStopped

(* The clock keeps real time to within the bounds that every sleep adds, as *)
(* long as no sleep turns the sleep timer.                                  *)
THEOREM ClockDriftIsBounded == ExecSpec /\ []ShortSleep => []DriftBounded
<1>1. ExecInit => DriftInv
    <2> SUFFICES ASSUME ExecInit PROVE DriftInv
        OBVIOUS
    <2>1. ExecInv /\ sleeps = 0 /\ elapsed = 0 /\ pc = "boot"
        BY ExecInitInv DEF ExecInit, Init
    <2>2. Clock = 0
        BY <2>1, TimeDriverAssumption DEF ExecInit, Init, Clock, Phase, WSub
    <2>3. sleeps * GainPerSleep \in Nat /\ sleeps * LossPerSleep \in Nat
        BY <2>1, DriftTypes
    <2> QED
        BY <2>1, <2>2, <2>3 DEF DriftInv, DriftBounded
<1>2. DriftInv => DriftBounded
    BY DEF DriftInv
<1> QED
    BY <1>1, <1>2, DriftStep, ExecInvariance, PTL DEF ExecSpec
=============================================================================
