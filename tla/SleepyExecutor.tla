--------------------------- MODULE SleepyExecutor ---------------------------
(***************************************************************************)
(* The sleep-aware executor of mc1322x-embassy (sleepy_executor.rs), on    *)
(* the time driver it reads and resynchronises (time_driver.rs) and the    *)
(* Doze entry of mc1322x-hal (sleep.rs).                                   *)
(*                                                                         *)
(* The run loop is thread code: clear PENDED, poll what is runnable, then, *)
(* in one critical section, check that nothing was woken, program the      *)
(* sleep timer, sleep and resynchronise TMR0.  Interrupts (TMR0, the       *)
(* peripherals) run between any two of its steps outside that section, and *)
(* time passes between any two of its steps everywhere.                    *)
(***************************************************************************)
EXTENDS TimeDriver

CONSTANTS MIN_SLEEP_TICKS,      \* 20
          COUNTS_PER_DOZE_TICK, \* TMR0 counts per sleep timer tick: 2
          DOZE_MAX,             \* u32::MAX, the largest sleep timer value
          MaxLag,   \* counts between two reads of the clocks in the sleep path
          MaxGap,   \* counts from the last TMR0 read to power-down
          MaxWakeUp \* counts the wake-up sequence runs past the timeout

ASSUME SleepyExecutorAssumption ==
    /\ MIN_SLEEP_TICKS \in Nat \ {0} /\ COUNTS_PER_DOZE_TICK \in Nat \ {0}
    /\ DOZE_MAX \in Nat /\ MaxGap \in Nat /\ MaxWakeUp \in Nat
    /\ MaxLag \in Nat /\ MaxLag < PERIOD /\ PERIOD + MaxHeld + MaxLag < WRAP

VARIABLES
    pc,         \* where SleepyExecutor::run stands
    pended,     \* PENDED
    batch,      \* tasks poll() has dequeued and not polled yet
    cur,        \* the task being polled, or None
    waiting,    \* tasks whose peripheral wait holds a SleepInhibitGuard
    inflight,   \* of these, the ones whose interrupt has not come yet
    wu_timeout, \* CRM WU_TIMEOUT
    snap,       \* counts_before_sleep
    slept,      \* counts since the sleep timer restarted
    sampled,    \* TMR0 counter as resync_after_sleep read it
    lag,        \* history: counts since the sleep path last read the clocks
    seen,       \* history: the last now() a task read
    sleeps      \* history: sleeps so far

loop    == <<pc, pended, batch, cur>>
waits   == <<waiting, inflight>>
doze    == <<wu_timeout, snap, slept, sampled, lag, sleeps>>
execVars == <<loop, waits, doze, seen>>
allVars == <<vars, execVars>>

(* run()'s critical section: interrupts are masked. *)
Critical == pc \in {"program", "sync", "doze", "restarted", "sampled", "rearm"}

(* TMR0's registers describe time again only after the resync. *)
ClockStopped == pc \in {"doze", "restarted", "sampled"}

(* SleepInhibitGuard::count() *)
InhibitCount == Cardinality(waiting)

SatSub(a, b) == IF a >= b THEN a - b ELSE 0   \* saturating_sub
-----------------------------------------------------------------------------
(* raw::Executor enqueues a woken task and calls the Pender when the run    *)
(* queue was empty; what poll() has dequeued is no longer in it.            *)
PendIfEmpty == woken \ batch = {} /\ woken' \ woken # {}

Pend == pended' = (pended \/ PendIfEmpty)

ExecInit ==
    /\ Init
    /\ pc = "boot" /\ pended = FALSE /\ batch = {} /\ cur = None
    /\ waiting = {} /\ inflight = {}
    /\ wu_timeout = 0 /\ snap = 0 /\ slept = 0 /\ sampled = 0 /\ lag = 0
    /\ seen = 0 /\ sleeps = 0

(* crate::init() starts the time driver, then run() spawns the tasks. *)
Boot ==
    /\ pc = "boot"
    /\ \/ InitDriver /\ UNCHANGED execVars
       \/ /\ started
          /\ pc' = "clear" /\ pended' = TRUE /\ woken' = Tasks
          /\ UNCHANGED <<started, tmr, clock, queue, next_alarm, due, isr, elapsed, held>>
          /\ UNCHANGED <<batch, cur, waits, doze, seen>>

(* Time passes while the CPU runs. *)
Run ==
    /\ pc # "boot" /\ pc # "doze"
    /\ Count
    /\ pc \in {"sync", "restarted", "sampled"} => lag < MaxLag
    /\ lag' = IF pc \in {"sync", "restarted", "sampled"} THEN lag + 1 ELSE lag
    /\ slept' = IF pc \in {"restarted", "sampled"} THEN slept + 1 ELSE slept
    /\ UNCHANGED <<loop, waits, seen, wu_timeout, snap, sampled, sleeps>>

(* The TMR0 interrupt, masked in the critical section; its handler, and the *)
(* part of it that resync_after_sleep shares, wakes timers.                 *)
TickInterrupt ==
    /\ ~Critical /\ Tmr0Isr
    /\ UNCHANGED execVars

TickHandler ==
    /\ \/ OnTick /\ UNCHANGED pended
       \/ ArmWrite /\ UNCHANGED pended
       \/ ArmCheck /\ UNCHANGED pended
       \/ ProcessQueue /\ Pend
    /\ UNCHANGED <<pc, batch, cur, waits, doze, seen>>

(* A peripheral interrupt wakes the task that waits for it. *)
PeripheralInterrupt(t) ==
    /\ ~Critical /\ isr = "idle" /\ t \in inflight
    /\ inflight' = inflight \ {t}
    /\ woken' = woken \cup {t} /\ Pend
    /\ UNCHANGED <<started, tmr, clock, queue, next_alarm, due, isr, elapsed, held>>
    /\ UNCHANGED <<pc, batch, cur, waiting, doze, seen>>
-----------------------------------------------------------------------------
ClearPended ==
    /\ pc = "clear" /\ isr = "idle"
    /\ pc' = "poll" /\ pended' = FALSE
    /\ UNCHANGED <<vars, batch, cur, waits, doze, seen>>

MutPollOne ==
    /\ pc = "poll" /\ isr = "idle"
    /\ pc' = "run" /\ batch' = IF woken = {} THEN {} ELSE {CHOOSE t \in woken : TRUE}
    /\ UNCHANGED <<vars, pended, cur, waits, doze, seen>>

(* raw::Executor::poll takes the whole run queue. *)
Poll ==
    /\ pc = "poll" /\ isr = "idle"
    /\ pc' = "run" /\ batch' = woken
    /\ UNCHANGED <<vars, pended, cur, waits, doze, seen>>

(* One dequeued task is polled: it reads the time; a peripheral wait that   *)
(* has completed drops its guard, one still in flight is kept or dropped.   *)
PollTaskBegin(t) ==
    /\ pc = "run" /\ isr = "idle" /\ cur = None /\ t \in batch
    /\ cur' = t /\ batch' = batch \ {t} /\ woken' = woken \ {t}
    /\ seen' = Now
    /\ \/ t \in inflight /\ UNCHANGED waits
       \/ waiting' = waiting \ {t} /\ inflight' = inflight \ {t}
    /\ UNCHANGED <<started, tmr, clock, queue, next_alarm, due, isr, elapsed, held>>
    /\ UNCHANGED <<pc, pended, doze>>

(* The task awaits an embassy-time timer (past due only if the deadline     *)
(* went by since it read the time) ...                                      *)
AwaitTimer ==
    /\ pc = "run" /\ cur # None
    /\ \E at \in Now..MaxAt : ScheduleWake(cur, at)
    /\ Pend
    /\ UNCHANGED <<pc, batch, cur, waits, doze, seen>>

(* ... or a peripheral of mc1322x-hal, under a SleepInhibitGuard ...        *)
AwaitPeripheral ==
    /\ pc = "run" /\ isr = "idle" /\ cur # None
    /\ waiting' = waiting \cup {cur} /\ inflight' = inflight \cup {cur}
    /\ UNCHANGED <<vars, loop, doze, seen>>

(* ... or yields (yield_now wakes the task itself) ...                      *)
Yield ==
    /\ pc = "run" /\ isr = "idle" /\ cur # None
    /\ woken' = woken \cup {cur} /\ Pend
    /\ UNCHANGED <<started, tmr, clock, queue, next_alarm, due, isr, elapsed, held>>
    /\ UNCHANGED <<pc, batch, cur, waits, doze, seen>>

(* ... and its poll returns.                                                *)
PollTaskEnd ==
    /\ pc = "run" /\ isr = "idle" /\ cur # None
    /\ cur' = None
    /\ UNCHANGED <<vars, pc, pended, batch, waits, doze, seen>>

PollEnd ==
    /\ pc = "run" /\ isr = "idle" /\ cur = None /\ batch = {}
    /\ pc' = "decide"
    /\ UNCHANGED <<vars, pended, batch, cur, waits, doze, seen>>
-----------------------------------------------------------------------------
(* ticks_until_next_wake(), when a timer is scheduled. *)
TicksUntilNextWake == SatSub(next_alarm, Now)

MutWorthSleepingUnpended ==
    /\ InhibitCount = 0
    /\ next_alarm # None
    /\ TicksUntilNextWake >= MIN_SLEEP_TICKS

WorthSleeping ==
    /\ ~pended /\ InhibitCount = 0
    /\ next_alarm # None
    /\ TicksUntilNextWake >= MIN_SLEEP_TICKS

(* The critical section is entered and the executor decides; not sleeping   *)
(* leaves it at once.                                                       *)
Decide ==
    /\ pc = "decide" /\ isr = "idle"
    /\ IF WorthSleeping
       THEN pc' = "program" ELSE pc' = "clear"
    /\ UNCHANGED <<vars, pended, batch, cur, waits, doze, seen>>

MutDozeTicksFromBoundary ==
    LET counts == SatSub(next_alarm, base) * PERIOD
    IN  Sooner(counts \div COUNTS_PER_DOZE_TICK, DOZE_MAX)

(* doze_ticks_until_next_wake(), from TMR0's current position. *)
DozeTicks ==
    LET counts == SatSub(SatSub(next_alarm, base) * PERIOD, Phase)
    IN  Sooner(counts \div COUNTS_PER_DOZE_TICK, DOZE_MAX)

(* sleep_with() writes WU_TIMEOUT and requests the sleep ... *)
ProgramSleep ==
    /\ pc = "program"
    /\ pc' = "sync" /\ wu_timeout' = DozeTicks /\ lag' = 0
    /\ UNCHANGED <<vars, pended, batch, cur, waits, seen, snap, slept, sampled, sleeps>>

(* ... waits for SLEEP_SYNC, reads TMR0 a last time and lets power drop.    *)
PowerDown ==
    /\ pc = "sync"
    /\ pc' = "doze" /\ snap' = Phase
    /\ UNCHANGED <<vars, pended, batch, cur, waits, seen, wu_timeout, slept, sampled, lag, sleeps>>

(* TMR0 runs on for gap counts and stops.  The sleep timer restarts, wakes  *)
(* the chip at WU_TIMEOUT and runs on through the wake-up sequence.  The    *)
(* resync then starts with configure_tmr0.                                  *)
WakeUp ==
    /\ pc = "doze"
    /\ \E gap \in 0..MaxGap, over \in 0..MaxWakeUp :
          /\ slept' = wu_timeout * COUNTS_PER_DOZE_TICK + over
          /\ elapsed' = elapsed + gap + slept'
    /\ ConfigureTmr0
    /\ pc' = "restarted" /\ lag' = 0 /\ held' = 0 /\ sleeps' = sleeps + 1
    /\ UNCHANGED <<started, base, timers, isr>>
    /\ UNCHANGED <<pended, batch, cur, waits, seen, wu_timeout, snap, sampled>>

(* resync_after_sleep reads TMR0's counter ...                              *)
SampleCounter ==
    /\ pc = "restarted"
    /\ pc' = "sampled" /\ sampled' = cntr
    /\ UNCHANGED <<vars, pended, batch, cur, waits, seen, wu_timeout, snap, slept, lag, sleeps>>

(* sleep::timer_count(): WU_COUNT, a 32-bit register. *)
TimerCount == (slept \div COUNTS_PER_DOZE_TICK) % (DOZE_MAX + 1)

MutRestWithoutSnapshot(before) ==
    (TimerCount % PERIOD) * COUNTS_PER_DOZE_TICK + COUNTS_PER_DOZE_TICK \div 2

(* Whole ticks and remaining counts slept, as resync_after_sleep adds them up. *)
RestOfSleep(before) ==
    (TimerCount % PERIOD) * COUNTS_PER_DOZE_TICK + COUNTS_PER_DOZE_TICK \div 2 + before

MutResyncClockDropsPending ==
    /\ pc = "sampled"
    /\ base' = base + (TimerCount \div PERIOD) * COUNTS_PER_DOZE_TICK
    /\ last_boundary' = WSub(sampled, RestOfSleep(snap) % PERIOD)
    /\ isr' = "arm" /\ pc' = "rearm"
    /\ UNCHANGED <<started, tmr, timers, elapsed, held>>
    /\ UNCHANGED <<pended, batch, cur, waits, doze, seen>>

(* ... then the sleep timer, adds the time slept to the clock and re-arms   *)
(* the compare and the timer queue like the interrupt handler does.         *)
ResyncClock ==
    /\ pc = "sampled"
    /\ LET rest == RestOfSleep(snap)
       IN  /\ base' = base + (TimerCount \div PERIOD) * COUNTS_PER_DOZE_TICK
                           + rest \div PERIOD
           /\ last_boundary' = WSub(sampled, rest % PERIOD)
    /\ isr' = "arm" /\ pc' = "rearm"
    /\ UNCHANGED <<started, tmr, timers, elapsed, held>>
    /\ UNCHANGED <<pended, batch, cur, waits, doze, seen>>

LeaveCritical ==
    /\ pc = "rearm" /\ isr = "idle"
    /\ pc' = "clear"
    /\ wu_timeout' = 0 /\ snap' = 0 /\ slept' = 0 /\ sampled' = 0 /\ lag' = 0
    /\ UNCHANGED <<vars, pended, batch, cur, waits, seen, sleeps>>
-----------------------------------------------------------------------------
SleepPath ==
    ProgramSleep \/ PowerDown \/ WakeUp \/ SampleCounter \/ ResyncClock \/ LeaveCritical

PollLoop ==
    \/ ClearPended \/ Poll \/ PollEnd \/ Decide
    \/ PollTaskEnd
    \/ \E t \in Tasks : PollTaskBegin(t)

ExecNext ==
    \/ Boot
    \/ Run
    \/ TickInterrupt \/ TickHandler
    \/ \E t \in Tasks : PeripheralInterrupt(t)
    \/ PollLoop
    \/ AwaitTimer \/ AwaitPeripheral \/ Yield
    \/ SleepPath

ExecSpec == ExecInit /\ [][ExecNext]_allVars

(* The CPU always executes something: the run loop advances whenever no     *)
(* interrupt handler runs, handlers run to their end, time passes.          *)
FairExecSpec ==
    /\ ExecSpec
    /\ WF_allVars(Boot) /\ WF_allVars(Run)
    /\ WF_allVars(TickInterrupt) /\ WF_allVars(TickHandler)
    /\ WF_allVars(PollLoop) /\ WF_allVars(SleepPath)
    /\ WF_allVars(PollTaskEnd)
-----------------------------------------------------------------------------
(* The chip never sleeps on runnable work: between the decision and the     *)
(* resync no task is in the run queue and no task waits for a peripheral    *)
(* whose clock Doze stops, although interrupts may wake one at any moment   *)
(* before the critical section.                                             *)
NoSleepOnWork ==
    Critical /\ pc # "rearm" => woken = {} /\ waiting = {}

(* A sleep does not overrun the earliest timer: it ends at the deadline,    *)
(* late by no more than SLEEP_SYNC took and the wake-up sequence takes.     *)
SleepEndsByDeadline ==
    pc \in {"restarted", "sampled"} =>
        \A t \in Queued :
            base * PERIOD + snap + slept
                <= queue[t] * PERIOD + 2 * MaxLag + MaxWakeUp

(* What one sleep can add to the clock too much, and leave out. *)
GainPerSleep == COUNTS_PER_DOZE_TICK \div 2 + MaxLag
LossPerSleep == MaxGap + COUNTS_PER_DOZE_TICK - 1 - COUNTS_PER_DOZE_TICK \div 2

(* The clock keeps real time across sleeps: each one shifts it by at most   *)
(* the time between the reads, the power-down gap and half a sleep timer    *)
(* tick of rounding, whole ticks pending at power-down included.            *)
DriftBounded ==
    ~ClockStopped =>
        /\ Clock <= elapsed + sleeps * GainPerSleep
        /\ elapsed <= Clock + sleeps * LossPerSleep

(* Time never runs backwards for a task, across any number of sleeps.       *)
NowNeverBackwards == ~ClockStopped => seen <= Now

(* Every task that is woken is eventually polled. *)
WokenIsPolled == \A t \in Tasks : t \in woken ~> t \notin woken

(* Every timer eventually wakes its task, asleep or not. *)
ExecTimerFires == \A t \in Tasks : queue[t] # None ~> queue[t] = None
=============================================================================
