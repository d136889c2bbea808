----------------------------- MODULE TimeDriver -----------------------------
(***************************************************************************)
(* The embassy-time driver of mc1322x-embassy (time_driver.rs): TMR0 runs  *)
(* free as a WRAP-count counter, a compare interrupt every PERIOD counts   *)
(* advances a tick count, and a queue of timers is drained on every tick.  *)
(*                                                                         *)
(* The hardware counter advances between any two register accesses of the  *)
(* interrupt handler, so the handler is split at each of them (variable    *)
(* isr).  Thread code that runs in one critical section and reads the      *)
(* counter at most once is one action.  The interrupt may be held off by   *)
(* critical sections and by its own handler for MaxHeld counts in a row.   *)
(***************************************************************************)
EXTENDS Naturals, FiniteSets, FiniteSetsExt

CONSTANTS WRAP,       \* counter values: 2^16 in the hardware
          PERIOD,     \* TMR0 counts per tick: 375
          MaxHeld,    \* counts an interrupt may stay pending or in service
          Tasks,      \* wakers that use embassy-time
          QUEUE_SIZE, \* entries of the timer queue: 16 (generic-queue-16)
          None,       \* the Rust Option's None
          MaxAt,      \* bound: the latest deadline a task asks for, in ticks
          MaxTime     \* bound: counts of real time explored

ASSUME TimeDriverAssumption ==
    /\ WRAP \in Nat /\ PERIOD \in Nat \ {0} /\ MaxHeld \in Nat
    /\ PERIOD + MaxHeld < WRAP
    /\ QUEUE_SIZE \in Nat \ {0} /\ MaxAt \in Nat /\ MaxTime \in Nat
    /\ None \notin Nat
    /\ IsFiniteSet(Tasks)

VARIABLES
    started,        \* DRIVER.started: init() has run
    cntr,           \* TMR0 CNTR
    comp1,          \* TMR0 COMP1
    tcf1,           \* TMR0 CSCTRL.TCF1, the pending compare interrupt
    base,           \* whole ticks completed at last_boundary
    last_boundary,  \* the counter value at base
    queue,          \* task |-> deadline of its queue entry, or None
    next_alarm,     \* cached next deadline, or None
    isr,            \* where the handler (or the re-arm it shares) stands
    woken,          \* tasks whose waker was called and that were not polled yet
    elapsed,        \* history: counts of real time since init()
    held,           \* history: counts the backlog has lasted
    due             \* history: tick by which each queued task is owed its wake

tmr    == <<cntr, comp1, tcf1>>
clock  == <<base, last_boundary>>
timers == <<queue, next_alarm, woken, due>>
vars   == <<started, tmr, clock, timers, isr, elapsed, held>>
-----------------------------------------------------------------------------
(* u16 arithmetic, written without % so that it stays linear. *)
WAdd(a, b) == IF a + b < WRAP THEN a + b ELSE a + b - WRAP
WSub(a, b) == IF a >= b THEN a - b ELSE a + WRAP - b

Sooner(a, b) == IF a <= b THEN a ELSE b
Later(a, b)  == IF a <= b THEN b ELSE a

(* Counts the live counter has run past the last accounted boundary. *)
Phase == WSub(cntr, last_boundary)

(* Driver::now *)
Now == base + (Phase \div PERIOD)

(* The driver's time in TMR0 counts. *)
Clock == base * PERIOD + Phase

Queued == {t \in Tasks : queue[t] # None}

(* A compare interrupt is waiting for the CPU or being handled. *)
Backlog == tcf1 \/ isr # "idle"
-----------------------------------------------------------------------------
Init ==
    /\ started = FALSE
    /\ cntr = 0 /\ comp1 = 0 /\ tcf1 = FALSE
    /\ base = 0 /\ last_boundary = 0
    /\ queue = [t \in Tasks |-> None] /\ next_alarm = None
    /\ isr = "idle" /\ woken = {}
    /\ elapsed = 0 /\ held = 0 /\ due = [t \in Tasks |-> 0]

(* configure_tmr0: counter and flag cleared, first compare one period on. *)
ConfigureTmr0 ==
    /\ cntr' = 0 /\ tcf1' = FALSE
    /\ last_boundary' = 0 /\ comp1' = WAdd(0, PERIOD)

(* init(): a second call returns at once. *)
InitDriver ==
    /\ ~started
    /\ started' = TRUE
    /\ ConfigureTmr0
    /\ UNCHANGED <<base, timers, isr, elapsed, held>>

(* One count of the free-running counter; TCF1 is set as it reaches COMP1. *)
Count ==
    /\ started /\ elapsed < MaxTime
    /\ Backlog => held < MaxHeld
    /\ cntr' = WAdd(cntr, 1)
    /\ tcf1' = (tcf1 \/ cntr' = comp1)
    /\ elapsed' = elapsed + 1
    /\ held' = IF Backlog THEN held + 1 ELSE 0
    /\ UNCHANGED <<started, comp1, clock, timers, isr>>
-----------------------------------------------------------------------------
(* tmr0_isr clears the flag, on_tick then reads the counter once and moves *)
(* the boundary by the whole periods that have passed.                     *)
Tmr0Isr ==
    /\ isr = "idle" /\ tcf1
    /\ tcf1' = FALSE /\ isr' = "count"
    /\ UNCHANGED <<started, cntr, comp1, clock, timers, elapsed, held>>

AddPeriods(n) ==
    /\ base' = base + n
    /\ last_boundary' = WAdd(last_boundary, n * PERIOD)

MutOnTickBoundaryAtCounter ==
    /\ isr = "count"
    /\ base' = base + (Phase \div PERIOD) /\ last_boundary' = cntr
    /\ isr' = "arm"
    /\ UNCHANGED <<started, tmr, timers, elapsed, held>>

MutOnTickOnlyClock ==
    /\ isr = "count"
    /\ AddPeriods(Phase \div PERIOD)
    /\ isr' = "idle" /\ held' = 0
    /\ UNCHANGED <<started, tmr, timers, elapsed>>

OnTick ==
    /\ isr = "count"
    /\ AddPeriods(Phase \div PERIOD)
    /\ isr' = "arm"
    /\ UNCHANGED <<started, tmr, timers, elapsed, held>>

(* arm_next_compare, one loop iteration in two steps: write COMP1, read     *)
(* CNTR back.  A write of the current counter value may or may not match.  *)
ArmWrite ==
    /\ isr = "arm"
    /\ comp1' = WAdd(last_boundary, PERIOD)
    /\ \/ UNCHANGED tcf1
       \/ comp1' = cntr /\ tcf1' = TRUE
    /\ isr' = "check"
    /\ UNCHANGED <<started, cntr, clock, timers, elapsed, held>>

MutArmCheckNever ==
    /\ isr = "check" /\ isr' = "queue"
    /\ UNCHANGED <<started, tmr, clock, timers, elapsed, held>>

ArmCheck ==
    /\ isr = "check"
    /\ \/ /\ Phase < PERIOD
          /\ isr' = "queue" /\ UNCHANGED clock
       \/ /\ Phase >= PERIOD
          /\ AddPeriods(1) /\ isr' = "arm"
    /\ UNCHANGED <<started, tmr, timers, elapsed, held>>

(* Queue::next_expiration: wake and drop the entries that are due, return   *)
(* the earliest of the others.                                             *)
NextExpiration(now) ==
    LET expired == {t \in Queued : queue[t] <= now}
        later   == {queue[t] : t \in Queued \ expired}
    IN  /\ queue' = [t \in Tasks |-> IF t \in expired THEN None ELSE queue[t]]
        /\ due' = [t \in Tasks |-> IF t \in expired THEN 0 ELSE due[t]]
        /\ woken' = woken \cup expired
        /\ next_alarm' = IF later = {} THEN None ELSE Min(later)

(* process_queue: the end of the handler and of resync_after_sleep. *)
ProcessQueue ==
    /\ isr = "queue"
    /\ NextExpiration(base)
    /\ isr' = "idle"
    /\ held' = IF tcf1 THEN held ELSE 0
    /\ UNCHANGED <<started, tmr, clock, elapsed>>
-----------------------------------------------------------------------------
(* History: the first tick boundary at which the driver can wake t. *)
OweWake(t, at) ==
    LET tick == Later(at, Now + 1)
    IN  due' = [due EXCEPT ![t] = IF queue[t] = None THEN tick ELSE Sooner(@, tick)]

(* Queue::schedule_wake: one entry per waker, keeping the sooner deadline; a *)
(* full queue drops another entry and wakes its task; a waker that is        *)
(* already past due may be woken at once instead.                            *)
QueueScheduleWake(t, at) ==
    \/ /\ OweWake(t, at)
       /\ \/ /\ queue[t] # None
             /\ queue' = [queue EXCEPT ![t] = Sooner(@, at)]
             /\ UNCHANGED woken
          \/ /\ queue[t] = None /\ Cardinality(Queued) < QUEUE_SIZE
             /\ queue' = [queue EXCEPT ![t] = at]
             /\ UNCHANGED woken
          \/ /\ queue[t] = None /\ Cardinality(Queued) >= QUEUE_SIZE
             /\ \E v \in Queued :
                  /\ queue' = [queue EXCEPT ![v] = None, ![t] = at]
                  /\ woken' = woken \cup {v}
    \/ /\ at <= Now
       /\ woken' = woken \cup {t}
       /\ UNCHANGED <<queue, due>>

(* Driver::schedule_wake, in one critical section of thread code. *)
ScheduleWake(t, at) ==
    /\ isr = "idle"
    /\ QueueScheduleWake(t, at)
    /\ next_alarm' = IF next_alarm = None THEN at ELSE Sooner(next_alarm, at)
    /\ UNCHANGED <<started, tmr, clock, isr, elapsed, held>>

(* The executor polls a woken task (see SleepyExecutor for how). *)
PollTask(t) ==
    /\ isr = "idle" /\ t \in woken
    /\ woken' = woken \ {t}
    /\ UNCHANGED <<started, tmr, clock, queue, next_alarm, due, isr, elapsed, held>>
-----------------------------------------------------------------------------
Handler == Tmr0Isr \/ OnTick \/ ArmWrite \/ ArmCheck \/ ProcessQueue

Next ==
    \/ InitDriver
    \/ Count
    \/ Handler
    \/ \E t \in Tasks, at \in 1..MaxAt : Now < MaxAt /\ ScheduleWake(t, at)
    \/ \E t \in Tasks : PollTask(t)

Spec == Init /\ [][Next]_vars
-----------------------------------------------------------------------------
(* Every register, counter and queue entry stays in its range: the counter *)
(* and both compare values are u16, a deadline is a tick or None.          *)
TypeOK ==
    /\ started \in BOOLEAN
    /\ cntr \in 0..(WRAP - 1) /\ comp1 \in 0..(WRAP - 1) /\ tcf1 \in BOOLEAN
    /\ base \in Nat /\ last_boundary \in 0..(WRAP - 1)
    /\ queue \in [Tasks -> Nat \cup {None}]
    /\ next_alarm \in Nat \cup {None}
    /\ isr \in {"idle", "count", "arm", "check", "queue"}
    /\ woken \in SUBSET Tasks
    /\ elapsed \in Nat /\ held \in 0..MaxHeld
    /\ due \in [Tasks -> Nat]

(* The clock never drifts: base and the live counter account for exactly    *)
(* the counts that have passed, at every instant, however long the handler  *)
(* is held off within MaxHeld and wherever the counter stands in it.        *)
ClockExact == Clock = elapsed

(* With no interrupt pending or in service, the compare is armed for the    *)
(* next boundary and the counter has not run past it: the match can not be  *)
(* missed, which would silence the tick for a whole wrap.                   *)
NextTickArmed ==
    started /\ ~Backlog =>
        /\ comp1 = WAdd(last_boundary, PERIOD)
        /\ Phase < PERIOD

(* The cached next_alarm, which the sleepy executor reads instead of the    *)
(* queue, is never later than any queued deadline and never None while one  *)
(* is queued: sleeping until it cannot sleep through a timer.               *)
AlarmSound ==
    \A t \in Queued : next_alarm # None /\ next_alarm <= queue[t]

(* No timer is late: a queued task is woken at the boundary it is owed (its *)
(* deadline, or the next boundary if that had passed when it was queued)    *)
(* plus at most the time the interrupt was held off.                        *)
TimerNotLate == \A t \in Queued : elapsed <= due[t] * PERIOD + MaxHeld

(* The driver's registers, cached values and queue agree at every instant,  *)
(* in the handler and outside it.                                           *)
DriverSound == TypeOK /\ NextTickArmed /\ AlarmSound /\ TimerNotLate

(* A full queue evicts an entry for another task's. *)
Evicts ==
    /\ Cardinality(Queued) >= QUEUE_SIZE
    /\ \E v \in Tasks : queue[v] = None /\ queue'[v] # None

(* No timer fires early: an entry leaves the queue only once now() has      *)
(* reached its deadline, unless a full queue evicts it for another task's.  *)
TimerNotEarly ==
    [][\A t \in Queued : queue'[t] = None => queue[t] <= Now \/ Evicts]_vars
-----------------------------------------------------------------------------
Service == INSTANCE TimerService WITH
    Deadlines <- 1..MaxAt, Slack <- MaxHeld, CAPACITY <- QUEUE_SIZE,
    now <- elapsed, tick <- Now, timers <- queue, owed <- due

(* The driver implements the timer service it promises: seen from outside,  *)
(* now() steps with real time and never with the handler's progress, a      *)
(* wake comes neither early nor more than MaxHeld late, and nothing but a   *)
(* call or a wake changes which timers are set, wherever the handler stands.*)
ImplementsTimerService == Service!Spec
=============================================================================
