---------------------------- MODULE TaskWatchdog ----------------------------
(***************************************************************************)
(* The task watchdog of mc1322x-embassy (task_watchdog.rs) on the COP      *)
(* driver of mc1322x-hal (watchdog.rs): tasks check in with a table, the   *)
(* runner feeds the COP every check interval while none of them is         *)
(* starved, and a COP that is not fed resets the chip.                     *)
(*                                                                         *)
(* Every method holds one critical section and is one action.  Time is in  *)
(* milliseconds; awake and dozing milliseconds differ, the COP counts the  *)
(* awake ones only.                                                        *)
(***************************************************************************)
EXTENDS Naturals, FiniteSets

CONSTANTS Ids,         \* tasks that check in
          N,           \* task slots
          None,        \* the Rust Option's None, and Setup::None
          Unbounded,   \* Setup::Unbounded
          Configs,     \* task configurations the application uses
          HwTimeouts,  \* WatchdogConfig.hardware_timeout
          Interval,    \* WatchdogConfig.check_interval
          Cycles,      \* REF_OSC cycles per millisecond: 24000
          Step,        \* REF_OSC cycles per COP step: 2^21
          FIELD_MASK,  \* largest COP_TIMEOUT: 127
          MaxLate,     \* milliseconds the runner's task may run late
          MaxDuration, \* Duration::MAX
          MaxTime      \* bound: milliseconds explored

Durations == 0..MaxDuration
Setups    == Durations \cup {None, Unbounded}
Tasks     == [id : Ids, last_feed : Nat, limit : Durations, setup : Setups]

ASSUME WatchdogAssumption ==
    /\ N \in Nat /\ Cycles \in Nat \ {0} /\ Step \in Nat \ {0} /\ FIELD_MASK \in Nat
    /\ Interval \in Nat /\ MaxLate \in Nat /\ MaxTime \in Nat /\ MaxDuration \in Nat
    /\ None \notin Nat /\ Unbounded \notin Nat /\ None # Unbounded /\ None \notin Tasks
    /\ Configs \subseteq [timeout : Durations, retries : Nat, setup : Setups]
    /\ HwTimeouts \subseteq Nat
    /\ \A ms \in HwTimeouts : Interval + MaxLate < ms

VARIABLES
    chip,       \* up, panicked, reset by the COP, or restarted by software
    now,        \* embassy-time
    tasks,      \* State.tasks: slot |-> None or the task in it
    next_check, \* watchdog_run's next_check, None before it runs
    asked,      \* hardware_timeout of the runner
    en, wp,     \* COP_CNTL.COP_EN, COP_WP
    timeout,    \* COP_CNTL.COP_TIMEOUT
    count,      \* REF_OSC cycles counted since the last service
    hungry,     \* history: awake milliseconds each slot's task has been starved
    missed      \* history: a check found a starved task since the last service

cop   == <<en, wp, timeout, count>>
hist  == <<hungry, missed>>
vars  == <<chip, now, tasks, next_check, asked, cop, hist>>

Slots == 1..N
-----------------------------------------------------------------------------
Smaller(a, b) == IF a <= b THEN a ELSE b

CeilDiv(a, b) == (a + b - 1) \div b

MutFromMillisTruncates(ms) ==
    LET steps == (ms * Cycles) \div Step
    IN  IF steps = 0 THEN 0 ELSE IF steps > FIELD_MASK + 1 THEN None ELSE steps - 1

(* Timeout::from_millis: the shortest period of at least ms, or None; the   *)
(* COP's period is one step longer than its COP_TIMEOUT.                    *)
FromMillis(ms) ==
    LET steps == CeilDiv(ms * Cycles, Step)
    IN  IF steps = 0 THEN 0 ELSE IF steps > FIELD_MASK + 1 THEN None ELSE steps - 1

Period == (timeout + 1) * Step

(* Task::new, with last_feed now; Duration::checked_mul saturates. *)
NewTask(id, c) ==
    [id |-> id, last_feed |-> now, setup |-> c.setup,
     limit |-> Smaller(c.timeout * (c.retries + 1), MaxDuration)]

SlotOf(id)   == {s \in Slots : tasks[s] # None /\ tasks[s].id = id}
FreeSlots    == {s \in Slots : tasks[s] = None}
FirstFree    == CHOOSE s \in FreeSlots : \A r \in FreeSlots : s <= r

(* Task::is_starved *)
IsStarved(task, at) ==
    /\ task.setup # Unbounded
    /\ at - task.last_feed >= (IF task.setup = None THEN task.limit ELSE task.setup)

Starved(s) == tasks[s] # None /\ IsStarved(tasks[s], now)
-----------------------------------------------------------------------------
Init ==
    /\ chip = "up" /\ now = 0
    /\ tasks = [s \in Slots |-> None] /\ next_check = None
    /\ asked \in HwTimeouts
    /\ en = FALSE /\ wp = FALSE /\ timeout = 0 /\ count = 0
    /\ hungry = [s \in Slots |-> 0] /\ missed = FALSE

(* register_task: an id that is registered is replaced in its slot; with no *)
(* slot left the call fails and changes nothing.                            *)
Put(s, task) ==
    /\ tasks' = [tasks EXCEPT ![s] = task]
    /\ hungry' = [hungry EXCEPT ![s] = 0]

RegisterTask(id, c) ==
    /\ chip = "up"
    /\ \/ \E s \in SlotOf(id) : Put(s, NewTask(id, c))
       \/ SlotOf(id) = {} /\ FreeSlots # {} /\ Put(FirstFree, NewTask(id, c))
    /\ UNCHANGED <<chip, now, next_check, asked, cop, missed>>

DeregisterTask(id) ==
    /\ chip = "up"
    /\ \E s \in SlotOf(id) : Put(s, None)
    /\ UNCHANGED <<chip, now, next_check, asked, cop, missed>>

(* feed: the first one ends the setup phase. *)
Feed(id) ==
    /\ chip = "up"
    /\ \E s \in SlotOf(id) : Put(s, [tasks[s] EXCEPT !.last_feed = now, !.setup = None])
    /\ UNCHANGED <<chip, now, next_check, asked, cop, missed>>
-----------------------------------------------------------------------------
(* Watchdog::start: refused once locked; otherwise stop, set the time-out,  *)
(* service, enable, service.                                                *)
CopStart(t) ==
    /\ ~wp
    /\ en' = TRUE /\ timeout' = t /\ count' = 0
    /\ UNCHANGED wp

Restarted == [s \in Slots |-> IF tasks[s] = None THEN None
                                ELSE [tasks[s] EXCEPT !.last_feed = now]]

MutStartIgnoresLocked ==
    /\ chip = "up" /\ next_check = None
    /\ FromMillis(asked) # None
    /\ IF wp THEN UNCHANGED cop ELSE CopStart(FromMillis(asked))
    /\ tasks' = Restarted
    /\ next_check' = now + Interval
    /\ hungry' = [s \in Slots |-> 0]
    /\ missed' = (\E s \in Slots : Restarted[s] # None /\ IsStarved(Restarted[s], now))
    /\ UNCHANGED <<chip, now, asked>>

(* watchdog_run: start() restarts every task's count and the COP; the first *)
(* check, in the same poll, finds starved only a task with no time at all.  *)
Start ==
    /\ chip = "up" /\ next_check = None
    /\ FromMillis(asked) # None /\ CopStart(FromMillis(asked))
    /\ tasks' = Restarted
    /\ next_check' = now + Interval
    /\ hungry' = [s \in Slots |-> 0]
    /\ missed' = (\E s \in Slots : Restarted[s] # None /\ IsStarved(Restarted[s], now))
    /\ UNCHANGED <<chip, now, asked>>

(* A time-out the COP can not count, and a locked COP, panic. *)
StartPanics ==
    /\ chip = "up" /\ next_check = None
    /\ FromMillis(asked) = None \/ wp
    /\ chip' = "panicked"
    /\ UNCHANGED <<now, tasks, next_check, asked, cop, hist>>

MutCheckTasksNewest ==
    /\ chip = "up" /\ next_check # None /\ now >= next_check
    /\ count' = IF \E s \in Slots : tasks[s] # None /\ ~Starved(s) THEN 0 ELSE count
    /\ missed' = (\A s \in Slots : tasks[s] # None => Starved(s))
    /\ next_check' = next_check + Interval
    /\ UNCHANGED <<chip, now, tasks, asked, en, wp, timeout, hungry>>

(* check_tasks, and the runner sleeps until the next check; it catches up   *)
(* with the checks it missed.                                               *)
CheckTasks ==
    /\ chip = "up" /\ next_check # None /\ now >= next_check
    /\ IF \E s \in Slots : Starved(s)
       THEN missed' = TRUE /\ UNCHANGED count
       ELSE missed' = FALSE /\ count' = 0
    /\ next_check' = next_check + Interval
    /\ UNCHANGED <<chip, now, tasks, asked, en, wp, timeout, hungry>>

(* Another handle locks the COP, at any time; trigger_reset. *)
Lock ==
    /\ chip = "up" /\ wp' = TRUE
    /\ UNCHANGED <<chip, now, tasks, next_check, asked, en, timeout, count, hist>>

TriggerReset ==
    /\ chip = "up" /\ chip' = "restarted"
    /\ UNCHANGED <<now, tasks, next_check, asked, cop, hist>>
-----------------------------------------------------------------------------
(* The runner's timer and the executor hold it up for at most MaxLate. *)
OnTime == next_check # None => now < next_check + MaxLate

(* An awake millisecond: the COP counts and, at its period, resets the chip. *)
Tick ==
    /\ chip = "up" /\ now < MaxTime /\ OnTime
    /\ now' = now + 1
    /\ hungry' = [s \in Slots |-> IF Starved(s) THEN hungry[s] + 1 ELSE hungry[s]]
    /\ count' = IF en THEN count + Cycles ELSE count
    /\ chip' = IF en /\ count + Cycles >= Period THEN "reset" ELSE chip
    /\ UNCHANGED <<tasks, next_check, asked, en, wp, timeout, missed>>

(* A millisecond of Doze, which the COP does not count. *)
Doze ==
    /\ chip = "up" /\ now < MaxTime /\ OnTime
    /\ now' = now + 1
    /\ UNCHANGED <<chip, tasks, next_check, asked, cop, hist>>
-----------------------------------------------------------------------------
Next ==
    \/ \E id \in Ids, c \in Configs : RegisterTask(id, c)
    \/ \E id \in Ids : DeregisterTask(id) \/ Feed(id)
    \/ Start \/ StartPanics \/ CheckTasks \/ Lock \/ TriggerReset
    \/ Tick \/ Doze

Spec == Init /\ [][Next]_vars
-----------------------------------------------------------------------------
(* A task that goes quiet for longer than its limit gets the chip reset:    *)
(* none stays starved for a COP period of awake time, whichever other tasks *)
(* keep checking in and whatever is registered or deregistered meanwhile.   *)
ResetInTime ==
    chip = "up" /\ next_check # None => \A s \in Slots : hungry[s] * Cycles < Period

(* The COP resets the chip only after a check that found a task starved:    *)
(* the rounding of the time-out, late checks and Doze cause no reset.       *)
NoNeedlessReset == chip = "reset" => missed

(* While the runner runs, the COP runs with at least the time-out asked     *)
(* for, locked or not: a lock taken first makes start() panic rather than   *)
(* leave the tasks unmonitored.                                             *)
MonitoringIsArmed ==
    chip = "up" /\ next_check # None => en /\ Period >= asked * Cycles
=============================================================================
