---------------------------- MODULE TimerService ----------------------------
(***************************************************************************)
(* What the embassy-time driver promises its callers (time_driver.rs),     *)
(* with no counter, compare, interrupt handler or cached alarm: time       *)
(* passes in counts, now() is the number of whole periods that have        *)
(* passed, and a task that set a timer is woken once its deadline has      *)
(* come, within Slack counts of the tick it is owed, or earlier when a     *)
(* full queue throws its timer out for another.  TimeDriver implements it  *)
(* (ImplementsTimerService).                                               *)
(***************************************************************************)
EXTENDS Naturals, FiniteSets

CONSTANTS Tasks,      \* who may set a timer
          Deadlines,  \* the ticks a timer may be set for
          None,       \* no timer set
          PERIOD,     \* counts per tick
          Slack,      \* how many counts late a wake may come
          CAPACITY    \* timers that can be set at a time

VARIABLES
    now,     \* counts of real time
    tick,    \* what now() returns
    timers,  \* task |-> deadline of its timer, or None
    owed,    \* task |-> the tick by which it is owed its wake
    woken    \* tasks woken and not polled since

serviceVars == <<now, tick, timers, owed, woken>>

Pending == {t \in Tasks : timers[t] # None}
Earlier(a, b) == IF a <= b THEN a ELSE b
-----------------------------------------------------------------------------
Init ==
    /\ now = 0 /\ tick = 0
    /\ timers = [t \in Tasks |-> None] /\ owed = [t \in Tasks |-> 0]
    /\ woken = {}

(* Time passes, but not beyond the moment a task must have been woken. *)
Pass ==
    /\ \A t \in Pending : now + 1 <= owed[t] * PERIOD + Slack
    /\ now' = now + 1
    /\ tick' = now' \div PERIOD
    /\ UNCHANGED <<timers, owed, woken>>

(* Tasks whose deadline has come are woken. *)
Fire ==
    /\ \E S \in SUBSET Pending :
         /\ S # {} /\ \A t \in S : timers[t] <= tick
         /\ timers' = [t \in Tasks |-> IF t \in S THEN None ELSE timers[t]]
         /\ owed' = [t \in Tasks |-> IF t \in S THEN 0 ELSE owed[t]]
         /\ woken' = woken \cup S
    /\ UNCHANGED <<now, tick>>

(* A wake is owed at the deadline, or at the next tick if that has passed. *)
Owe(t, at) ==
    LET wake == IF at <= tick THEN tick + 1 ELSE at
    IN  owed' = [owed EXCEPT ![t] = IF t \in Pending THEN Earlier(@, wake) ELSE wake]

Set(t, at) ==
    /\ \/ /\ t \in Pending
          /\ timers' = [timers EXCEPT ![t] = Earlier(@, at)]
       \/ /\ t \notin Pending /\ Cardinality(Pending) < CAPACITY
          /\ timers' = [timers EXCEPT ![t] = at]
    /\ Owe(t, at)
    /\ UNCHANGED <<now, tick, woken>>

(* No room: another task's timer makes way, and that task is woken. *)
Evict(t, at, v) ==
    /\ t \notin Pending /\ v \in Pending /\ Cardinality(Pending) >= CAPACITY
    /\ timers' = [timers EXCEPT ![v] = None, ![t] = at]
    /\ woken' = woken \cup {v}
    /\ Owe(t, at)
    /\ UNCHANGED <<now, tick>>

(* A deadline that has passed wakes at once, and no timer is set. *)
WakeAtOnce(t, at) ==
    /\ at <= tick
    /\ woken' = woken \cup {t}
    /\ UNCHANGED <<now, tick, timers, owed>>

Poll(t) ==
    /\ t \in woken
    /\ woken' = woken \ {t}
    /\ UNCHANGED <<now, tick, timers, owed>>

Next ==
    \/ Pass
    \/ Fire
    \/ \E t \in Tasks, at \in Deadlines :
         Set(t, at) \/ WakeAtOnce(t, at) \/ \E v \in Tasks : Evict(t, at, v)
    \/ \E t \in Tasks : Poll(t)

Spec == Init /\ [][Next]_serviceVars
=============================================================================
