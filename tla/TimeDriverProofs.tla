-------------------------- MODULE TimeDriverProofs --------------------------
(***************************************************************************)
(* Proofs about TimeDriver for every WRAP, PERIOD, MaxHeld, set of tasks,  *)
(* queue size and time bound that satisfy TimeDriverAssumption.            *)
(***************************************************************************)
EXTENDS TimeDriver, WellFoundedInduction, TLAPS

(* Before init() TMR0 is stopped at zero and nothing has been counted. *)
NotStarted ==
    ~started =>
        /\ cntr = 0 /\ last_boundary = 0 /\ base = 0
        /\ elapsed = 0 /\ tcf1 = FALSE /\ isr = "idle"

(* While the handler runs: the compare read back in arm_next_compare is the *)
(* one just written, and once the loop has ended the next boundary is       *)
(* either still ahead or has raised the flag again.                         *)
HandlerArmed ==
    /\ isr = "check" => comp1 = WAdd(last_boundary, PERIOD)
    /\ isr = "queue" /\ ~tcf1 => comp1 = WAdd(last_boundary, PERIOD) /\ Phase < PERIOD

(* The counter is at most one period plus the hold-off past the boundary,   *)
(* so the 16-bit difference never wraps.                                    *)
BacklogBound == Backlog => Phase <= PERIOD + held

(* What TimerNotLate needs: a queued task is owed a boundary that is ahead, *)
(* or that passed at most held counts ago.                                  *)
DueBound ==
    \A t \in Queued :
        /\ queue[t] <= due[t]
        /\ Backlog  => elapsed <= due[t] * PERIOD + held
        /\ ~Backlog => base < due[t]

IInv == 
    /\ TypeOK
    /\ NotStarted
    /\ ClockExact
    /\ NextTickArmed
    /\ HandlerArmed
    /\ BacklogBound
    /\ DueBound
    /\ AlarmSound
-----------------------------------------------------------------------------
(* Integer division by the period: what now() and on_tick rely on. *)
LEMMA DivFacts ==
    ASSUME NEW d \in Nat, NEW P \in Nat \ {0}
    PROVE  /\ d \div P \in Nat
           /\ (d \div P) * P <= d
           /\ d < (d \div P) * P + P
    BY SMT

(* The two facts about products that the linear arithmetic below needs. *)
LEMMA MulFacts ==
    ASSUME NEW a \in Nat, NEW b \in Nat, NEW c \in Nat
    PROVE  /\ a * c \in Nat
           /\ (a + b) * c = a * c + b * c
           /\ a <= b => a * c <= b * c
    BY SMT

(* A nonempty set of naturals has a least element, and Min is it. *)
LEMMA MinFacts ==
    ASSUME NEW S \in SUBSET Nat, S # {}
    PROVE  Min(S) \in S /\ \A x \in S : Min(S) <= x
<1> DEFINE Less == {p \in Nat \X Nat : p[1] < p[2]}
<1>1. OpToRel(<, Nat) = Less
    BY Zenon DEF OpToRel
<1> HIDE DEF Less
<1>2. PICK x \in S : \A y \in S : ~(<<y, x>> \in Less)
    BY NatLessThanWellFounded, WFMin, <1>1
<1>3. ASSUME NEW y \in S, ~(x <= y) PROVE FALSE
    <2>1. x \in Nat /\ y \in Nat /\ y < x
        BY <1>3
    <2>2. <<y, x>> \in Less
        BY <2>1 DEF Less
    <2> QED
        BY <1>2, <2>2, Zenon
<1> QED
    BY <1>3 DEF Min

Word == 0..(WRAP - 1)

(* u16 arithmetic stays in range and inverts itself. *)
LEMMA WordFacts ==
    ASSUME NEW a \in Word, NEW b \in Word
    PROVE  /\ WSub(a, b) \in Word
           /\ \A n \in Word : WAdd(b, n) \in Word
           /\ \A n \in Word : WSub(a, b) = n <=> a = WAdd(b, n)
    BY TimeDriverAssumption DEF WSub, WAdd, Word

(* One count raises the distance to a boundary by one until it wraps. *)
LEMMA CountPhase ==
    ASSUME NEW a \in Word, NEW b \in Word, WSub(a, b) < WRAP - 1
    PROVE  WAdd(a, 1) \in Word /\ WSub(WAdd(a, 1), b) = WSub(a, b) + 1
    BY TimeDriverAssumption DEF WSub, WAdd, Word

(* Moving a boundary forward by no more than the distance shortens it. *)
LEMMA ShiftPhase ==
    ASSUME NEW a \in Word, NEW b \in Word, NEW n \in Nat, n <= WSub(a, b)
    PROVE  WAdd(b, n) \in Word /\ WSub(a, WAdd(b, n)) = WSub(a, b) - n
    BY TimeDriverAssumption DEF WSub, WAdd, Word
-----------------------------------------------------------------------------
\* The types of the counts since the last boundary and of the tick.
LEMMA PhaseType ==
    ASSUME TypeOK
    PROVE  Phase \in Word /\ Phase \in Nat /\ Now \in Nat /\ base <= Now
<1>1. Phase \in Word
    BY WordFacts DEF TypeOK, Phase, Word
<1>2. Phase \in Nat
    BY <1>1 DEF Word
<1> QED
    BY <1>1, <1>2, DivFacts, TimeDriverAssumption DEF TypeOK, Now

(* The inductive invariant holds initially; each action preserves it. *)
LEMMA InitIInv == Init => IInv
<1> SUFFICES ASSUME Init PROVE IInv
    OBVIOUS
<1>1. Phase = 0 /\ Queued = {}
    BY DEF Init, Phase, WSub, Queued
<1>2. TypeOK
    <2>1. 0 \in Word /\ 0 \in 0..MaxHeld
        BY TimeDriverAssumption DEF Word
    <2> QED
        BY <2>1 DEF Init, TypeOK, Word
<1>3. ClockExact
    BY <1>1, TimeDriverAssumption DEF Init, ClockExact, Clock
<1> QED
    BY <1>1, <1>2, <1>3
    DEF Init, IInv, NotStarted, NextTickArmed, HandlerArmed, BacklogBound,
        Backlog, DueBound, AlarmSound

(* Starting TMR0 makes counter, clock and compare agree. *)
LEMMA InitDriverStep == IInv /\ InitDriver => IInv'
<1> SUFFICES ASSUME IInv, InitDriver PROVE IInv'
    OBVIOUS
<1> USE DEF IInv
<1>1. TypeOK'
    <2>1. 0 \in Word /\ WAdd(0, PERIOD) \in Word
        BY TimeDriverAssumption DEF Word, WAdd
    <2> QED
        BY <2>1 DEF TypeOK, Word, InitDriver, ConfigureTmr0, timers
<1>2. Phase' = 0 /\ ~Backlog /\ ~Backlog'
    BY DEF InitDriver, ConfigureTmr0, Phase, WSub, NotStarted, Backlog
<1>3. ClockExact'
    BY <1>2, TimeDriverAssumption
    DEF InitDriver, NotStarted, ClockExact, Clock, TypeOK
<1>4. NextTickArmed'
    BY <1>2, TimeDriverAssumption DEF InitDriver, ConfigureTmr0, NextTickArmed
<1>5. DueBound' /\ AlarmSound'
    BY <1>2 DEF InitDriver, timers, DueBound, AlarmSound, Queued
<1> QED
    BY <1>1, <1>2, <1>3, <1>4, <1>5
    DEF NotStarted, HandlerArmed, BacklogBound, InitDriver, Backlog

(* A count moves the counter and real time together. *)
LEMMA CountStep == IInv /\ Count => IInv'
<1> SUFFICES ASSUME IInv, Count PROVE IInv'
    OBVIOUS
<1> USE DEF IInv
<1>1. Phase \in Word /\ Phase \in Nat /\ Phase < WRAP - 1
    BY PhaseType, TimeDriverAssumption
    DEF Count, BacklogBound, NextTickArmed, TypeOK
<1>2. cntr' \in Word /\ Phase' = Phase + 1
    BY <1>1, CountPhase DEF Count, Phase, TypeOK, Word, clock
<1>3. TypeOK'
    BY <1>2, TimeDriverAssumption
    DEF Count, TypeOK, Word, clock, timers, Backlog
<1>4. ClockExact'
    BY <1>1, <1>2, MulFacts, TimeDriverAssumption
    DEF Count, ClockExact, Clock, TypeOK, clock
<1>5. ASSUME comp1 = WAdd(last_boundary, PERIOD), Phase < PERIOD, ~tcf1'
      PROVE  Phase' < PERIOD
    <2>1. Phase' # PERIOD
        <3>1. PERIOD \in Word /\ last_boundary \in Word
            BY TimeDriverAssumption DEF TypeOK, Word
        <3>2. WSub(cntr', last_boundary) = PERIOD => cntr' = comp1
            BY <1>2, <1>5, <3>1, WordFacts
        <3> QED
            BY <1>5, <3>2 DEF Count, Phase, clock
    <2> QED
        BY <1>1, <1>2, <1>5, <2>1, TimeDriverAssumption
<1>6. NextTickArmed' /\ HandlerArmed'
    BY <1>5 DEF Count, NextTickArmed, HandlerArmed, Backlog, clock
<1>7. BacklogBound'
    BY <1>1, <1>2, TimeDriverAssumption
    DEF Count, BacklogBound, NextTickArmed, Backlog, TypeOK
<1>8. DueBound'
    <2> SUFFICES ASSUME NEW t \in Queued
                 PROVE  /\ queue[t] <= due[t]
                        /\ Backlog' => elapsed' <= due[t] * PERIOD + held'
                        /\ ~Backlog' => base < due[t]
        BY DEF DueBound, Count, timers, clock, Queued
    <2>1. t \in Tasks /\ due[t] \in Nat
        BY DEF Queued, TypeOK
    <2>2. CASE Backlog
        BY <2>1, <2>2, MulFacts, TimeDriverAssumption
        DEF DueBound, Count, Backlog, TypeOK
    <2>3. CASE ~Backlog
        <3>1. base + 1 <= due[t]
            BY <2>1, <2>3 DEF DueBound, TypeOK
        <3>2. (base + 1) * PERIOD <= due[t] * PERIOD
            BY <2>1, <3>1, MulFacts, TimeDriverAssumption DEF TypeOK
        <3>3. (base + 1) * PERIOD = base * PERIOD + PERIOD
            BY MulFacts, TimeDriverAssumption DEF TypeOK
        <3>4. Phase < PERIOD
            BY <2>3 DEF NextTickArmed, Count
        <3>5. base * PERIOD \in Nat /\ due[t] * PERIOD \in Nat
            BY <2>1, MulFacts, TimeDriverAssumption DEF TypeOK
        <3> QED
            BY <1>1, <2>1, <2>3, <3>1, <3>2, <3>3, <3>4, <3>5, TimeDriverAssumption
            DEF DueBound, Count, ClockExact, Clock, TypeOK
    <2> QED
        BY <2>2, <2>3
<1>9. AlarmSound' /\ NotStarted'
    BY DEF Count, AlarmSound, NotStarted, Queued, timers
<1> QED
    BY <1>3, <1>4, <1>6, <1>7, <1>8, <1>9

(* Clearing the flag keeps the backlog open until the handler ends. *)
LEMMA Tmr0IsrStep == IInv /\ Tmr0Isr => IInv'
<1> SUFFICES ASSUME IInv, Tmr0Isr PROVE IInv'
    OBVIOUS
<1> USE DEF IInv
<1>1. Backlog /\ Backlog' /\ Phase' = Phase
    BY DEF Tmr0Isr, Backlog, Phase, clock
<1>2. TypeOK'
    BY DEF Tmr0Isr, TypeOK, clock, timers
<1>3. ClockExact' /\ BacklogBound' /\ NextTickArmed' /\ HandlerArmed' /\ NotStarted'
    BY <1>1 DEF Tmr0Isr, ClockExact, Clock, BacklogBound, NextTickArmed,
                HandlerArmed, NotStarted, clock
<1>4. DueBound' /\ AlarmSound'
    BY <1>1 DEF Tmr0Isr, DueBound, AlarmSound, Queued, clock, timers
<1> QED
    BY <1>2, <1>3, <1>4

(* Moving whole periods from the counter's distance into base leaves the    *)
(* clock where it was: shared by on_tick and by arm_next_compare.           *)
LEMMA AddPeriodsFacts ==
    ASSUME TypeOK, NEW n \in Nat, n * PERIOD <= Phase, AddPeriods(n),
           UNCHANGED cntr
    PROVE  /\ base' \in Nat /\ base <= base' /\ last_boundary' \in Word
           /\ Phase' = Phase - n * PERIOD
           /\ Clock' = Clock
<1>1. n * PERIOD \in Nat /\ base * PERIOD \in Nat
    BY MulFacts, TimeDriverAssumption DEF TypeOK
<1>2. last_boundary' \in Word /\ Phase' = Phase - n * PERIOD
    BY <1>1, ShiftPhase DEF AddPeriods, Phase, TypeOK, Word
<1>3. (base + n) * PERIOD = base * PERIOD + n * PERIOD
    BY MulFacts, TimeDriverAssumption DEF TypeOK
<1>4. Phase \in Nat
    BY PhaseType
<1> QED
    BY <1>1, <1>2, <1>3, <1>4 DEF AddPeriods, Clock, TypeOK

(* The boundary moves by exactly the periods added to base. *)
LEMMA OnTickStep == IInv /\ OnTick => IInv'
<1> SUFFICES ASSUME IInv, OnTick PROVE IInv'
    OBVIOUS
<1> USE DEF IInv
<1> DEFINE n == Phase \div PERIOD
<1>1. n \in Nat /\ n * PERIOD <= Phase /\ Phase \in Nat /\ n * PERIOD \in Nat
    BY PhaseType, DivFacts, MulFacts, TimeDriverAssumption
<1>2. AddPeriods(n) /\ UNCHANGED cntr
    BY DEF OnTick, tmr
<1> HIDE DEF n
<1>3. /\ base' \in Nat /\ last_boundary' \in Word
      /\ Phase' = Phase - n * PERIOD /\ Clock' = Clock
    BY <1>1, <1>2, AddPeriodsFacts
<1>4. Backlog /\ Backlog'
    BY DEF OnTick, Backlog
<1>5. TypeOK'
    BY <1>3 DEF OnTick, TypeOK, Word, tmr, timers
<1>6. BacklogBound'
    BY <1>1, <1>3, <1>4, TimeDriverAssumption DEF OnTick, BacklogBound, TypeOK
<1>7. ClockExact' /\ NextTickArmed' /\ HandlerArmed' /\ NotStarted'
    BY <1>3, <1>4 DEF OnTick, ClockExact, NextTickArmed, HandlerArmed, NotStarted
<1>8. DueBound' /\ AlarmSound'
    BY <1>4 DEF OnTick, DueBound, AlarmSound, Queued, timers
<1> QED
    BY <1>5, <1>6, <1>7, <1>8

(* The compare is written for the next boundary. *)
LEMMA ArmWriteStep == IInv /\ ArmWrite => IInv'
<1> SUFFICES ASSUME IInv, ArmWrite PROVE IInv'
    OBVIOUS
<1> USE DEF IInv
<1>1. Backlog /\ Backlog' /\ Phase' = Phase /\ started
    BY DEF ArmWrite, Backlog, Phase, clock, NotStarted
<1>2. comp1' \in Word
    BY WordFacts, TimeDriverAssumption DEF ArmWrite, TypeOK, Word
<1>3. TypeOK'
    BY <1>2 DEF ArmWrite, TypeOK, Word, clock, timers
<1>4. ClockExact' /\ BacklogBound' /\ NextTickArmed' /\ HandlerArmed' /\ NotStarted'
    BY <1>1 DEF ArmWrite, ClockExact, Clock, BacklogBound, NextTickArmed,
                HandlerArmed, NotStarted, clock
<1>5. DueBound' /\ AlarmSound'
    BY <1>1 DEF ArmWrite, DueBound, AlarmSound, Queued, clock, timers
<1> QED
    BY <1>3, <1>4, <1>5

(* The loop ends only with the boundary still ahead. *)
LEMMA ArmCheckStep == IInv /\ ArmCheck => IInv'
<1> SUFFICES ASSUME IInv, ArmCheck PROVE IInv'
    OBVIOUS
<1> USE DEF IInv
<1>1. Backlog /\ Backlog' /\ started
    BY DEF ArmCheck, Backlog, NotStarted
<1>2. AlarmSound' /\ DueBound'
    BY <1>1 DEF ArmCheck, DueBound, AlarmSound, Queued, timers
<1>3. CASE Phase < PERIOD /\ isr' = "queue" /\ UNCHANGED clock
    <2>1. Phase' = Phase
        BY <1>3 DEF ArmCheck, Phase, clock, tmr
    <2>2. TypeOK'
        BY <1>3 DEF ArmCheck, TypeOK, clock, tmr, timers
    <2> QED
        BY <1>1, <1>2, <1>3, <2>1, <2>2
        DEF ArmCheck, ClockExact, Clock, BacklogBound, NextTickArmed,
            HandlerArmed, NotStarted, clock, tmr
<1>4. CASE Phase >= PERIOD /\ AddPeriods(1) /\ isr' = "arm"
    <2>1. Phase \in Nat /\ 1 * PERIOD = PERIOD
        BY PhaseType, TimeDriverAssumption
    <2>2. /\ base' \in Nat /\ last_boundary' \in Word
          /\ Phase' = Phase - PERIOD /\ Clock' = Clock
        BY <1>4, <2>1, AddPeriodsFacts, TimeDriverAssumption DEF ArmCheck, tmr
    <2>3. TypeOK'
        BY <1>4, <2>2 DEF ArmCheck, TypeOK, Word, tmr, timers
    <2>4. BacklogBound'
        BY <1>1, <2>1, <2>2, TimeDriverAssumption DEF ArmCheck, BacklogBound, TypeOK
    <2> QED
        BY <1>1, <1>2, <1>4, <2>2, <2>3, <2>4
        DEF ArmCheck, ClockExact, NextTickArmed, HandlerArmed, NotStarted
<1> QED
    BY <1>3, <1>4 DEF ArmCheck

(* Due entries leave the queue, the alarm is the earliest that stays. *)
LEMMA ProcessQueueStep == IInv /\ ProcessQueue => IInv'
<1> SUFFICES ASSUME IInv, ProcessQueue PROVE IInv'
    OBVIOUS
<1> USE DEF IInv
<1> DEFINE expired == {t \in Queued : queue[t] <= base}
           later   == {queue[t] : t \in Queued \ expired}
<1>1. /\ queue' = [t \in Tasks |-> IF t \in expired THEN None ELSE queue[t]]
      /\ due' = [t \in Tasks |-> IF t \in expired THEN 0 ELSE due[t]]
      /\ woken' = woken \cup expired
      /\ next_alarm' = IF later = {} THEN None ELSE Min(later)
    BY DEF ProcessQueue, NextExpiration
<1>2. /\ Queued' = Queued \ expired
      /\ \A t \in Queued' : queue'[t] = queue[t] /\ queue[t] \in Nat /\ base < queue[t]
    BY <1>1, TimeDriverAssumption DEF Queued, TypeOK
<1>3. later \in SUBSET Nat /\ \A t \in Queued' : queue[t] \in later
    BY <1>2
<1> HIDE DEF later
<1>4. next_alarm' \in Nat \cup {None}
    BY <1>1, <1>3, MinFacts
<1>5. AlarmSound'
    BY <1>1, <1>2, <1>3, MinFacts, TimeDriverAssumption DEF AlarmSound
<1>6. Backlog /\ Phase' = Phase /\ started /\ (Backlog' <=> tcf1)
    BY DEF ProcessQueue, Backlog, NotStarted, Phase, clock, tmr
<1>7. TypeOK'
    <2>1. queue' \in [Tasks -> Nat \cup {None}]
        BY <1>1 DEF TypeOK
    <2>2. woken' \in SUBSET Tasks /\ due' \in [Tasks -> Nat]
        BY <1>1 DEF TypeOK, Queued
    <2>3. held' \in 0..MaxHeld
        BY TimeDriverAssumption DEF ProcessQueue, TypeOK
    <2> QED
        BY <1>4, <2>1, <2>2, <2>3 DEF ProcessQueue, TypeOK, clock, tmr
<1>8. ClockExact' /\ BacklogBound' /\ NextTickArmed' /\ HandlerArmed' /\ NotStarted'
    BY <1>6 DEF ProcessQueue, ClockExact, Clock, BacklogBound, NextTickArmed,
                HandlerArmed, NotStarted, clock, tmr
<1>9. DueBound'
    <2> SUFFICES ASSUME NEW t \in Queued'
                 PROVE  /\ queue'[t] <= due'[t]
                        /\ Backlog' => elapsed' <= due'[t] * PERIOD + held'
                        /\ ~Backlog' => base' < due'[t]
        BY DEF DueBound
    <2>1. t \in Queued /\ due'[t] = due[t] /\ due[t] \in Nat /\ queue[t] <= due[t]
        BY <1>1, <1>2 DEF DueBound, TypeOK, Queued
    <2> QED
        BY <1>2, <1>6, <2>1 DEF ProcessQueue, DueBound, TypeOK, clock
<1> QED
    BY <1>5, <1>7, <1>8, <1>9

(* A new entry can only bring the alarm forward. *)
LEMMA ScheduleWakeStep ==
    ASSUME IInv, NEW t \in Tasks, NEW at \in Nat, ScheduleWake(t, at)
    PROVE  IInv'
<1> USE DEF IInv
<1>1. /\ started' = started /\ UNCHANGED tmr /\ UNCHANGED clock
      /\ UNCHANGED <<isr, elapsed, held>>
      /\ Phase' = Phase /\ Backlog' = Backlog
    BY DEF ScheduleWake, Phase, Backlog, tmr, clock
<1>2. ClockExact' /\ BacklogBound' /\ NextTickArmed' /\ HandlerArmed' /\ NotStarted'
    BY <1>1 DEF ClockExact, Clock, BacklogBound, NextTickArmed, HandlerArmed,
                NotStarted, clock, tmr
<1>3. next_alarm' \in Nat /\ next_alarm' <= at
      /\ (next_alarm # None => next_alarm' <= next_alarm)
    BY DEF ScheduleWake, Sooner, TypeOK
<1> DEFINE tick == Later(at, Now + 1)
<1>4. tick \in Nat /\ at <= tick /\ Now < tick
    BY PhaseType DEF Later
<1>5. base < tick /\ elapsed <= tick * PERIOD
    <2>1. Phase \in Nat /\ Phase < (Phase \div PERIOD) * PERIOD + PERIOD
          /\ Phase \div PERIOD \in Nat
        BY PhaseType, DivFacts, TimeDriverAssumption
    <2>2. (Now + 1) * PERIOD = base * PERIOD + (Phase \div PERIOD) * PERIOD + PERIOD
        BY <2>1, MulFacts, TimeDriverAssumption DEF Now, TypeOK
    <2>3. (Now + 1) * PERIOD <= tick * PERIOD
        BY <1>4, MulFacts, PhaseType, TimeDriverAssumption
    <2>4. base * PERIOD \in Nat /\ tick * PERIOD \in Nat /\ (Phase \div PERIOD) * PERIOD \in Nat
        BY <1>4, <2>1, MulFacts, TimeDriverAssumption DEF TypeOK
    <2>5. base < tick
        BY <1>4, PhaseType DEF TypeOK
    <2> QED
        BY <2>1, <2>2, <2>3, <2>4, <2>5, TimeDriverAssumption
        DEF ClockExact, Clock, TypeOK
<1> HIDE DEF tick
(* Whatever the queue does, an entry it holds afterwards is an old one or t's. *)
<1>6. /\ queue' \in [Tasks -> Nat \cup {None}]
      /\ due' \in [Tasks -> Nat]
      /\ woken' \in SUBSET Tasks
      /\ \A u \in Queued' : u # t =>
            u \in Queued /\ queue'[u] = queue[u] /\ due'[u] = due[u]
      /\ t \in Queued' =>
            \/ t \in Queued /\ queue'[t] = queue[t] /\ due'[t] = due[t]
            \/ /\ t \in Queued
               /\ queue'[t] = Sooner(queue[t], at) /\ due'[t] = Sooner(due[t], tick)
            \/ t \notin Queued /\ queue'[t] = at /\ due'[t] = tick
    <2>1. CASE /\ OweWake(t, at) /\ queue[t] # None
               /\ queue' = [queue EXCEPT ![t] = Sooner(@, at)] /\ UNCHANGED woken
        BY <1>4, <2>1, TimeDriverAssumption DEF OweWake, Queued, Sooner, TypeOK, tick
    <2>2. CASE /\ OweWake(t, at) /\ queue[t] = None
               /\ queue' = [queue EXCEPT ![t] = at] /\ UNCHANGED woken
        BY <1>4, <2>2, TimeDriverAssumption DEF OweWake, Queued, TypeOK, tick
    <2>3. CASE /\ OweWake(t, at) /\ queue[t] = None
               /\ \E v \in Queued : /\ queue' = [queue EXCEPT ![v] = None, ![t] = at]
                                    /\ woken' = woken \cup {v}
        BY <1>4, <2>3, TimeDriverAssumption DEF OweWake, Queued, TypeOK, tick
    <2>4. CASE woken' = woken \cup {t} /\ UNCHANGED <<queue, due>>
        BY <2>4 DEF Queued, TypeOK
    <2> QED
        BY <2>1, <2>2, <2>3, <2>4 DEF ScheduleWake, QueueScheduleWake
<1>7. TypeOK'
    BY <1>1, <1>3, <1>6 DEF TypeOK, clock, tmr
<1>8. AlarmSound'
    BY <1>3, <1>6, TimeDriverAssumption DEF AlarmSound, Sooner, TypeOK, Queued
<1>9. DueBound'
    <2> SUFFICES ASSUME NEW u \in Queued'
                 PROVE  /\ queue'[u] <= due'[u]
                        /\ Backlog => elapsed <= due'[u] * PERIOD + held
                        /\ ~Backlog => base < due'[u]
        BY <1>1 DEF DueBound, clock
    <2>1. u \in Tasks /\ queue'[u] \in Nat /\ due'[u] \in Nat
        BY <1>6 DEF Queued
    <2>2. CASE u \in Queued /\ queue'[u] = queue[u] /\ due'[u] = due[u]
        BY <2>2 DEF DueBound
    <2>3. CASE u = t /\ u \notin Queued /\ queue'[t] = at /\ due'[t] = tick
        <3>1. tick * PERIOD \in Nat
            BY <1>4, MulFacts, TimeDriverAssumption
        <3> QED
            BY <1>4, <1>5, <2>3, <3>1, TimeDriverAssumption DEF TypeOK
    <2>4. CASE /\ u = t /\ u \in Queued
               /\ queue'[t] = Sooner(queue[t], at) /\ due'[t] = Sooner(due[t], tick)
        <3>1. queue[t] \in Nat /\ due[t] \in Nat
            BY <2>4 DEF TypeOK, Queued
        <3>2. tick * PERIOD \in Nat /\ due[t] * PERIOD \in Nat
            BY <1>4, <3>1, MulFacts, TimeDriverAssumption
        <3>3. /\ queue[t] <= due[t]
              /\ Backlog => elapsed <= due[t] * PERIOD + held
              /\ ~Backlog => base < due[t]
            BY <2>4 DEF DueBound
        <3> QED
            BY <1>4, <1>5, <2>4, <3>1, <3>2, <3>3, TimeDriverAssumption
            DEF Sooner, TypeOK
    <2> QED
        BY <1>6, <2>2, <2>3, <2>4
<1> QED
    BY <1>2, <1>7, <1>8, <1>9

(* Polling a task leaves clock and queue alone. *)
LEMMA PollTaskStep ==
    ASSUME IInv, NEW t \in Tasks, PollTask(t)
    PROVE  IInv'
    BY DEF IInv, PollTask, TypeOK, NotStarted, ClockExact, Clock, Phase, Backlog,
           NextTickArmed, HandlerArmed, BacklogBound, DueBound, AlarmSound,
           Queued, tmr, clock
-----------------------------------------------------------------------------
(* IInv is inductive: one step per action of Next. *)
THEOREM Invariance == Spec => []IInv
<1>1. IInv /\ [Next]_vars => IInv'
    <2> SUFFICES ASSUME IInv, [Next]_vars PROVE IInv'
        OBVIOUS
    <2>1. CASE InitDriver
        BY <2>1, InitDriverStep
    <2>2. CASE Count
        BY <2>2, CountStep
    <2>3. CASE Handler
        BY <2>3, Tmr0IsrStep, OnTickStep, ArmWriteStep, ArmCheckStep, ProcessQueueStep
        DEF Handler
    <2>4. ASSUME NEW t \in Tasks, NEW at \in 1..MaxAt, ScheduleWake(t, at)
          PROVE  IInv'
        BY <2>4, ScheduleWakeStep, TimeDriverAssumption
    <2>5. ASSUME NEW t \in Tasks, PollTask(t)
          PROVE  IInv'
        BY <2>5, PollTaskStep
    <2>6. CASE UNCHANGED vars
        BY <2>6 DEF vars, IInv, TypeOK, NotStarted, ClockExact, Clock, Phase, Backlog,
            NextTickArmed, HandlerArmed, BacklogBound, DueBound, AlarmSound,
            Queued, tmr, clock, timers
    <2> QED
        BY <2>1, <2>2, <2>3, <2>4, <2>5, <2>6 DEF Next
<1> QED
    BY <1>1, InitIInv, PTL DEF Spec

(* Type correctness of the driver state and of the TMR0 registers. *)
THEOREM TypeCorrect == Spec => []TypeOK
    BY Invariance, PTL DEF IInv

(* now() loses no time: base and the live counter add up to the counts that *)
(* have passed since init(), for every hold-off within MaxHeld.             *)
THEOREM ClockIsExact == Spec => []ClockExact
    BY Invariance, PTL DEF IInv

(* arm_next_compare never leaves a compare the counter has already passed.  *)
THEOREM NextTickIsArmed == Spec => []NextTickArmed
    BY Invariance, PTL DEF IInv

(* The cached next_alarm is a lower bound of every queued deadline.         *)
THEOREM AlarmIsSound == Spec => []AlarmSound
    BY Invariance, PTL DEF IInv

\* The inductive invariant bounds how late a wake can be.
LEMMA NotLate == IInv => TimerNotLate
<1> SUFFICES ASSUME IInv, NEW t \in Queued
             PROVE  elapsed <= due[t] * PERIOD + MaxHeld
    BY DEF TimerNotLate
<1>1. t \in Tasks /\ due[t] \in Nat /\ Phase \in Nat
    BY PhaseType DEF IInv, Queued, TypeOK
<1>2. due[t] * PERIOD \in Nat /\ base * PERIOD \in Nat
    BY <1>1, MulFacts, TimeDriverAssumption DEF IInv, TypeOK
<1>3. CASE Backlog
    BY <1>1, <1>2, <1>3, TimeDriverAssumption DEF IInv, TypeOK, DueBound
<1>4. CASE ~Backlog /\ started
    <2>1. base + 1 <= due[t] /\ Phase < PERIOD
        BY <1>1, <1>4 DEF IInv, DueBound, NextTickArmed, TypeOK
    <2>2. base * PERIOD + PERIOD <= due[t] * PERIOD
        BY <1>1, <2>1, MulFacts, TimeDriverAssumption DEF IInv, TypeOK
    <2> QED
        BY <1>1, <1>2, <2>1, <2>2, TimeDriverAssumption
        DEF IInv, TypeOK, ClockExact, Clock
<1>5. CASE ~started
    BY <1>2, <1>5, TimeDriverAssumption DEF IInv, NotStarted
<1> QED
    BY <1>3, <1>4, <1>5

(* A timer is woken at the boundary it is owed, late by at most the hold-off. *)
THEOREM TimersAreNotLate == Spec => []TimerNotLate
    BY Invariance, NotLate, PTL

(* The four parts of DriverSound together, as the run checks them.          *)
THEOREM DriverIsSound == Spec => []DriverSound
    BY TypeCorrect, NextTickIsArmed, AlarmIsSound, TimersAreNotLate, PTL DEF DriverSound

(* No timer fires before now() reaches its deadline, unless it is evicted.  *)
THEOREM TimersAreNotEarly == Spec => TimerNotEarly
<1>1. ASSUME TypeOK, [Next]_vars, NEW t \in Queued, queue'[t] = None
      PROVE  queue[t] <= Now \/ Evicts
    <2>1. t \in Tasks /\ queue[t] \in Nat /\ queue[t] # None
        BY <1>1 DEF TypeOK, Queued
    <2>2. CASE ProcessQueue
        BY <1>1, <2>1, <2>2, PhaseType DEF ProcessQueue, NextExpiration, TypeOK
    <2>3. ASSUME NEW u \in Tasks, NEW at \in 1..MaxAt, ScheduleWake(u, at)
          PROVE  queue[t] <= Now \/ Evicts
        <3>1. at \in Nat /\ at # None
            BY TimeDriverAssumption
        <3>2. CASE /\ queue[u] = None /\ Cardinality(Queued) >= QUEUE_SIZE
                   /\ \E v \in Queued : queue' = [queue EXCEPT ![v] = None, ![u] = at]
            <4>1. queue'[u] # None
                BY <1>1, <3>1, <3>2 DEF TypeOK
            <4> QED
                BY <3>2, <4>1 DEF Evicts
        <3>3. CASE \/ queue' = queue
                   \/ queue' = [queue EXCEPT ![u] = at]
                   \/ queue' = [queue EXCEPT ![u] = Sooner(@, at)]
            BY <1>1, <2>1, <3>1, <3>3, TimeDriverAssumption DEF Sooner, TypeOK
        <3> QED
            BY <2>3, <3>2, <3>3 DEF ScheduleWake, QueueScheduleWake
    <2>4. CASE UNCHANGED queue
        BY <1>1, <2>1, <2>4
    <2> QED
        BY <1>1, <2>2, <2>3, <2>4
        DEF Next, vars, timers, InitDriver, Count, Handler, Tmr0Isr, OnTick,
            ArmWrite, ArmCheck, PollTask
<1>2. TypeOK /\ [Next]_vars =>
         [\A t \in Queued : queue'[t] = None => queue[t] <= Now \/ Evicts]_vars
    BY <1>1
<1> QED
    BY <1>2, TypeCorrect, PTL DEF Spec, TimerNotEarly
-----------------------------------------------------------------------------
(* Quotients are unique, so now(), which the driver computes from the last  *)
(* boundary, is the number of whole periods since init().                   *)
LEMMA QuotientUnique ==
    ASSUME NEW P \in Nat \ {0}, NEW e \in Nat, NEW x \in Nat, NEW y \in Nat,
           x * P <= e, e < x * P + P, y * P <= e, e < y * P + P
    PROVE  x = y
<1>1. ASSUME NEW a \in Nat, NEW b \in Nat, a * P <= e, e < a * P + P, b * P <= e, a < b
      PROVE  FALSE
    <2>1. (a + 1) * P = a * P + P /\ (a + 1) * P <= b * P
        BY <1>1, MulFacts
    <2>2. a * P \in Nat /\ b * P \in Nat
        BY <1>1, MulFacts
    <2> QED
        BY <1>1, <2>1, <2>2
<1>2. ~(x < y) /\ ~(y < x)
    BY <1>1
<1> QED
    BY <1>2

\* Wherever the handler stands, now() is real time divided by the period.
LEMMA NowIsTick == TypeOK /\ ClockExact => Now = elapsed \div PERIOD
<1> SUFFICES ASSUME TypeOK, ClockExact PROVE Now = elapsed \div PERIOD
    OBVIOUS
<1> DEFINE q == Phase \div PERIOD
           d == elapsed \div PERIOD
<1>1. q \in Nat /\ q * PERIOD <= Phase /\ Phase < q * PERIOD + PERIOD /\ Phase \in Nat
    BY PhaseType, DivFacts, TimeDriverAssumption
<1>2. d \in Nat /\ d * PERIOD <= elapsed /\ elapsed < d * PERIOD + PERIOD
    BY DivFacts, TimeDriverAssumption DEF TypeOK
<1>3. Now = base + q /\ base \in Nat /\ elapsed \in Nat /\ elapsed = base * PERIOD + Phase
    BY DEF Now, TypeOK, ClockExact, Clock
<1> HIDE DEF q, d
<1>4. /\ (base + q) * PERIOD = base * PERIOD + q * PERIOD
      /\ base * PERIOD \in Nat /\ q * PERIOD \in Nat
    BY <1>1, <1>3, MulFacts, TimeDriverAssumption
<1>5. (base + q) * PERIOD <= elapsed /\ elapsed < (base + q) * PERIOD + PERIOD
    BY <1>1, <1>3, <1>4, TimeDriverAssumption
<1>6. base + q = d
    BY <1>1, <1>2, <1>3, <1>5, QuotientUnique, TimeDriverAssumption
<1> QED
    BY <1>3, <1>6 DEF d

(* What holds in every state holds after a step. *)
LEMMA AfterStep ==
    /\ (TypeOK /\ ClockExact)' => (Now = elapsed \div PERIOD)'
    /\ IInv' => TimerNotLate'
    BY NowIsTick, NotLate, PTL

(* The service counts its timers as the driver does. *)
LEMMA SameCardinality == \A S : Service!Cardinality(S) = Cardinality(S)
    BY Zenon DEF Service!Cardinality, Cardinality

(* One step of the driver is one step of the timer service, or none: the    *)
(* counter's step is the passing of time, the end of the handler the wakes, *)
(* a call the same call, and everything else is invisible.                  *)
LEMMA ServiceStep ==
    IInv /\ IInv' /\ [Next]_vars => [Service!Next]_(Service!serviceVars)
<1> SUFFICES ASSUME IInv, IInv', [Next]_vars
             PROVE  Service!Next \/ UNCHANGED Service!serviceVars
    OBVIOUS
<1>1. Now = elapsed \div PERIOD /\ Now' = elapsed' \div PERIOD /\ Now \in Nat
    BY NowIsTick, AfterStep, PhaseType DEF IInv
<1>2. CASE UNCHANGED <<elapsed, queue, due, woken>>
    BY <1>1, <1>2 DEF Service!serviceVars
<1>3. CASE Count
    <2>1. elapsed' = elapsed + 1 /\ UNCHANGED <<queue, due, woken>>
        BY <1>3 DEF Count, timers
    <2>2. \A t \in Service!Pending : elapsed + 1 <= due[t] * PERIOD + MaxHeld
        BY <2>1, AfterStep DEF TimerNotLate, Service!Pending, Queued
    <2>3. Service!Pass
        BY <1>1, <2>1, <2>2 DEF Service!Pass
    <2> QED
        BY <2>3 DEF Service!Next
<1>4. CASE ProcessQueue
    <2> DEFINE E == {t \in Queued : queue[t] <= base}
    <2>1. /\ queue' = [t \in Tasks |-> IF t \in E THEN None ELSE queue[t]]
          /\ due' = [t \in Tasks |-> IF t \in E THEN 0 ELSE due[t]]
          /\ woken' = woken \cup E
          /\ elapsed' = elapsed
        BY <1>4 DEF ProcessQueue, NextExpiration
    <2>2. Now' = Now
        BY <1>1, <2>1
    <2>3. CASE E = {}
        <3>1. queue' = queue /\ due' = due /\ woken' = woken
            BY <2>1, <2>3 DEF IInv, TypeOK
        <3> QED
            BY <2>1, <2>2, <3>1 DEF Service!serviceVars
    <2>4. CASE E # {}
        <3>1. E \in SUBSET Service!Pending
            BY DEF Service!Pending, Queued
        <3>2. \A t \in E : queue[t] <= Now
            <4>1. base <= Now /\ base \in Nat /\ \A t \in E : queue[t] \in Nat
                BY PhaseType DEF IInv, TypeOK, Queued
            <4> QED
                BY <1>1, <4>1
        <3>3. Service!Fire
            BY <2>1, <2>2, <2>4, <3>1, <3>2, Zenon DEF Service!Fire
        <3> QED
            BY <3>3 DEF Service!Next
    <2> QED
        BY <2>3, <2>4
<1>5. ASSUME NEW t \in Tasks, NEW at \in 1..MaxAt, ScheduleWake(t, at)
      PROVE  Service!Next
    <2>1. elapsed' = elapsed /\ Now' = Now /\ at \in Nat /\ None \notin Nat
        BY <1>1, <1>5, TimeDriverAssumption DEF ScheduleWake
    <2>2. OweWake(t, at) => Service!Owe(t, at)
        <3>1. Later(at, Now + 1) = IF at <= Now THEN Now + 1 ELSE at
            BY <1>1, <2>1 DEF Later
        <3>2. t \in Service!Pending <=> queue[t] # None
            BY DEF Service!Pending
        <3> QED
            BY <3>1, <3>2, Zenon DEF OweWake, Service!Owe, Service!Earlier, Sooner
    <2>3. Queued = Service!Pending
        BY DEF Queued, Service!Pending
    <2>4. CASE /\ OweWake(t, at) /\ queue[t] # None /\ UNCHANGED woken
               /\ queue' = [queue EXCEPT ![t] = Sooner(@, at)]
        <3>1. Service!Set(t, at)
            BY <2>1, <2>2, <2>4
            DEF Service!Set, Service!Pending, Service!Earlier, Sooner
        <3> QED
            BY <3>1 DEF Service!Next
    <2>5. CASE /\ OweWake(t, at) /\ queue[t] = None /\ UNCHANGED woken
               /\ Cardinality(Queued) < QUEUE_SIZE
               /\ queue' = [queue EXCEPT ![t] = at]
        <3>1. Service!Set(t, at)
            BY <2>1, <2>2, <2>3, <2>5, SameCardinality DEF Service!Set, Queued
        <3> QED
            BY <3>1 DEF Service!Next
    <2>6. ASSUME OweWake(t, at), queue[t] = None, Cardinality(Queued) >= QUEUE_SIZE,
                 NEW v \in Queued, queue' = [queue EXCEPT ![v] = None, ![t] = at],
                 woken' = woken \cup {v}
          PROVE  Service!Next
        <3>1. Service!Evict(t, at, v) /\ v \in Tasks
            BY <2>1, <2>2, <2>3, <2>6, SameCardinality DEF Service!Evict, Queued
        <3> QED
            BY <3>1 DEF Service!Next
    <2>7. CASE at <= Now /\ woken' = woken \cup {t} /\ UNCHANGED <<queue, due>>
        <3>1. Service!WakeAtOnce(t, at)
            BY <2>1, <2>7 DEF Service!WakeAtOnce
        <3> QED
            BY <3>1 DEF Service!Next
    <2> QED
        BY <1>5, <2>4, <2>5, <2>6, <2>7, Zenon DEF ScheduleWake, QueueScheduleWake
<1>6. ASSUME NEW t \in Tasks, PollTask(t)
      PROVE  Service!Next
    <2>1. Service!Poll(t)
        BY <1>1, <1>6 DEF PollTask, Service!Poll
    <2> QED
        BY <2>1 DEF Service!Next
<1> QED
    BY <1>2, <1>3, <1>4, <1>5, <1>6
    DEF Next, vars, timers, InitDriver, Handler, Tmr0Isr, OnTick, ArmWrite, ArmCheck

(* The driver implements the timer service it promises, for every counter  *)
(* width, period, queue size and set of tasks: now() is the whole periods   *)
(* since init() and every wake comes between its deadline and MaxHeld after *)
(* the tick that is owed, unless the full queue evicts it, waking it early. *)
THEOREM DriverImplementsService == Spec => ImplementsTimerService
<1>1. Init => Service!Init
    <2> SUFFICES ASSUME Init PROVE Service!Init
        OBVIOUS
    <2>1. TypeOK /\ ClockExact /\ elapsed = 0
        BY InitIInv DEF IInv, Init
    <2>2. Now = 0 \div PERIOD
        BY <2>1, NowIsTick
    <2>3. 0 \div PERIOD = 0
        <3>1. /\ 0 \div PERIOD \in Nat
              /\ (0 \div PERIOD) * PERIOD <= 0
              /\ 0 < (0 \div PERIOD) * PERIOD + PERIOD
            BY DivFacts, TimeDriverAssumption
        <3> QED
            BY <3>1, QuotientUnique, TimeDriverAssumption
    <2> QED
        BY <2>1, <2>2, <2>3 DEF Init, Service!Init
<1> QED
    BY <1>1, ServiceStep, Invariance, PTL
    DEF Spec, ImplementsTimerService, Service!Spec
=============================================================================
