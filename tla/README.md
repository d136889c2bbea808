# TLA+ models of mc1322x-rs

mc1322x-rs is a bare-metal Rust stack for the Freescale MC1322x, a single-core
ARM7 with an IEEE 802.15.4 radio: a hardware abstraction layer (`mc1322x-hal`),
an embassy time driver and a sleeping executor (`mc1322x-embassy`), a radio
driver (`mc1322x-radio`), and a second stage loader with its host scripts
(`mc1322x-ssl`). The hardware has no atomic instructions; everything that is
concurrent runs through one 32-bit interrupt enable register, free-running
counters and a handful of status flags. That is what these models are about.

Run a model: `tlc -workers 2 -config MCTimeDriver.cfg MCTimeDriver.tla`; check
the proofs: `tlapm TimeDriverProofs.tla`, and likewise the other six modules
whose names end in `Proofs`, and `SequenceLemmas`.
`PROJECT.json` lists the runs, the source lines behind every definition, a
mutation of the model for every property, the hazards and the findings.

## 1. Inventory

| component | state | operations | who it talks to | what makes it hard |
|---|---|---|---|---|
| time driver `mc1322x-embassy/src/time_driver.rs` | TMR0's counter and compare, `base`, `last_boundary`, timer queue, `next_alarm` | `init`, `now`, `schedule_wake`, `tmr0_isr`, `resync_after_sleep` | TMR0, embassy's queue, the executor | the counter moves between any two register accesses; interrupts are held off; it must never drift |
| sleepy executor `sleepy_executor.rs`, `hal/src/sleep.rs` | `PENDED`, run queue, guard count, sleep timer | `run`, `pend`, `sleep_with`, guards | time driver, every interrupt | wake against sleep; the clock across a sleep that stops it |
| task watchdog `task_watchdog.rs`, COP `hal/src/watchdog.rs` | task slots, COP registers and count | register, deregister, feed, `check_tasks`, `watchdog_run`, start, lock | embassy time, COP | one task masked by another, rounding, locks, sleeping time |
| AES `hal/src/aes.rs` | ASM engine registers, waker, CCM buffers | block operations, blocking and async; CCM seal and open | ASM interrupt | completion against arming; accumulator and flags that outlive an operation |
| interrupt waits: `spi.rs`, `i2c.rs`, `uart.rs`, `gpio.rs`, `delay.rs`, `adc.rs`, `util.rs`, `critical_section_impl.rs` | INTENABLE, WU_CNTL, per-driver enables and flags, `WakerCell`s | one async wait per driver, its handler | interrupt controller, executor | read-modify-write of shared registers, non-atomic critical sections |
| I2C `i2c.rs` | I2CCR, I2CSR, the byte being shifted, waker | `transaction`, blocking and async, the handler | slave, other masters, executor | a byte ahead when receiving, repeated START, NACK tail, failures in mid transaction, dropped futures |
| UART `uart.rs` | two FIFOs, UCON's masks, two wakers | `read`, `write`, `flush`, blocking and async, one handler for both | the line, executor | full and empty FIFOs, bytes that arrive during a copy, a shared handler |
| SPI `spi.rs` | SPI_INT, the transfer under way, waker | the five `SpiBus` operations, blocking and async, the handler | slave, interrupt controller | words and answers tied by order alone, dropped futures |
| radio `mc1322x-radio/src/radio.rs` | cancel flag, receive buffer pointer, `rx_pending`, `tx_status`, cached channel, one waker, the C library's packet pool | receive, transmit, prepare, cancel, enable, disable, radio-hal calls, two callbacks | MACA interrupt | dropped futures, one waker for all, stale results, raw pointers |
| loader and host `mc1322x-ssl`, `hal/src/nvm.rs` | flash cells, the loader's loop, the script's progress | Erase, Write, Commit, Confirm, sessions | UART, boot ROM, operator | power loss in mid-write, damaged frames, retries, matching answers by order |
| frame layout `mc1322x-radio/src/layout.rs` | the PHR in byte 0 of a buffer | `set_frame_length`, tokens, checked frames, the copies of radio.rs | radio, dot15d4, ieee802154 | a length with the FCS, clamped in four places and read in five |
| flash algorithm `mc1322x-flash-algorithm` | the flash, the detected part | `new`, erase, program, verify | a probe, the boot ROM | ROM failures, resets, ranges that wrap |
| baud rates, PWM, power, RTC, RNG, reset, boards | registers or pure arithmetic | single calls | boot ROM, libmc1322x | numeric edges only |
| console loader, build scripts, bindings | none | | boot ROM, C library | outside the repository |

The hazards these give rise to are listed, with their lines and the properties
that would catch them, in `PROJECT.json`.

## 2. Modules

| module | extends | models | runs |
|---|---|---|---|
| `TimerService` | | what the time driver promises: an abstract clock with timers | |
| `TimeDriver` | instantiates `TimerService` | the time driver against a moving counter | `time_driver` |
| `TimeDriverProofs` | `TimeDriver` | invariants and the refinement, for every counter width, period and hold-off | |
| `SleepyExecutor` | `TimeDriver` | the executor's run loop, the sleep path, the resync | `sleepy_executor`, `sleepy_live`, `sleepy_wrap` |
| `SleepyExecutorProofs` | `SleepyExecutor`, `TimeDriverProofs` | wake against sleep, the clock across sleeps | |
| `Aes` | | one operation of the engine, blocking and async | |
| `AesCcm` | `Aes` | CCM over those operations | `aes_ccm`, `aes_missed`, `aes_spurious` |
| `AesProofs` | `AesCcm`, `SequenceLemmas` | completions, counters, the MAC and the round trip, for every block size, message and split of the associated data | |
| `Radio` | | the driver, its client, the MACA and the packet pool | `radio`, `radio_status` |
| `RadioProofs` | `Radio` | invariants for every pool, set of channels and status codes | |
| `TaskWatchdog` | | the runner, the tasks and the COP | `task_watchdog` |
| `TaskWatchdogProofs` | `TaskWatchdog` | resets in time and none needless, for every table, interval and COP | |
| `IrqWait` | | the drivers' waits on the shared interrupt registers | `drivers` |
| `I2cBus` | | I2C transactions, byte by byte, to a slave | `drivers` |
| `UartFifo` | | UART reads, writes and flushes over the FIFOs | `drivers` |
| `SpiBus` | | SPI operations, word by word | `drivers` |
| `FrameLayout` | | a frame's length from a sender's buffer to a reader's | `drivers` |
| `DriverProofs` | `IrqWait`, `I2cBus`, `SpiBus`, `UartFifo`, `FrameLayout`, `SequenceLemmas` | no lost wake-up and no stale event for every team of drivers; transactions, words, bytes and lengths for buffers and FIFOs of every size | |
| `SequenceLemmas` | | lemmas about `FlattenSeq`, prefixes and concatenation, for `AesProofs` and `DriverProofs` | |
| `FlashService` | | what flashing a board promises: the image the boot ROM finds, session after session | |
| `SslSession` | instantiates `FlashService` | host, wire, loader and flash over several sessions | `flashing` |
| `ProbeFlash` | | the flash algorithm's calls over the ROM's routines | `flashing` |
| `FlashingProofs` | `SslSession`, `ProbeFlash` | sessions, their refinement of the service, and calls, for every flash, image and number of faults | |

### TimeDriver
Variables bear the names of the code: `cntr`, `comp1`, `tcf1` are TMR0's
registers, `base`, `last_boundary`, `queue`, `next_alarm` the fields of
`TmrDriver`. `isr` is the handler's position; it moves at every register access
of `on_tick` and `arm_next_compare` (`Tmr0Isr`, `OnTick`, `ArmWrite`,
`ArmCheck`, `ProcessQueue`), and `Count`, the hardware, may step between any two
of them. `ScheduleWake` and `Now` read the counter at most once inside one
critical section, so each is one step. `held` counts how long a tick has been
pending or in service; `MaxHeld` bounds it, which is the limit the module's
header documents. `elapsed` and `due` are history: real time, and the boundary
each timer is owed.

### TimerService
Time, `tick` (what `now()` returns), the timers that are set, the tick each is
owed its wake by, the tasks woken. Time passes only while no task would be woken
later than `Slack` counts after its tick. `TimeDriver` maps `now` to `elapsed`,
`tick` to `Now`, `timers` to `queue`, `owed` to `due`, `Slack` to `MaxHeld`:
`Count` is `Pass`, `ProcessQueue` is `Fire`, `ScheduleWake` is `Set`, `Evict` or
`WakeAtOnce`, and every other step of the handler stutters, so a client can not
tell where the handler stands.

### SleepyExecutor
`pc` follows `run()`: clear `PENDED`, dequeue a batch, poll its tasks, decide
inside the critical section, program the sleep timer, power down, doze, wake,
resync. `TickInterrupt` and `TickHandler` are the time driver's handler, masked
in the critical section. Peripheral interrupts wake tasks that hold a
`SleepInhibitGuard`. Time that passes where the code does not look is explicit:
`MaxLag` (between the read that measures the sleep and the one before it),
`MaxGap` (between `before_power_down` and the clocks stopping), `MaxWakeUp` (the
wake-up sequence, which the sleep timer counts).

### Aes, AesCcm
The cipher is uninterpreted: a byte is a value with the set of keystream bytes
XORed into it, the CBC-MAC accumulator the sequence of blocks absorbed since
`CLEAR`. `Aes` is the protocol of one operation, `AesCcm` drives it through
`ccm_mac`, `ccm_ctr_crypt`, `encrypt_in_place` and `decrypt_in_place`, blocking or
async per message, over associated data in any split into items, with the
message possibly altered in between. The two casts to u16, of a chunk's counter
and of the length of the associated data, are modelled (`U16` is 65536 in the
code); two assumptions, `MessagesFit` and `AadFits`, keep lengths within them.

### Radio
The client calls any operation in any order the borrow rules allow, drops
futures, and polls without having been woken. `abandons` says whether it leaves
results behind; the properties that need a disciplined client say `~abandons`.
Packets are moved, never copied: a packet is its frame number and channel.
`owed`, `lent`, `report`, `aired`, `arrived`, `taken`, `sent` are history.

### TaskWatchdog
Time passes in units; the COP counts `Cycles` per unit and steps of `Step`
cycles. `hungry` is how long a starved task has been awake and starved,
`missed` whether a check found one. `Doze` stops the COP and not the clock.

### IrqWait
Seven drivers, one wait each. A poll is split where an interrupt can fall: the
read and the write of `WU_CNTL`, the enabling of a channel, the read of
`INTENABLE` and its zeroing (`Acquire`, then `Check`), the end of the critical
section. `Irq` is `irq()` calling the handlers of one channel. `HwEvent` is the
peripheral, `SpuriousWake` a poll for another reason, `Abandon` a dropped future,
which leaves behind its waker, its enables and its place in the run queue.

### I2cBus
A byte is shifted (`i2shift`) while the driver runs; each wait of `wait_byte` is
a value of `i2pc` ("addr", "tx", "rx", "tail"). `I2cEnter` is the head of the
transaction's loop, `I2cAddressed`, `I2cTransmitData`, `I2cReceiveData`,
`I2cTail` what the code does up to the next wait once a byte is through. The
blocking and the async driver differ in `I2cPark` only: the one spins, the other
stores its waker, arms `MIEN` and parks. `i2wire` is what went over the bus,
`i2got` which of its bytes the driver stored. `I2cWire` compares the first with
what the operations mean, `I2cBuffers` the second with the first.

### UartFifo, SpiBus
Bytes are numbers in the order in which they were written or arrived, so that a
lost, doubled or overtaken one shows. In `UartFifo` the hardware may take or bring
a byte between any two steps of a copying loop; `UartPark` stores the waker and
unmasks in one critical section with the check. In `SpiBus` the answer to the
n-th word on the wire is n, and `SpiEnable` stands apart because the channel is
enabled outside the critical section.

### FrameLayout
Only lengths: the PHR is a number below 256, a buffer its size, its PHR and how
many of its bytes are new. Every way to compose a frame (token, encoder, any
slice with any first byte, radio-hal, another radio) meets every way to read it.

### SslSession
The flash is an array of cells; erasing goes sector by sector and programming
cell by cell, so that a power loss or a failing ROM routine can fall anywhere. A header is two cells.
The host follows `flash_image` line by line: erase, the chunks, commit, one
Confirm awaited after each. Failures (`faults`) are damaged, oversize, short or
lost frames, lost answers, an erase or a write that fails, a timeout that is too early, power
loss, an operator who forgets to reset the board.

### FlashService
What the boot ROM would find if the power failed now (`chip`: no image, the
signature over a whole image, that image, or one of which parts are gone), the
number of sessions, and what the current script has reported. `Wipe` takes an
image, but never the current session's and never after "All done"; `Announce`
and `Complete` write signature and length over an image that is whole; `Succeed`
needs the session's own image in place. `SslSession` maps `chip` to `Found`,
which reads header and image out of the cells: `EraseSector` is `Wipe` or a
stutter, `ProgramCell` is `Announce` or `Complete` when it writes the header and
a stutter when it writes the image, the last Confirm is `Succeed`, an error or a
timeout is `Fail`, a run of the script is `Again`; everything else stutters.
`Announce` and `Complete` take any session's image, not just the current one's:
a script that gave up too early, run again on a board that nobody reset, finds
the loader still committing the image of its last run. TLC finds that behaviour
when the two actions are narrowed to the current session.

### ProbeFlash
Each call of the algorithm is an action that checks its arguments and returns or
enters a ROM routine; the routine works cell by cell (`RomCell`), may fail at any
point (`RomReturns`) and may be reset at any point (`ProbeReset`).

## 3. Runs

| run | what it asks | bounds | states |
|---|---|---|---|
| `time_driver` | the driver implements the timer service; no drift, no missed match, no stale alarm | 12 counts in a wrap, 3 per tick, hold-off 8 (the largest the assumption allows), 3 tasks on 2 queue entries, 21 counts: nearly two wraps | every position of the counter in every handler step |
| `sleepy_executor` | wake against sleep; clock across sleeps | 2 tasks, timers up to tick 5, sleeps of 2 ticks and more, gaps of 1 count each, 6 counts of 6 in a wrap awake, the sleeping time not counted | interrupts at every step, up to two sleeps |
| `sleepy_live` | every woken task polled, every timer fires | smaller, fair | |
| `sleepy_wrap` (violation) | drift with a sleep timer that saturates | `DOZE_MAX` 2 | |
| `aes_ccm` | CCM against its definition over bounded inputs | blocks of 3 bytes, up to 5 bytes of associated data in up to 3 items, messages of 0, 1, 3, 4 and 15 bytes: empty, partial, full, more than a block, and 5 blocks; a u16 of 6 values, so that 5 bytes and 5 blocks are the most that fits | |
| `aes_missed`, `aes_spurious` (violation) | the two claims about the async wait | | |
| `radio` | packets, frames, wakes, results, channels | 2 packets, 2 channels, 2 transmissions, 3 receptions: the pool runs out both ways | |
| `radio_status` (violation) | whose result `transmit` reports | no receptions | |
| `task_watchdog` | reset in time and never needlessly | 2 ids in 2 slots, 3 configurations, 3 COP time-outs: one rounded up inside the field of 4 values, one that needs its largest, one beyond it | |
| `drivers` | no lost wake-up, no storm, no stale event; what I2C, UART and SPI put on the wire and store; frame lengths; every operation returns | waits: 7 pairs of drivers, the ones that share a register or a handler and one that shares nothing, 2 operations each, so that the second meets what the first left; I2C: every list of up to 2 operations of up to 2 bytes and of 3 of up to 1, one transaction dropped; UART: FIFOs of 2, buffers of 0, 1 and 3 (more than a FIFO), 3 bytes each way; SPI: buffers of 0 to 3, 2 futures dropped; frames: real sizes around every clamp | each driver in behaviours of its own |
| `flashing` | "All done" is true; no header is written over a partial image; old image, no image, new image; recovery; the flash algorithm's answers are true | SSL: 3 sectors of 3 cells, images of 4 (fits), 5 (reaches into the reserved sector) and 8 (leaves the part), 2 sessions, 3 faults; probe: 3 sectors of 2 cells, addresses in each and behind the part, data that fits, crosses a sector or the end, or wraps the address | |

`drivers` and `flashing` hold several modules that share no state; a behaviour
belongs to one of them (`driver`, `path`), chosen in its initial state, so the
states add up and do not multiply.

All runs but the violations pass. `CHECK_DEADLOCK FALSE` is set in every one:
each instance ends where its bound on time, operations or sessions is reached.

Bounds on time, operations and faults (`MaxTime`, `MaxTx`, `MaxRx`, `MaxOps`,
`MaxI2cDrops`, `MaxUartBytes`, `MaxSpiDrops`, `MaxSession`, `MaxFaults`,
`MaxDuration`, `MaxAt`) only end the exploration.
The proofs remove the doubt about small instances for every safety property
(section 4): they hold for every value of the constants, the bounds included.

### Fairness
- Executor and time driver: the oscillator runs, the run loop and the handlers
  advance, a poll returns: the processor executes instructions. `WokenIsPolled`
  and `ExecTimerFires` need nothing else; no fairness is put on wakes.
- Radio: an executor polls a woken task, the MACA sends what is queued. Nothing
  is assumed of reception, and `FuturesResolve` asks of a transmission only while the radio is on.
- Interrupt waits: `irq()` serves what is pending; the processor gets back to
  its task again and again unless a handler leaves its own request asserted
  (strong fairness of the task steps, which a pending interrupt disables); the
  RTC counts and its comparator keeps firing, which is why `wait_rtc_ticks`
  loops. No fairness is assumed of any other peripheral: `WaitResolves` starts
  from an event that has happened.
- I2C: the driver's task and the handler run, and a byte that is being shifted
  ends (the slave does not stretch the clock for ever); nothing is assumed of
  acknowledgements, arbitration or other wake-ups. `I2cReturns` starts with no
  transaction dropped before it.
- UART: the driver's task and the handler run, the transmitter transmits. No byte
  need ever arrive: `UartReturns` asks of a read only once one has.
- Flashing: a powered loader runs its loop, a script runs on to its end or to
  its timeouts. `SessionSucceeds` starts from a state with no faults left.

## 4. What is proved

`TimeDriverProofs`, from `TimeDriverAssumption` (above all
`PERIOD + MaxHeld < WRAP`): type correctness, `ClockExact`, `NextTickArmed`,
`AlarmSound`, `TimerNotLate` (together `DriverSound`, the run's invariant), as an
action property `TimerNotEarly`, and the refinement `ImplementsTimerService`. The
inductive invariant `IInv` adds four facts to the invariants: before `init()`
everything is zero; while the handler runs the compare read back is the one just
written (`HandlerArmed`); the counter is at most `PERIOD + held` past the
boundary, so that the 16-bit difference never wraps (`BacklogBound`, the heart of
the argument: `ClockExact` is not inductive without it); and a queued timer is
owed a boundary that is ahead or passed at most `held` counts ago (`DueBound`).
The proof goes action by action, with lemmas on division by the period, on the
two products it needs and on the least element of a set of deadlines.

The refinement rests on `NowIsTick`: because of `ClockExact`, `Now` is
`elapsed \div PERIOD` wherever the handler stands, so the handler's own steps
are invisible and `Pass` computes what the hardware does. `Pass` may not outrun
an owed wake, which is `TimerNotLate` in the state after the step; `Fire` may
wake only what is due, which is `base <= Now`.

`RadioProofs`, from `RadioAssumption` (a pool of at least one packet, distinct
null value): type correctness, `PoolConserved`, `FramesAccounted`,
`WakeNotLost`, `BufferValid` for every client, and `OwnReports`, `OwnChannels`,
`BusyEnds` for clients that collect every result. `IInv` adds that the cached
channel, when there is one, is the MACA's (`CacheCoherent`) and that a
disciplined client has at most one frame queued, which is the one owed
(`Disciplined`).

`SleepyExecutorProofs`, from `TimeDriverAssumption` and
`SleepyExecutorAssumption`, which adds that the sleep path reads the clock again
within a period (`MaxLag < PERIOD`) and that this lag fits into the counter with
the period and the hold-off (375 counts of 65536). `ExecInv` restates the
driver's invariant for a driver that is interrupted by sleeps (`DriverInv`: its
backlog bound leaves room for what the resync leaves above a period until the
re-arm has caught up, `ResyncBound`) and adds three facts: a task in the run queue
that the batch being polled does not hold implies `PENDED` at the decision, and
from then to the resync the run queue is empty and no handler runs
(`PendedCovers`); TMR0 has counted no more than the lag since its restart
(`SleepShape`); and what a task has read is no later than the clock or, while TMR0
stands, the snapshot (`SeenBefore`).
From it follow
- `NoSleepOnWork`: between the check of `PENDED` and the wake-up the section
  lets no interrupt through, so what was true at the check stays true;
- `NowNeverBackwards`;
- `SleepEndsByDeadline`, under `ShortDecision`: interrupts are not held off for
  `MIN_SLEEP_TICKS - 1` ticks. A tick that has been pending longer than that at
  the decision has already made the deadline late, and no sleep can mend it. 19
  ms stand against the few microseconds the critical sections here last;
- `DriftBounded`, in behaviours that satisfy `[]ShortSleep`: no sleep takes the
  32-bit sleep timer through a whole turn. `sleepy_wrap` is the behaviour that
  does not, so the hypothesis is needed; it excludes sleeps within microseconds
  of 2^32 sleep timer ticks. The invariant, `DriftInv`, carries the bound across
  the states in which the clock stands still.

`TaskWatchdogProofs`, from `WatchdogAssumption`: the COP's count is at least the
awake time a task has been starved, because a check that finds it so does not
service the COP (`HungerCounted`, hence `ResetInTime`); and at most the time
since the last service unless a check found one (`ServedOnTime`, hence
`NoNeedlessReset`). `MonitoringIsArmed` is inductive once nothing but `start()`
turns the COP on.

`DriverProofs`. The waits on interrupts, for every team of drivers and number of
operations: a task that
waits is in the run queue or reachable: its waker is stored, its enable set and
its channel in INTENABLE, or in the copy that the critical section will write
back (`WaitersReachable`). That is inductive only with what the shared registers
hold at every step of another driver's poll: the copy of INTENABLE has all that
the handlers left enabled (`SectionSaves`), the copy of `WU_CNTL` has the enable
of a waiter that is not queued (`CopyKeepsEnables`), SPI's channel is enabled at
each check or its flag is set (`SpiOn`). `ReportsOwnEvent` rests on a second
invariant, `FlagsFresh`: only SPI's flag can be left over, and only by a
dropped future.

An I2C transaction, for every list of operations: `BusInv` says who owns the bus
and what can be on its way where the driver stands. `WireInv` says what has been
driven: the pieces of the operations before this one, then this one's opening
(START or repeated START and the address, or nothing) and the bytes of a write that
have been shifted, one fewer while one is under way or lost to another master. So
what has been driven begins what the operations mean, whatever comes next
(`WireBegins`), and this is where a transaction that fails stops. `BufInv` puts the
buffers one place behind the bus: of the bytes received all but the last are
stored, in increasing order (`InOrder`, `NoGap`); the last one is stored exactly
while the next is on its way (`Behind`), and is what the data register holds when
the driver comes to read it (`Fresh`). As many are stored as the finished reads have room for, and
those of this one (`Counted`); acknowledge is off from the read of the last byte
on, and one byte comes in after that (`Acked`). The count uses that `FlattenSeq`
adds a piece at a time (`UptoStep` of `SequenceLemmas`).

For `FrameLayout` the invariant is the property and the types;
for SPI it says how far wire, answers and buffer are apart at each point of the
loop (`SpiLockstep`); for the UART that what has been sent and what is in the
FIFO, one behind the other, are increasing, hold every byte of the writes that
are done and of this one the first `uan` (`TxInv`), and the like for what was
read (`RxInv`).

`AesProofs`: `OwnCompletion` under `OtherWakes = FALSE`, a task that nothing but
the engine wakes, since the code takes any second poll for the completion, as
`aes_spurious` shows. The invariant is what mask, `BUSY`, `DONE`, the latched
interrupt, waker and guard can be at each point of a wait (`EngineInv`); above
all that all is clean between two operations. `CountersUnique` needs no such
hypothesis, but `MessagesFit`: the counters of a job are 0, 1, 2... (encrypting)
or 1, 2... 0 (decrypting), as many as the position in the message says
(`CounterInv`), and the length of a message never changes (`LengthInv`), so that
no counter reaches 2^16 and comes round to 0 (`CounterFits`).
`MacCoversAll` and `RoundTrip`, under `OtherWakes = FALSE`, rest on `JobInv`,
which adds to these two what the job has done so far. A running operation counts
as done (`AccDone`, `ResultDone`), so that the invariant can speak of what the
engine holds without waiting for it. In `feed_padded` the whole blocks absorbed,
the buffered bytes and the items still to come are, one behind the other, the
length-prefixed associated data (`FeedInv`), whatever the items' cuts; afterwards
the accumulator is that data's blocks and the message's first `q` (`MessageInv`,
`MacInv`). A byte of the message carries the keystream of its place, `Key`, once
the position has passed it while encrypting and until then while decrypting
(`MessageBytes`), and a different one at each place, so that the second XOR
undoes the first and no other; the tag is the mask of counter 0 over the MAC of
the original (`TagInv`). The definitions fold over sequences: the lemmas unfold
`FlattenSeq` at both ends by a least-counterexample argument over sets of
numbers (`SetInduction` of `SequenceLemmas`), and `BlocksOf` block by block. `AadFits` makes
the prefix the length itself (`PrefixFits`). `CcmAssumption` says
that an item has a length; items of length 0, empty messages and messages without
associated data are all included.

`FlashingProofs`, from the assumptions of both modules. `ProbeVerified`: cells
that an erase no longer has on its list are erased, and the list stays in the
scope of the call (`PfWork`). For the session, `SessionInv` ties host,
wire, loader and flash together: the request under way is the one the host waits
for (`Asked`) and the loader serves (`Served`); there is one request or answer at
a time, old answers come before the banner that a new session waits for
(`Traffic`); a write in progress is of a piece of some session's image or of the
header of one whose image is in flash (`Work`); the host's position says how much
of its image is in flash (`Progress`); and a Confirm on its way means what the
host will take it for (`Confirmed`). From it: `DoneMeansFlashed`, and as action
properties `SignatureOnlyOnWhole` and `ReservedKept`.

That invariant is about what the host may count on; the refinement of
`FlashService` (`ServiceInv`) also needs what it does not count on. `Cleared`:
the header is blank from the end of the erase to the commit, also under a write
whose session is over, so that a chunk never lands under a header and a header
is never programmed over another; it is kept by tracking which sectors the
erase still has to do and which header cell the loader has come to. `Owned` and
`Fresh`: the image in flash is of a session there has been, and until a
session's erase is over it is not its own, so that an erase takes only an older
image. Two lemmas then say what `Found` makes of an erased sector (`EraseWipes`)
and of a programmed cell (`ProgramCommits`), and `FlashingImplementsService`
combines them.

What stays with TLC:
- Liveness is out of the prover's reach: `WokenIsPolled`, `ExecTimerFires`,
  `FuturesResolve`, `WaitResolves`, `I2cReturns`, `UartReturns`,
  `SessionSucceeds`. The two refinements are of safety: `TimerService`
  and `FlashService` state no fairness, and the bound `Slack` takes the place of
  "a timer fires".
- Every safety property of a passing run is stated by a theorem.

The other way round, no run checks `SignatureOnlyOnWhole`, which is a theorem
(`SignatureIsLast`): the run checks `ImplementsFlashService`, which says as much
(`Announce`) and more.

Of the invariants above, `EngineInv`, `CounterInv`, `JobInv` (its quantifiers
over sequences bounded by the job's own data), `SessionInv`, `ProbeInv`, `Cleared`,
`Owned`, `Fresh` (with three sessions), `BusInv`, `WireInv` and `BufInv` were also
checked by TLC on the bounds of section 3 before they were proved.

## 5. Findings

Each of these is a violation run; its property states the quoted line.

- `sleepy_wrap`: `doze_ticks_until_next_wake` clamps to `u32::MAX`
  (time_driver.rs:196). A sleep that long ends with the sleep timer passing its
  maximum during the wake-up sequence, and the resync reads a small remainder.
- `aes_missed`: the interrupt can come between `START` and the first poll
  (aes.rs:160); it clears `DONE` and finds no waker, so the future never resolves.
- `aes_spurious`: any second poll counts as the completion (aes.rs:166).
- `radio_status`: the status of a transmission whose result was not collected
  (dropped, or never asked for) resolves the next one (radio.rs:401).

Smaller divergences, which no run states:

- aes.rs:46 says `CONTROL1_IDLE` is restored after each async operation; when
  the interrupt handler completes it, nothing re-masks the interrupt.
- `prepare_transmit` sets the channel when a frame is queued and the MACA reads
  it when it is sent (radio.rs:313, 357): two frames queued on two channels both
  go out on the second. `OwnChannels` is stated for the other clients.
- `cancel_current_operation` throws a status away (radio.rs:382) without
  clearing `tx_in_flight`: `is_busy` then stays true until a later transmission.
- `prepare_transmit` waits for a packet (radio.rs:344); if all of them are
  received frames the waiting task is the only one that could free one.
- time_driver.rs:14-16 promises recovery from up to one wrap of 65536 counts
  with interrupts disabled; the difference of 16-bit counts recovers that only
  from the last boundary, one period less (`PERIOD + MaxHeld < WRAP`).
- `ccm_ctr_crypt` casts a chunk's counter to u16 (aes.rs:365, 410) and checks no
  length: the 65536th chunk of a message is encrypted under counter 0, whose
  keystream masks the tag. RFC 3610 allows no message that long with a 13-byte
  nonce. The length of the associated data is cast too (aes.rs:343, 389), which a
  `debug_assert!` guards.
- An empty slice is to be sent as an empty frame (radio.rs:359-360); the slice
  `&bytes[1..1 + len]` of an empty one panics (radio.rs:368, 459).
- A restart after a read (I2C read, then write, in one transaction) finds the next
  byte already being received (i2c.rs:263 starts it, `nack_tail` is false): the
  repeated START cuts it off, and the last byte stored was acknowledged, so a
  slave that drives a zero can hold SDA against the START.
- The acknowledge is turned off at the last byte of the last operation
  (i2c.rs:257, 280) and the trailing byte waited for only if that operation is not
  empty (267, 287): a transaction whose final read has length 0, [Read 2, Read 0]
  for one, leaves every byte acknowledged, the trailing one included, and cuts it off with
  the STOP. `I2cBuffers` says so for such transactions.
- A dropped async I2C transaction never calls `stop`, so `MBB` stays set and the
  next `start` waits for ever (i2c.rs:192, 296); a dropped SPI word completes into
  the next one and all later bytes are one behind (spi.rs:125).
- The range check of `program_page` and `verify` adds in 32 bits
  (main.rs:319, 359) and lets a range that wraps through in a release build; the
  ROM's own check catches it, which is what `ProbeVerified` relies on.
- Async UART `flush` waits for room in the FIFO, which there is until it is
  full again: it polls until the FIFO is empty (uart.rs:349).
- `wait_for_ready` is content with `NVM_READY` (ssl_protocol.py:91); the request
  it sends then waits in the loader's FIFO, so nothing is lost.
- The loader's buffer takes a write of 1025 bytes against `MAX_CHUNK` 1024
  (main.rs:88, 122).

## 6. Assumptions

- AES-CCM: the caller keeps a message within 2^16 - 1 blocks (`MessagesFit`) and
  the associated data within what its two-byte prefix can say (`AadFits`).
- Flashing: the 8-bit sum detects the damage the model does to a frame; opening
  the serial port drops old input; the ROM erases the sectors of a bitfield in
  any order, programming can only clear bits, and `nvm_write` verifies what it
  wrote (nvm.rs:46-48); the timeouts of 200 s and 20 s outlast a board that works.
  What the loader finds when it scans on behind a damaged length (main.rs:226-241)
  fails its checksum or is not complete: an image that happens to contain a whole
  valid frame is not explored, nor is more than one answer to one damaged frame.
- I2C: a byte being received is dropped by a repeated START or STOP; `stop`'s
  forced reset frees the bus from any state and may leave `MIF` set or clear; lost
  arbitration sets `MIF` too and happens only while a byte is transmitted. Another
  master that holds the bus when a transaction begins is left out: the wait for
  `MBB` (i2c.rs:192, 296) would last longer and nothing else change.
- UART: a byte written to a full FIFO is lost, one that arrives at a full FIFO
  too; reading does not happen from an empty one (`UartRxOrdered` shows it).
- SPI: a transfer started while one is under way takes its place; the shift
  register answers each word on the wire once.
- Probe: the ROM refuses a range that leaves the part before it touches a cell;
  `nvm_write` reports what did not come out as asked; programming an erased cell
  sets it, another one is damaged. `verify` is given a size that is the length of
  its data.
- Sleep: every driver's wait in flight holds a `SleepInhibitGuard`, as the
  drivers' futures do; `NoSleepOnWork` is about the executor that looks at the
  count, not about a driver that forgot its guard.
- Frame layout: a dot15d4 token is built from one of the driver's 128-byte
  buffers, and slices hold at least one byte; layout.rs:152 panics on a shorter
  slice than its frame.
- Interrupt waits: a pending, enabled interrupt is taken before the next step
  of a task; embassy polls its run queue in order; a bus abandoned in mid
  transaction stays busy.
- Radio: the C library's callbacks run in interrupt context, count a frame
  just before queueing it and return a sent packet to the pool. The library is
  a submodule outside this repository, modelled from how radio.rs uses it.
- Time: the timer queue wakes an evicted entry at once when it is full, as
  embassy's generic queue does.

## 7. Not modelled

The boot ROM's UART handshake (its other side is not here), the C bindings and
build scripts, chip and board constants, Hibernate and pin wake-ups; settings
that are written once and carry no protocol (pads, clock dividers, SPI modes,
baud rates, flow control, transmit power); conversions (voltages, LQI to dBm,
milliseconds to delays); RTC, RNG, PWM, power and reset, which are sequences of
register writes or calls into libmc1322x. Frame bytes, keys and payloads are
identities.

## 8. Plan

Done, in this order: `TimeDriver` and its proofs; `SleepyExecutor`; `Aes` and
`AesCcm`; `Radio` and its proofs; `TaskWatchdog`; `SslSession` and `IrqWait`;
`TimerService` with the refinement checked and proved; `I2cBus`, `UartFifo`,
`SpiBus`; `FrameLayout`, `ProbeFlash`; the proofs about all of them; `FlashService`
with the refinement checked and proved.

Left, most important first:

1. Dropped futures in `Aes`; Read and single-sector Erase in `SslSession`.
2. `Radio` composed with the executor's sleep: the MACA is off in Doze.
