------------------------------ MODULE IrqWait ------------------------------
(***************************************************************************)
(* The asynchronous waits of mc1322x-hal's drivers: a task checks a status *)
(* flag and arms an interrupt in one critical section, the handler masks   *)
(* the interrupt and wakes the task (spi.rs, uart.rs, i2c.rs, gpio.rs,     *)
(* delay.rs, adc.rs, util.rs, critical_section_impl.rs).                   *)
(*                                                                         *)
(* The drivers meet in two registers.  INTENABLE is read and then zeroed   *)
(* by every critical section and written back at its end, while a handler  *)
(* may change it in between; WU_CNTL holds the interrupt enables of the    *)
(* pins and of the RTC, and the drivers rewrite it outside any critical    *)
(* section.                                                                *)
(***************************************************************************)
EXTENDS Naturals, Sequences, SequencesExt

CONSTANTS
  Teams,     \* the sets of drivers in use together
  MaxOps     \* bound: operations a driver starts

Drivers == {"spi", "i2c", "uart_rx", "uart_tx", "kbi", "rtc", "adc"}

ASSUME IrqConstants == /\ Teams \subseteq SUBSET Drivers
                       /\ MaxOps \in Nat \ {0}

VARIABLES
  team,      \* the drivers in use
  abandons,  \* may a client drop a future that is pending?
  inten,     \* INTENABLE: the interrupt channels let through
  arm,       \* drivers whose own interrupt enable is set (MIEN, MRXR, ...)
  flag,      \* the status flag: none, or of this operation, or of an older
  hw,        \* is an operation under way in the peripheral?
  cache,     \* the ADC's cached sample
  due,       \* has the RTC counted the ticks of the current delay?
  waker,     \* WakerCells that hold a waker
  runq,      \* the run queue of the executor
  pc,        \* where each driver's task stands
  cpu,       \* the poll in progress, in task context
  ops        \* operations started

vars == <<team, abandons, inten, arm, flag, hw, cache, due, waker, runq,
          pc, cpu, ops>>
clients == <<team, abandons, ops>>

Crm == {"kbi", "rtc"}
Uart == {"uart_rx", "uart_tx"}
Channel(d) == CASE d = "spi" -> "SPI" [] d = "i2c" -> "I2C" [] d = "adc" -> "ADC"
                [] d \in Uart -> "UART" [] d \in Crm -> "CRM"
Channels == {Channel(d) : d \in Drivers}

Idle == [d |-> "none", at |-> "idle", saved |-> {}, copy |-> {}, left |-> 0,
         got |-> "none"]

\* SPI has no enable of its own, the ADC's is set for good.
OwnEnable(d) == d \notin {"spi", "adc"}
Requests(d) == flag[d] # "none" /\ (OwnEnable(d) => d \in arm)
Serviceable(c) == c \in inten /\ \E d \in team : Channel(d) = c /\ Requests(d)
\* A pending interrupt is taken before the next step of a task.
TaskMayRun == \A c \in Channels : ~Serviceable(c)

\* What a poll looks at: the status flag, or the cache the handler fills.
Seen(d) == IF d = "adc" THEN cache ELSE flag[d]

\* The drivers' constructors have run: the channels they enable are enabled.
Init ==
  /\ team \in Teams
  /\ abandons \in BOOLEAN
  /\ inten = {Channel(d) : d \in team \ (Crm \cup {"spi"})}
  /\ arm = {}
  /\ flag = [d \in Drivers |-> "none"]
  /\ hw = [d \in Drivers |-> "off"]
  /\ cache = "none"
  /\ due = FALSE
  /\ waker = {}
  /\ runq = <<>>
  /\ pc = [d \in Drivers |-> "idle"]
  /\ cpu = Idle
  /\ ops = [d \in Drivers |-> 0]

-----------------------------------------------------------------------------
(* An operation up to its first poll.                                      *)

Begin(d) ==
  /\ cpu = Idle
  /\ TaskMayRun
  /\ d \in team
  /\ pc[d] = "idle"
  /\ ops[d] < MaxOps
  /\ ops' = [ops EXCEPT ![d] = @ + 1]
  /\ pc' = [pc EXCEPT ![d] = "busy"]
  /\ UNCHANGED <<team, abandons, waker, runq>>

Old(f) == IF f = "none" THEN "none" ELSE "old"

\* start_transfer, then the first poll.  A transfer that a dropped future left
\* running may be the one that completes next.
BeginSpi ==
  /\ Begin("spi")
  /\ flag' = [flag EXCEPT !["spi"] = Old(@)]
  /\ \/ hw' = [hw EXCEPT !["spi"] = "own"]
     \/ hw["spi"] # "off" /\ hw' = [hw EXCEPT !["spi"] = "old"]
  /\ cpu' = [Idle EXCEPT !.d = "spi", !.at = "enable_channel"]
  /\ UNCHANGED <<inten, arm, cache, due>>

\* start_async: I2C_CR is written with MIEN clear, the flags are cleared, the
\* address byte goes out.
BeginI2c ==
  /\ Begin("i2c")
  /\ arm' = arm \ {"i2c"}
  /\ flag' = [flag EXCEPT !["i2c"] = "none"]
  /\ hw' = [hw EXCEPT !["i2c"] = "own"]
  /\ cpu' = [Idle EXCEPT !.d = "i2c", !.at = "acquire"]
  /\ UNCHANGED <<inten, cache, due>>

\* read and write wait only on an empty, or a full, FIFO; the one Uart is
\* borrowed by one of them at a time.
BeginUart(d) ==
  /\ d \in Uart
  /\ Begin(d)
  /\ \A e \in Uart : pc[e] = "idle"
  /\ flag[d] = "none"
  /\ cpu' = [Idle EXCEPT !.d = d, !.at = "acquire"]
  /\ UNCHANGED <<inten, arm, flag, hw, cache, due>>

\* read_async drops the cached sample first.
BeginAdc ==
  /\ Begin("adc")
  /\ cache' = "none"
  /\ cpu' = [Idle EXCEPT !.d = "adc", !.at = "acquire"]
  /\ UNCHANGED <<inten, arm, flag, hw, due>>

\* wait_for_edge reads WU_CNTL twice, wait_rtc_ticks once, to write it back.
BeginKbi ==
  /\ Begin("kbi")
  /\ cpu' = [Idle EXCEPT !.d = "kbi", !.at = "write_back", !.copy = arm \cap Crm,
                         !.left = 2]
  /\ UNCHANGED <<inten, arm, flag, hw, cache, due>>

BeginRtc ==
  /\ Begin("rtc")
  /\ inten' = inten \cup {"CRM"}
  /\ due' = FALSE
  /\ cpu' = [Idle EXCEPT !.d = "rtc", !.at = "read", !.left = 1]
  /\ UNCHANGED <<arm, flag, hw, cache>>

ReadWuCntl ==
  /\ cpu.at = "read"
  /\ TaskMayRun
  /\ cpu' = [cpu EXCEPT !.at = "write_back", !.copy = arm \cap Crm]
  /\ UNCHANGED <<inten, arm, flag, hw, cache, due, waker, runq, pc, clients>>

\* MUTANT: the latched event of an earlier wait is not cleared.
MutWriteWuCntlKeepsEvent ==
  /\ cpu.at = "write_back"
  /\ TaskMayRun
  /\ arm' = (arm \ Crm) \cup (cpu.copy \ ({"rtc"} \cap {cpu.d}))
  /\ IF cpu.left > 1
       THEN /\ cpu' = [cpu EXCEPT !.at = "read", !.left = @ - 1]
            /\ hw' = [hw EXCEPT ![cpu.d] = "off"]
            /\ UNCHANGED <<flag, inten>>
       ELSE /\ cpu' = [cpu EXCEPT !.at = "acquire", !.left = 0]
            /\ hw' = IF cpu.d = "rtc" THEN [hw EXCEPT !["rtc"] = "own"] ELSE hw
            /\ flag' = [flag EXCEPT ![cpu.d] = Old(@)]
            /\ inten' = inten \cup {"CRM"}
  /\ UNCHANGED <<cache, due, waker, runq, pc, clients>>

\* The copy goes back, less the bits this driver clears: the detector enable
\* of the pin, or the RTC's enables.  After the last one the stale event is
\* cleared in STATUS and the CRM channel enabled.
WriteWuCntl ==
  /\ cpu.at = "write_back"
  /\ TaskMayRun
  /\ arm' = (arm \ Crm) \cup (cpu.copy \ ({"rtc"} \cap {cpu.d}))
  /\ IF cpu.left > 1
       THEN /\ cpu' = [cpu EXCEPT !.at = "read", !.left = @ - 1]
            /\ hw' = [hw EXCEPT ![cpu.d] = "off"]
            /\ UNCHANGED <<flag, inten>>
       ELSE /\ cpu' = [cpu EXCEPT !.at = "acquire", !.left = 0]
            /\ hw' = IF cpu.d = "rtc" THEN [hw EXCEPT !["rtc"] = "own"] ELSE hw
            /\ flag' = [flag EXCEPT ![cpu.d] = "none"]
            /\ inten' = inten \cup {"CRM"}
  /\ UNCHANGED <<cache, due, waker, runq, pc, clients>>

-----------------------------------------------------------------------------
(* A poll: check, and register and arm, in a critical section.             *)

\* The executor takes the task at the head of its run queue; one that a waker
\* left behind by a dropped future woke has nothing to poll.
Poll(d) ==
  /\ cpu = Idle
  /\ TaskMayRun
  /\ runq # <<>>
  /\ d = Head(runq)
  /\ runq' = Tail(runq)
  /\ IF pc[d] = "wait"
       THEN /\ pc' = [pc EXCEPT ![d] = "busy"]
            /\ cpu' = [Idle EXCEPT !.d = d,
                 !.at = IF d = "spi" THEN "enable_channel" ELSE "acquire"]
       ELSE UNCHANGED <<pc, cpu>>
  /\ UNCHANGED <<inten, arm, flag, hw, cache, due, waker, clients>>

\* MUTANT: the channel is enabled inside the critical section, whose end
\* writes the saved INTENABLE over it.
MutEnableChannelInside ==
  /\ cpu.at = "enable_channel"
  /\ TaskMayRun
  /\ cpu' = [cpu EXCEPT !.at = "acquire"]
  /\ UNCHANGED <<inten, arm, flag, hw, cache, due, waker, runq, pc, clients>>

\* SPI enables its ITC channel on every poll, before the critical section.
EnableChannel ==
  /\ cpu.at = "enable_channel"
  /\ TaskMayRun
  /\ inten' = inten \cup {"SPI"}
  /\ cpu' = [cpu EXCEPT !.at = "acquire"]
  /\ UNCHANGED <<arm, flag, hw, cache, due, waker, runq, pc, clients>>

\* acquire: INTENABLE is read ...
Acquire ==
  /\ cpu.at = "acquire"
  /\ TaskMayRun
  /\ cpu' = [cpu EXCEPT !.at = "mask", !.saved = inten]
  /\ UNCHANGED <<inten, arm, flag, hw, cache, due, waker, runq, pc, clients>>

\* ... and then zeroed; the closure checks the status.  SPI and I2C clear the
\* flag they report, the ADC's sample is taken.
Check ==
  /\ cpu.at = "mask"
  /\ TaskMayRun
  /\ inten' = {}
  /\ IF Seen(cpu.d) = "none"
       THEN /\ cpu' = [cpu EXCEPT !.at = "arm"]
            /\ UNCHANGED <<flag, cache>>
       ELSE /\ cpu' = [cpu EXCEPT !.at = "ready", !.got = Seen(cpu.d)]
            /\ flag' = IF cpu.d \in {"spi", "i2c"}
                         THEN [flag EXCEPT ![cpu.d] = "none"] ELSE flag
            /\ cache' = IF cpu.d = "adc" THEN "none" ELSE cache
  /\ UNCHANGED <<arm, hw, due, waker, runq, pc, clients>>

\* Pending: the waker is stored, the interrupt armed, INTENABLE restored.
ArmAndLeave ==
  /\ cpu.at = "arm"
  /\ waker' = waker \cup {cpu.d}
  /\ arm' = IF OwnEnable(cpu.d) THEN arm \cup {cpu.d} ELSE arm
  /\ hw' = IF cpu.d = "kbi" THEN [hw EXCEPT !["kbi"] = "own"] ELSE hw
  /\ inten' = cpu.saved
  /\ pc' = [pc EXCEPT ![cpu.d] = "wait"]
  /\ cpu' = Idle
  /\ UNCHANGED <<flag, cache, due, runq, clients>>

\* Ready: INTENABLE is restored.  A UART reads or fills its FIFO; a delay that
\* has not seen its ticks goes round again.
ReadyAndLeave ==
  /\ cpu.at = "ready"
  /\ inten' = cpu.saved
  /\ IF cpu.d = "rtc" /\ ~due
       THEN cpu' = [Idle EXCEPT !.d = "rtc", !.at = "read", !.left = 1]
            /\ UNCHANGED pc
       ELSE cpu' = Idle /\ pc' = [pc EXCEPT ![cpu.d] = "idle"]
  /\ flag' = IF cpu.d \in Uart THEN [flag EXCEPT ![cpu.d] = "none"] ELSE flag
  /\ UNCHANGED <<arm, hw, cache, due, waker, runq, clients>>

-----------------------------------------------------------------------------
(* The handlers.                                                           *)

\* WakerCell::wake, for the cells of ds: each waker is taken and its task
\* queued, once.
Wake(ds) ==
  /\ waker' = waker \ ds
  /\ runq' = runq \o SetToSeq((waker \cap ds) \ ToSet(runq))

\* MUTANT: the handlers wake but do not mask.
MutIrqKeepsEnables ==
  LET pending == {c \in Channels : Serviceable(c)}
      served  == {d \in team : Channel(d) \in pending /\ flag[d] # "none"}
  IN  /\ pending # {}
      /\ inten' = inten \ (pending \cap {"SPI"})
      /\ flag' = [flag EXCEPT !["adc"] = IF "adc" \in served THEN "none" ELSE @]
      /\ cache' = IF "adc" \in served THEN flag["adc"] ELSE cache
      /\ Wake(served)
      /\ UNCHANGED <<arm, hw, due, pc, cpu, clients>>

\* One pass of irq(): the handlers of every channel that is pending.  The CRM
\* and UART handlers go by the status flags, whichever of them asked for the
\* interrupt, and mask their drivers' enables, as i2c_isr does; spi_isr
\* disables the ITC channel; adc_isr drains the FIFO into the cache.
Irq ==
  LET pending == {c \in Channels : Serviceable(c)}
      served  == {d \in team : Channel(d) \in pending /\ flag[d] # "none"}
  IN  /\ pending # {}
      /\ arm' = arm \ served
      /\ inten' = inten \ (pending \cap {"SPI"})
      /\ flag' = [flag EXCEPT !["adc"] = IF "adc" \in served THEN "none" ELSE @]
      /\ cache' = IF "adc" \in served THEN flag["adc"] ELSE cache
      /\ Wake(served)
      /\ UNCHANGED <<hw, due, pc, cpu, clients>>

-----------------------------------------------------------------------------
(* The peripherals and the clients.                                        *)

\* A transfer or byte completes, an edge or a left-over RTC boundary comes, a
\* FIFO gets a byte or a free slot, a conversion ends.
HwEvent(d) ==
  /\ d \in team
  /\ flag[d] # "own"
  /\ d \in {"spi", "i2c", "kbi", "rtc"} => hw[d] # "off"
  /\ flag' = [flag EXCEPT ![d] = IF hw[d] = "old" THEN "old" ELSE "own"]
  /\ hw' = IF d \in {"spi", "i2c"} THEN [hw EXCEPT ![d] = "off"] ELSE hw
  /\ UNCHANGED <<inten, arm, cache, due, waker, runq, pc, cpu, clients>>

RtcDue ==
  /\ "rtc" \in team
  /\ pc["rtc"] # "idle"
  /\ due' = TRUE
  /\ UNCHANGED <<inten, arm, flag, hw, cache, waker, runq, pc, cpu, clients>>

\* The task runs for another future it holds.
SpuriousWake(d) ==
  /\ pc[d] = "wait"
  /\ ~Contains(runq, d)
  /\ runq' = Append(runq, d)
  /\ UNCHANGED <<inten, arm, flag, hw, cache, due, waker, pc, cpu, clients>>

\* The client drops the pending future: nothing is disarmed, and its task stays
\* in the run queue if it was there.  An I2C bus left without a STOP stays busy,
\* and the next start_async waits for it forever.
Abandon(d) ==
  /\ abandons
  /\ cpu = Idle
  /\ TaskMayRun
  /\ pc[d] = "wait"
  /\ pc' = [pc EXCEPT ![d] = IF d = "i2c" THEN "bus_busy" ELSE "idle"]
  /\ UNCHANGED <<inten, arm, flag, hw, cache, due, waker, runq, cpu, clients>>

CpuStep == \/ ReadWuCntl \/ WriteWuCntl \/ EnableChannel \/ Acquire
           \/ Check \/ ArmAndLeave \/ ReadyAndLeave

Next ==
  \/ BeginSpi \/ BeginI2c \/ BeginAdc \/ BeginKbi \/ BeginRtc
  \/ \E d \in Uart : BeginUart(d)
  \/ CpuStep \/ Irq \/ RtcDue
  \/ \E d \in Drivers : Poll(d) \/ HwEvent(d) \/ SpuriousWake(d) \/ Abandon(d)

Spec == Init /\ [][Next]_vars

\* irq() serves what is pending, the CPU gets to run between interrupts unless
\* a handler leaves its own pending, embassy polls its queue in order, and the
\* RTC counts and its comparator keeps firing.
Task == CpuStep \/ \E d \in Drivers : Poll(d)
FairSpec == /\ Spec
            /\ WF_vars(Irq) /\ SF_vars(Task)
            /\ WF_vars(RtcDue) /\ WF_vars(HwEvent("rtc"))

-----------------------------------------------------------------------------
\* No wake-up is lost between the check and the interrupt: a task that waits
\* while its event has come is in the run queue, or its waker is stored and
\* the interrupt on its way, enabled in the peripheral and, now or when the
\* critical section in progress ends, in the interrupt controller (WakerCell's
\* contract, and the comment on SPI's channel).
InterruptComes(d) ==
  /\ d \in waker
  /\ OwnEnable(d) => d \in arm
  /\ Channel(d) \in inten \/ (cpu.at \in {"arm", "ready"} /\ Channel(d) \in cpu.saved)
IrqWakeNotLost ==
  \A d \in Drivers :
    pc[d] = "wait" /\ (flag[d] # "none" \/ Seen(d) # "none")
      => Contains(runq, d) \/ InterruptComes(d)

\* A wait ends for what happened since it began, never for a flag or a sample
\* that was there before (the flags cleared at the start of a wait, the cached
\* sample dropped).  SPI and I2C promise it only to clients that do not drop
\* their futures.
ReportsOwnEvent ==
  cpu.at = "ready" /\ (abandons => cpu.d \notin {"spi", "i2c"})
    => cpu.got = "own"

\* What a task waits for ends its wait, whatever the other drivers do to the
\* shared registers; no handler is entered over and over in the meantime.
WaitResolves ==
  \A d \in Drivers :
    (pc[d] = "wait" /\ (IF d = "rtc" THEN due ELSE Seen(d) # "none"))
      ~> (pc[d] \notin {"wait", "busy"})
=============================================================================
