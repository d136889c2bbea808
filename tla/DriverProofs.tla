---------------------------- MODULE DriverProofs ----------------------------
(***************************************************************************)
(* The drivers, for every set of them in use together and for buffers,     *)
(* transactions and frames of every length: how the waits on interrupts    *)
(* end, what an I2C transaction and an SPI operation put on the wire and   *)
(* store, what leaves and what reaches the two FIFOs of a UART, and the    *)
(* length of a frame on its way from a sender's buffer to a reader's.      *)
(***************************************************************************)
EXTENDS IrqWait, I2cBus, SpiBus, UartFifo, FrameLayout, FiniteSetTheorems,
        SequenceLemmas

(***************************************************************************)
(* Interrupt waits, for every set of drivers in use together, not only the *)
(* pairs of the drivers run, and any number of operations: no wake-up is   *)
(* lost between the check of a flag and the interrupt, and no wait ends    *)
(* for the event of an earlier one.                                        *)
(*                                                                         *)
(* The heart of the argument is LetThrough, INTENABLE as it will be when   *)
(* the critical section in progress ends: what a waiting driver needs of   *)
(* it is never taken away, by the read and the zeroing of a section, by    *)
(* its write-back, or by a handler in between.                             *)
(***************************************************************************)
Marks == {"none", "own", "old"}
PollPlaces == {"idle", "enable_channel", "read", "write_back", "acquire", "mask",
           "arm", "ready"}

Polls == [d : Drivers \cup {"none"}, at : PollPlaces, saved : SUBSET Channels,
          copy : SUBSET Drivers, left : Nat, got : Marks]

TaskTypes ==
  /\ team \in SUBSET Drivers
  /\ abandons \in BOOLEAN
  /\ waker \in SUBSET Drivers
  /\ runq \in Seq(Drivers)
  /\ pc \in [Drivers -> {"idle", "busy", "wait", "bus_busy"}]
  /\ ops \in [Drivers -> Nat]

IrqTypeOK ==
  /\ TaskTypes
  /\ inten \in SUBSET Channels
  /\ arm \in SUBSET Drivers
  /\ flag \in [Drivers -> Marks]
  /\ hw \in [Drivers -> {"off", "own", "old"}]
  /\ cache \in Marks
  /\ due \in BOOLEAN
  /\ cpu \in Polls

\* The poll in progress is one driver's, and at the steps that driver has.
PollShape ==
  /\ cpu.at = "idle" => cpu = Idle
  /\ cpu.at # "idle" => cpu.d \in team /\ pc[cpu.d] = "busy"
  /\ cpu.at = "enable_channel" => cpu.d = "spi"
  /\ cpu.at \in {"read", "write_back"} => cpu.d \in Crm
  /\ \A d \in Drivers : pc[d] = "wait" => d \in team

\* INTENABLE as it is, or as the critical section in progress restores it.
Masked == cpu.at \in {"arm", "ready"}
LetThrough == IF Masked THEN cpu.saved ELSE inten

\* A section restores no less than the handlers left enabled, and nothing is
\* enabled inside it.
SectionSaves ==
  /\ cpu.at = "mask" => inten \subseteq cpu.saved
  /\ Masked => inten = {}

\* The channels that are enabled for good, once their drivers are in use.
AlwaysOn ==
  \A d \in team \ (Crm \cup {"spi"}) : Channel(d) \in LetThrough

\* The CRM channel is enabled before a driver of the CRM checks its flag.
CrmOn ==
  (\/ \E d \in Crm : pc[d] = "wait"
   \/ cpu.d \in Crm /\ cpu.at \in {"acquire", "mask", "arm", "ready"})
    => "CRM" \in LetThrough

\* SPI's channel is enabled before each check, and only a completion that the
\* check will see can have disabled it again.
SpiOn ==
  cpu.d = "spi" =>
    /\ cpu.at = "acquire" => "SPI" \in inten \/ flag["spi"] # "none"
    /\ cpu.at = "mask" => "SPI" \in cpu.saved \/ flag["spi"] # "none"
    /\ cpu.at = "arm" => "SPI" \in cpu.saved

\* A task that waits and is not in the run queue has its waker stored and its
\* interrupt let through; only the ADC's handler takes the flag away, and it
\* wakes when it does.
Waiting(d) ==
  /\ d \in waker
  /\ OwnEnable(d) => d \in arm
  /\ Channel(d) \in LetThrough
  /\ d = "adc" => cache = "none"
WaitersReachable ==
  \A d \in Drivers : pc[d] = "wait" => Contains(runq, d) \/ Waiting(d)

\* The copy of WU_CNTL about to be written back has the enable of the other
\* driver of the register, unless that driver has been woken since.
CopyKeepsEnables ==
  cpu.at = "write_back" =>
    \A d \in Crm : d # cpu.d /\ pc[d] = "wait"
                     => Contains(runq, d) \/ d \in cpu.copy

\* No conversion is cached while the ADC's task is about to wait.
NothingCached == cpu.at = "arm" /\ cpu.d = "adc" => cache = "none"

IrqInv ==
  /\ IrqTypeOK /\ PollShape /\ SectionSaves /\ AlwaysOn /\ CrmOn /\ SpiOn
  /\ WaitersReachable /\ CopyKeepsEnables /\ NothingCached

\* Only SPI's flag can be left over, and only by a dropped future: a transfer
\* is started when the last one has completed and its flag was cleared.
FlagsFresh ==
  /\ cache # "old"
  /\ \A d \in Drivers \ {"spi"} : flag[d] # "old" /\ hw[d] # "old"
  /\ ~abandons =>
       /\ flag["spi"] # "old" /\ hw["spi"] # "old"
       /\ flag["spi"] # "none" => hw["spi"] = "off"
       /\ pc["spi"] = "idle" \/ (cpu.at = "ready" /\ cpu.d = "spi")
            => hw["spi"] = "off" /\ flag["spi"] = "none"

-----------------------------------------------------------------------------
(* The operators of the model.                                             *)

\* The interrupt channel of each driver.
LEMMA ChannelValues ==
  /\ Channel("spi") = "SPI" /\ Channel("i2c") = "I2C" /\ Channel("adc") = "ADC"
  /\ Channel("uart_rx") = "UART" /\ Channel("uart_tx") = "UART"
  /\ Channel("kbi") = "CRM" /\ Channel("rtc") = "CRM"
  /\ Drivers = {"spi", "i2c", "uart_rx", "uart_tx", "kbi", "rtc", "adc"}
  /\ \A d \in Drivers : Channel(d) \in Channels
BY DEF Channel, Channels, Drivers, Crm, Uart

\* The channel a driver uses is SPI's for the SPI only, the CRM's for the
\* drivers of the CRM only.
LEMMA ChannelOwners ==
  ASSUME NEW d \in Drivers
  PROVE  /\ Channel(d) = "SPI" <=> d = "spi"
         /\ Channel(d) = "CRM" <=> d \in Crm
BY ChannelValues DEF Crm

\* There are finitely many drivers.
LEMMA DriversFinite == IsFiniteSet(Drivers)
<1>1. IsFiniteSet({}) BY FS_EmptySet
<1>2. IsFiniteSet({} \cup {"spi"}) BY <1>1, FS_AddElement
<1>3. IsFiniteSet({"spi"} \cup {"i2c"}) BY <1>2, FS_AddElement
<1>4. IsFiniteSet({"spi", "i2c"} \cup {"uart_rx"}) BY <1>3, FS_AddElement
<1>5. IsFiniteSet({"spi", "i2c", "uart_rx"} \cup {"uart_tx"}) BY <1>4, FS_AddElement
<1>6. IsFiniteSet({"spi", "i2c", "uart_rx", "uart_tx"} \cup {"kbi"}) BY <1>5, FS_AddElement
<1>7. IsFiniteSet({"spi", "i2c", "uart_rx", "uart_tx", "kbi"} \cup {"rtc"}) BY <1>6, FS_AddElement
<1>8. IsFiniteSet({"spi", "i2c", "uart_rx", "uart_tx", "kbi", "rtc"} \cup {"adc"}) BY <1>7, FS_AddElement
<1> QED BY <1>8 DEF Drivers

\* The sequence made of a set of drivers holds those drivers.
LEMMA SetToSeqHolds ==
  ASSUME NEW S \in SUBSET Drivers
  PROVE  /\ SetToSeq(S) \in Seq(S)
         /\ \A d \in S : \E i \in 1..Len(SetToSeq(S)) : SetToSeq(S)[i] = d
<1> DEFINE n == Cardinality(S)
           f == SetToSeq(S)
<1>1. IsFiniteSet(S) BY DriversFinite, FS_Subset
<1>2. n \in Nat /\ ExistsBijection(1..n, S) BY <1>1, FS_CardinalityType
<1>3. \E g \in [1..n -> S] : IsInjective(g)
  BY <1>2 DEF ExistsBijection, Bijection, Injection, IsInjective
<1>4. f \in [1..n -> S] /\ IsInjective(f) BY <1>3 DEF SetToSeq
<1>5. f \in Injection(1..n, S) BY <1>4 DEF Injection
<1>6. Cardinality(1..n) = n BY <1>2, FS_Interval
<1>7. f \in Surjection(1..n, S) BY <1>1, <1>5, <1>6, FS_Injection
<1>8. \A d \in S : \E i \in 1..n : f[i] = d BY <1>7 DEF Surjection
<1>9. f \in Seq(S) /\ Len(f) = n BY <1>2, <1>4
<1> QED BY <1>8, <1>9

\* What a wake does to the run queue.
LEMMA WakeQueues ==
  ASSUME IrqTypeOK, NEW ds \in SUBSET Drivers, Wake(ds)
  PROVE  /\ runq' \in Seq(Drivers)
         /\ waker' = waker \ ds
         /\ \A d \in Drivers : Contains(runq, d) => Contains(runq', d)
         /\ \A d \in waker \cap ds : Contains(runq', d)
<1> DEFINE S == (waker \cap ds) \ ToSet(runq)
           t == SetToSeq(S)
<1>1. S \in SUBSET Drivers OBVIOUS
<1>2. t \in Seq(S) /\ \A d \in S : \E i \in 1..Len(t) : t[i] = d
  BY <1>1, SetToSeqHolds
<1>3. t \in Seq(Drivers) BY <1>1, <1>2
<1>4. runq' = runq \o t /\ waker' = waker \ ds BY DEF Wake
<1>5. runq \in Seq(Drivers) BY DEF IrqTypeOK, TaskTypes
<1> HIDE DEF t
<1>6. Len(runq') = Len(runq) + Len(t) /\ Len(t) \in Nat /\ Len(runq) \in Nat
  BY <1>3, <1>4, <1>5
<1>7. \A i \in 1..Len(runq) : runq'[i] = runq[i] BY <1>3, <1>4, <1>5
<1>8. \A i \in 1..Len(t) : runq'[Len(runq) + i] = t[i] BY <1>3, <1>4, <1>5
<1>9. \A d \in Drivers : Contains(runq, d) => Contains(runq', d)
  BY <1>6, <1>7 DEF Contains
<1>10. ASSUME NEW d \in S PROVE Contains(runq', d)
  <2>1. PICK i \in 1..Len(t) : t[i] = d BY <1>2, <1>10
  <2>2. Len(runq) + i \in 1..Len(runq') /\ runq'[Len(runq) + i] = d
    BY <1>6, <1>8, <2>1
  <2> QED BY <2>2 DEF Contains
<1>11. ASSUME NEW d \in Drivers, d \in ToSet(runq) PROVE Contains(runq, d)
  BY <1>5, <1>11 DEF ToSet, Contains
<1>12. \A d \in waker \cap ds : Contains(runq', d)
  BY <1>9, <1>10, <1>11
<1>13. runq' \in Seq(Drivers) BY <1>3, <1>4, <1>5
<1> QED BY <1>4, <1>9, <1>12, <1>13

\* What is left of the run queue when its head is taken.
LEMMA TailKeeps ==
  ASSUME NEW q \in Seq(Drivers), q # <<>>
  PROVE  /\ Head(q) \in Drivers /\ Tail(q) \in Seq(Drivers)
         /\ \A d \in Drivers : d # Head(q) /\ Contains(q, d) => Contains(Tail(q), d)
<1>1. Head(q) = q[1] /\ Tail(q) \in Seq(Drivers) /\ Len(Tail(q)) = Len(q) - 1
      /\ Len(q) \in Nat /\ Len(q) >= 1 /\ Head(q) \in Drivers
  OBVIOUS
<1>2. \A i \in 1..Len(Tail(q)) : Tail(q)[i] = q[i + 1] OBVIOUS
<1>3. ASSUME NEW d \in Drivers, d # Head(q), Contains(q, d)
      PROVE  Contains(Tail(q), d)
  <2>1. PICK i \in 1..Len(q) : q[i] = d BY <1>3 DEF Contains
  <2>2. i # 1 BY <1>1, <1>3, <2>1
  <2>3. i - 1 \in 1..Len(Tail(q)) BY <1>1, <2>2
  <2>4. Tail(q)[i - 1] = d BY <1>2, <2>1, <2>3
  <2> QED BY <2>3, <2>4 DEF Contains
<1> QED BY <1>1, <1>3

\* Queueing a task leaves the queued ones queued.
LEMMA AppendKeeps ==
  ASSUME NEW q \in Seq(Drivers), NEW e \in Drivers
  PROVE  /\ Append(q, e) \in Seq(Drivers)
         /\ \A d \in Drivers : Contains(q, d) => Contains(Append(q, e), d)
BY DEF Contains

\* Between two polls the processor stands nowhere.
LEMMA PollTypes ==
  /\ Idle \in Polls
  /\ Idle.d = "none" /\ Idle.at = "idle"
BY DEF Idle, Polls, PollPlaces, Marks

\* The types of what every Begin sets.
LEMMA BeginTypes ==
  ASSUME IrqTypeOK, NEW d \in Drivers, Begin(d)
  PROVE  TaskTypes'
BY DEF IrqTypeOK, TaskTypes, Begin

\* Starting an operation keeps the types.
LEMMA BeginTypeStep ==
  ASSUME IrqTypeOK,
         \/ BeginSpi \/ BeginI2c \/ BeginAdc \/ BeginKbi \/ BeginRtc
         \/ \E d \in Uart : BeginUart(d)
  PROVE  IrqTypeOK'
<1>1. CASE BeginSpi
  <2>1. cpu' \in Polls
    BY <1>1 DEF BeginSpi, Idle, Polls, PollPlaces, Marks, Drivers
  <2>2. flag' \in [Drivers -> Marks] /\ hw' \in [Drivers -> {"off", "own", "old"}]
    BY <1>1 DEF BeginSpi, Marks, IrqTypeOK, Old
  <2>3. TaskTypes'
    BY <1>1, BeginTypes DEF BeginSpi, Drivers
  <2> QED BY <1>1, <2>1, <2>2, <2>3 DEF IrqTypeOK, BeginSpi
<1>2. CASE BeginI2c
  <2>1. cpu' \in Polls
    BY <1>2, PollTypes DEF BeginI2c, Idle, Polls, PollPlaces, Marks, Drivers, IrqTypeOK
  <2>2. /\ arm' \in SUBSET Drivers
       /\ flag' \in [Drivers -> Marks] /\ hw' \in [Drivers -> {"off", "own", "old"}]
    BY <1>2, ChannelValues DEF BeginI2c, Marks, IrqTypeOK, Channels
  <2>3. TaskTypes'
    BY <1>2, BeginTypes DEF BeginI2c, Drivers
  <2> QED BY <1>2, <2>1, <2>2, <2>3 DEF IrqTypeOK, BeginI2c
<1>3. CASE BeginAdc
  <2>1. cpu' \in Polls
    BY <1>3, PollTypes DEF BeginAdc, Idle, Polls, PollPlaces, Marks, Drivers, IrqTypeOK
  <2>2. cache' \in Marks
    BY <1>3, ChannelValues DEF BeginAdc, Marks, IrqTypeOK, Channels
  <2>3. TaskTypes'
    BY <1>3, BeginTypes DEF BeginAdc, Drivers
  <2> QED BY <1>3, <2>1, <2>2, <2>3 DEF IrqTypeOK, BeginAdc
<1>4. CASE BeginKbi
  <2>1. cpu' \in Polls
    BY <1>4, PollTypes DEF BeginKbi, Idle, Polls, PollPlaces, Marks, Drivers, IrqTypeOK
  <2>2. UNCHANGED <<inten, arm, flag, hw, cache, due>>
    BY <1>4, ChannelValues DEF BeginKbi, Marks, IrqTypeOK, Channels
  <2>3. TaskTypes'
    BY <1>4, BeginTypes DEF BeginKbi, Drivers
  <2> QED BY <1>4, <2>1, <2>2, <2>3 DEF IrqTypeOK, BeginKbi
<1>5. CASE BeginRtc
  <2>1. cpu' \in Polls
    BY <1>5, PollTypes DEF BeginRtc, Idle, Polls, PollPlaces, Marks, Drivers, IrqTypeOK
  <2>2. inten' \in SUBSET Channels /\ due' \in BOOLEAN
    BY <1>5, ChannelValues DEF BeginRtc, Marks, IrqTypeOK, Channels
  <2>3. TaskTypes'
    BY <1>5, BeginTypes DEF BeginRtc, Drivers
  <2> QED BY <1>5, <2>1, <2>2, <2>3 DEF IrqTypeOK, BeginRtc
<1>6. ASSUME NEW d \in Uart, BeginUart(d) PROVE IrqTypeOK'
  <2>1. cpu' \in Polls
    BY <1>6, PollTypes DEF BeginUart, Idle, Polls, PollPlaces, Marks, Drivers, Uart
  <2>2. d \in Drivers BY DEF Uart, Drivers
  <2>3. TaskTypes'
    BY <1>6, <2>2, BeginTypes DEF BeginUart
  <2> QED BY <1>6, <2>1, <2>3 DEF IrqTypeOK, BeginUart
<1> QED BY <1>1, <1>2, <1>3, <1>4, <1>5, <1>6

-----------------------------------------------------------------------------
(* The steps.                                                              *)

\* Starting an SPI transfer keeps the invariant.
LEMMA BeginSpiStep == IrqInv /\ BeginSpi => IrqInv'
<1> SUFFICES ASSUME IrqInv, BeginSpi PROVE IrqInv'
  OBVIOUS
<1> USE ChannelValues DEF IrqInv, BeginSpi, Begin, clients
<1>1. IrqTypeOK'
  BY BeginTypeStep
<1>2. PollShape'
  BY DEF PollShape, IrqTypeOK, TaskTypes, Polls, Idle, Crm
<1>3. SectionSaves'
  BY DEF SectionSaves, IrqTypeOK, TaskTypes, Polls, Masked, Idle
<1>4. AlwaysOn'
  BY DEF AlwaysOn, IrqTypeOK, TaskTypes, Polls, PollShape, LetThrough, Masked, Idle
<1>5. CrmOn'
  BY DEF CrmOn, IrqTypeOK, TaskTypes, Polls, PollShape, LetThrough, Masked, Idle, Crm
<1>6. SpiOn'
  BY DEF SpiOn, IrqTypeOK, TaskTypes, Polls, PollShape, Idle
<1>7. WaitersReachable'
  BY DEF WaitersReachable, IrqTypeOK, TaskTypes, Polls, PollShape, Waiting, LetThrough, Masked, Idle, OwnEnable
<1>8. CopyKeepsEnables'
  BY DEF CopyKeepsEnables, IrqTypeOK, TaskTypes, Polls, PollShape, Idle, Crm, OwnEnable, WaitersReachable, Waiting
<1>9. NothingCached'
  BY DEF NothingCached, IrqTypeOK, TaskTypes, Polls, PollShape, Idle
<1> QED BY <1>1, <1>2, <1>3, <1>4, <1>5, <1>6, <1>7, <1>8, <1>9

\* Starting an I2C transaction keeps the invariant.
LEMMA BeginI2cStep == IrqInv /\ BeginI2c => IrqInv'
<1> SUFFICES ASSUME IrqInv, BeginI2c PROVE IrqInv'
  OBVIOUS
<1> USE ChannelValues DEF IrqInv, BeginI2c, Begin, clients
<1>1. IrqTypeOK'
  BY BeginTypeStep
<1>2. PollShape'
  BY DEF PollShape, IrqTypeOK, TaskTypes, Polls, Idle, Crm
<1>3. SectionSaves'
  BY DEF SectionSaves, IrqTypeOK, TaskTypes, Polls, Masked, Idle
<1>4. AlwaysOn'
  BY DEF AlwaysOn, IrqTypeOK, TaskTypes, Polls, PollShape, LetThrough, Masked, Idle
<1>5. CrmOn'
  BY DEF CrmOn, IrqTypeOK, TaskTypes, Polls, PollShape, LetThrough, Masked, Idle, Crm
<1>6. SpiOn'
  BY DEF SpiOn, IrqTypeOK, TaskTypes, Polls, PollShape, Idle
<1>7. WaitersReachable'
  BY DEF WaitersReachable, IrqTypeOK, TaskTypes, Polls, PollShape, Waiting, LetThrough, Masked, Idle, OwnEnable
<1>8. CopyKeepsEnables'
  BY DEF CopyKeepsEnables, IrqTypeOK, TaskTypes, Polls, PollShape, Idle, Crm, OwnEnable, WaitersReachable, Waiting
<1>9. NothingCached'
  BY DEF NothingCached, IrqTypeOK, TaskTypes, Polls, PollShape, Idle
<1> QED BY <1>1, <1>2, <1>3, <1>4, <1>5, <1>6, <1>7, <1>8, <1>9

\* Starting a conversion keeps the invariant.
LEMMA BeginAdcStep == IrqInv /\ BeginAdc => IrqInv'
<1> SUFFICES ASSUME IrqInv, BeginAdc PROVE IrqInv'
  OBVIOUS
<1> USE ChannelValues DEF IrqInv, BeginAdc, Begin, clients
<1>1. IrqTypeOK'
  BY BeginTypeStep
<1>2. PollShape'
  BY DEF PollShape, IrqTypeOK, TaskTypes, Polls, Idle, Crm
<1>3. SectionSaves'
  BY DEF SectionSaves, IrqTypeOK, TaskTypes, Polls, Masked, Idle
<1>4. AlwaysOn'
  BY DEF AlwaysOn, IrqTypeOK, TaskTypes, Polls, PollShape, LetThrough, Masked, Idle
<1>5. CrmOn'
  BY DEF CrmOn, IrqTypeOK, TaskTypes, Polls, PollShape, LetThrough, Masked, Idle, Crm
<1>6. SpiOn'
  BY DEF SpiOn, IrqTypeOK, TaskTypes, Polls, PollShape, Idle
<1>7. WaitersReachable'
  BY DEF WaitersReachable, IrqTypeOK, TaskTypes, Polls, PollShape, Waiting, LetThrough, Masked, Idle, OwnEnable
<1>8. CopyKeepsEnables'
  BY DEF CopyKeepsEnables, IrqTypeOK, TaskTypes, Polls, PollShape, Idle, Crm, OwnEnable, WaitersReachable, Waiting
<1>9. NothingCached'
  BY DEF NothingCached, IrqTypeOK, TaskTypes, Polls, PollShape, Idle
<1> QED BY <1>1, <1>2, <1>3, <1>4, <1>5, <1>6, <1>7, <1>8, <1>9

\* Waiting for a pin edge keeps the invariant.
LEMMA BeginKbiStep == IrqInv /\ BeginKbi => IrqInv'
<1> SUFFICES ASSUME IrqInv, BeginKbi PROVE IrqInv'
  OBVIOUS
<1> USE ChannelValues DEF IrqInv, BeginKbi, Begin, clients
<1>1. IrqTypeOK'
  BY BeginTypeStep
<1>2. PollShape'
  BY DEF PollShape, IrqTypeOK, TaskTypes, Polls, Idle, Crm
<1>3. SectionSaves'
  BY DEF SectionSaves, IrqTypeOK, TaskTypes, Polls, Masked, Idle
<1>4. AlwaysOn'
  BY DEF AlwaysOn, IrqTypeOK, TaskTypes, Polls, PollShape, LetThrough, Masked, Idle
<1>5. CrmOn'
  BY DEF CrmOn, IrqTypeOK, TaskTypes, Polls, PollShape, LetThrough, Masked, Idle, Crm
<1>6. SpiOn'
  BY DEF SpiOn, IrqTypeOK, TaskTypes, Polls, PollShape, Idle
<1>7. WaitersReachable'
  BY DEF WaitersReachable, IrqTypeOK, TaskTypes, Polls, PollShape, Waiting, LetThrough, Masked, Idle, OwnEnable
<1>8. CopyKeepsEnables'
  BY DEF CopyKeepsEnables, IrqTypeOK, TaskTypes, Polls, PollShape, Idle, Crm, OwnEnable, WaitersReachable, Waiting
<1>9. NothingCached'
  BY DEF NothingCached, IrqTypeOK, TaskTypes, Polls, PollShape, Idle
<1> QED BY <1>1, <1>2, <1>3, <1>4, <1>5, <1>6, <1>7, <1>8, <1>9

\* Setting the RTC comparator keeps the invariant.
LEMMA BeginRtcStep == IrqInv /\ BeginRtc => IrqInv'
<1> SUFFICES ASSUME IrqInv, BeginRtc PROVE IrqInv'
  OBVIOUS
<1> USE ChannelValues DEF IrqInv, BeginRtc, Begin, clients
<1>1. IrqTypeOK'
  BY BeginTypeStep
<1>2. PollShape'
  BY DEF PollShape, IrqTypeOK, TaskTypes, Polls, Idle, Crm
<1>3. SectionSaves'
  BY DEF SectionSaves, IrqTypeOK, TaskTypes, Polls, Masked, Idle
<1>4. AlwaysOn'
  BY DEF AlwaysOn, IrqTypeOK, TaskTypes, Polls, PollShape, LetThrough, Masked, Idle
<1>5. CrmOn'
  BY DEF CrmOn, IrqTypeOK, TaskTypes, Polls, PollShape, LetThrough, Masked, Idle, Crm
<1>6. SpiOn'
  BY DEF SpiOn, IrqTypeOK, TaskTypes, Polls, PollShape, Idle
<1>7. WaitersReachable'
  BY DEF WaitersReachable, IrqTypeOK, TaskTypes, Polls, PollShape, Waiting, LetThrough, Masked, Idle, OwnEnable
<1>8. CopyKeepsEnables'
  BY DEF CopyKeepsEnables, IrqTypeOK, TaskTypes, Polls, PollShape, Idle, Crm, OwnEnable, WaitersReachable, Waiting
<1>9. NothingCached'
  BY DEF NothingCached, IrqTypeOK, TaskTypes, Polls, PollShape, Idle
<1> QED BY <1>1, <1>2, <1>3, <1>4, <1>5, <1>6, <1>7, <1>8, <1>9

\* Reading WU_CNTL, the first half of its read-modify-write, keeps the
\* invariant.
LEMMA ReadWuCntlStep == IrqInv /\ ReadWuCntl => IrqInv'
<1> SUFFICES ASSUME IrqInv, ReadWuCntl PROVE IrqInv'
  OBVIOUS
<1> USE ChannelValues DEF IrqInv, ReadWuCntl, clients
<1>1. IrqTypeOK'
  BY DEF IrqTypeOK, TaskTypes, Polls, PollPlaces, Marks, Idle
<1>2. PollShape'
  BY DEF PollShape, IrqTypeOK, TaskTypes, Polls, Idle, Crm
<1>3. SectionSaves'
  BY DEF SectionSaves, IrqTypeOK, TaskTypes, Polls, Masked, Idle
<1>4. AlwaysOn'
  BY DEF AlwaysOn, IrqTypeOK, TaskTypes, Polls, PollShape, LetThrough, Masked, Idle
<1>5. CrmOn'
  BY DEF CrmOn, IrqTypeOK, TaskTypes, Polls, PollShape, LetThrough, Masked, Idle, Crm
<1>6. SpiOn'
  BY DEF SpiOn, IrqTypeOK, TaskTypes, Polls, PollShape, Idle
<1>7. WaitersReachable'
  BY DEF WaitersReachable, IrqTypeOK, TaskTypes, Polls, PollShape, Waiting, LetThrough, Masked, Idle, OwnEnable
<1>8. CopyKeepsEnables'
  BY DEF CopyKeepsEnables, IrqTypeOK, TaskTypes, Polls, PollShape, Idle, Crm, OwnEnable, WaitersReachable, Waiting
<1>9. NothingCached'
  BY DEF NothingCached, IrqTypeOK, TaskTypes, Polls, PollShape, Idle
<1> QED BY <1>1, <1>2, <1>3, <1>4, <1>5, <1>6, <1>7, <1>8, <1>9

\* Writing WU_CNTL back keeps it: what was read still holds every enable a
\* waiter needs.
LEMMA WriteWuCntlStep == IrqInv /\ WriteWuCntl => IrqInv'
<1> SUFFICES ASSUME IrqInv, WriteWuCntl PROVE IrqInv'
  OBVIOUS
<1>0. /\ cpu.at = "write_back" /\ cpu.d \in Crm
      /\ cpu'.d = cpu.d /\ cpu'.at \in {"read", "acquire"}
      /\ inten \subseteq inten' /\ (cpu'.at = "acquire" => "CRM" \in inten')
      /\ arm' = (arm \ Crm) \cup (cpu.copy \ ({"rtc"} \cap {cpu.d}))
      /\ UNCHANGED <<cache, waker, runq, pc, team>>
  BY DEF WriteWuCntl, clients, IrqInv, PollShape, IrqTypeOK, Polls
<1> USE ChannelValues, <1>0 DEF IrqInv
<1>1. IrqTypeOK'
  <2>1. cpu' \in Polls
    <3>1. cpu \in Polls BY DEF IrqTypeOK
    <3>2. CASE cpu.left > 1
      <4>1. cpu' = [cpu EXCEPT !.at = "read", !.left = @ - 1]
        BY <3>2 DEF WriteWuCntl
      <4>2. cpu.left - 1 \in Nat BY <3>1, <3>2 DEF Polls
      <4> QED BY <3>1, <4>1, <4>2 DEF Polls, PollPlaces
    <3>3. CASE ~(cpu.left > 1)
      <4>1. cpu' = [cpu EXCEPT !.at = "acquire", !.left = 0]
        BY <3>3 DEF WriteWuCntl
      <4> QED BY <3>1, <4>1 DEF Polls, PollPlaces
    <3> QED BY <3>2, <3>3
  <2>2. flag' \in [Drivers -> Marks] /\ hw' \in [Drivers -> {"off", "own", "old"}]
    BY DEF WriteWuCntl, IrqTypeOK, Marks
  <2>3. inten' \in SUBSET Channels /\ arm' \in SUBSET Drivers
    BY DEF WriteWuCntl, IrqTypeOK, Channels, Polls, Crm
  <2>4. UNCHANGED <<cache, due, waker, runq, pc, clients>>
    BY DEF WriteWuCntl
  <2> QED BY <2>1, <2>2, <2>3, <2>4 DEF IrqTypeOK, TaskTypes, clients
<1>2. PollShape'
  BY DEF PollShape, IrqTypeOK, TaskTypes, Polls, Idle, Crm
<1>3. SectionSaves'
  BY DEF SectionSaves, IrqTypeOK, TaskTypes, Polls, Masked, Idle
<1>4. AlwaysOn'
  BY DEF AlwaysOn, IrqTypeOK, TaskTypes, Polls, PollShape, LetThrough, Masked, Idle
<1>5. CrmOn'
  BY DEF CrmOn, IrqTypeOK, TaskTypes, Polls, PollShape, LetThrough, Masked, Idle, Crm
<1>6. SpiOn'
  BY DEF SpiOn, Crm, IrqTypeOK, TaskTypes, Polls, PollShape, Idle
<1>7. WaitersReachable'
  BY DEF WaitersReachable, CopyKeepsEnables, IrqTypeOK, TaskTypes, Polls, PollShape, Waiting, LetThrough, Masked, Idle, OwnEnable, Crm
<1>8. CopyKeepsEnables'
  BY DEF CopyKeepsEnables, IrqTypeOK, TaskTypes, Polls, PollShape, Idle, Crm, OwnEnable, WaitersReachable, Waiting
<1>9. NothingCached'
  BY DEF NothingCached, IrqTypeOK, TaskTypes, Polls, PollShape, Idle
<1> QED BY <1>1, <1>2, <1>3, <1>4, <1>5, <1>6, <1>7, <1>8, <1>9

\* Enabling a channel in INTENABLE keeps the invariant.
LEMMA EnableChannelStep == IrqInv /\ EnableChannel => IrqInv'
<1> SUFFICES ASSUME IrqInv, EnableChannel PROVE IrqInv'
  OBVIOUS
<1> USE ChannelValues DEF IrqInv, EnableChannel, clients
<1>1. IrqTypeOK'
  BY DEF IrqTypeOK, TaskTypes, Polls, PollPlaces, Marks, Idle
<1>2. PollShape'
  BY DEF PollShape, IrqTypeOK, TaskTypes, Polls, Idle, Crm
<1>3. SectionSaves'
  BY DEF SectionSaves, IrqTypeOK, TaskTypes, Polls, Masked, Idle
<1>4. AlwaysOn'
  BY DEF AlwaysOn, IrqTypeOK, TaskTypes, Polls, PollShape, LetThrough, Masked, Idle
<1>5. CrmOn'
  BY DEF CrmOn, IrqTypeOK, TaskTypes, Polls, PollShape, LetThrough, Masked, Idle, Crm
<1>6. SpiOn'
  BY DEF SpiOn, IrqTypeOK, TaskTypes, Polls, PollShape, Idle
<1>7. WaitersReachable'
  BY DEF WaitersReachable, IrqTypeOK, TaskTypes, Polls, PollShape, Waiting, LetThrough, Masked, Idle, OwnEnable
<1>8. CopyKeepsEnables'
  BY DEF CopyKeepsEnables, IrqTypeOK, TaskTypes, Polls, PollShape, Idle, Crm, OwnEnable, WaitersReachable, Waiting
<1>9. NothingCached'
  BY DEF NothingCached, IrqTypeOK, TaskTypes, Polls, PollShape, Idle
<1> QED BY <1>1, <1>2, <1>3, <1>4, <1>5, <1>6, <1>7, <1>8, <1>9

\* Reading INTENABLE, before it is zeroed, keeps the invariant.
LEMMA AcquireStep == IrqInv /\ Acquire => IrqInv'
<1> SUFFICES ASSUME IrqInv, Acquire PROVE IrqInv'
  OBVIOUS
<1> USE ChannelValues DEF IrqInv, Acquire, clients
<1>1. IrqTypeOK'
  BY DEF IrqTypeOK, TaskTypes, Polls, PollPlaces, Marks, Idle
<1>2. PollShape'
  BY DEF PollShape, IrqTypeOK, TaskTypes, Polls, Idle, Crm
<1>3. SectionSaves'
  BY DEF SectionSaves, IrqTypeOK, TaskTypes, Polls, Masked, Idle
<1>4. AlwaysOn'
  BY DEF AlwaysOn, IrqTypeOK, TaskTypes, Polls, PollShape, LetThrough, Masked, Idle
<1>5. CrmOn'
  BY DEF CrmOn, IrqTypeOK, TaskTypes, Polls, PollShape, LetThrough, Masked, Idle, Crm
<1>6. SpiOn'
  BY DEF SpiOn, IrqTypeOK, TaskTypes, Polls, PollShape, Idle
<1>7. WaitersReachable'
  BY DEF WaitersReachable, IrqTypeOK, TaskTypes, Polls, PollShape, Waiting, LetThrough, Masked, Idle, OwnEnable
<1>8. CopyKeepsEnables'
  BY DEF CopyKeepsEnables, IrqTypeOK, TaskTypes, Polls, PollShape, Idle, Crm, OwnEnable, WaitersReachable, Waiting
<1>9. NothingCached'
  BY DEF NothingCached, IrqTypeOK, TaskTypes, Polls, PollShape, Idle
<1> QED BY <1>1, <1>2, <1>3, <1>4, <1>5, <1>6, <1>7, <1>8, <1>9

\* Zeroing INTENABLE and checking the event keeps it: the copy read before
\* still holds every channel a waiter needs, which is the delicate step of
\* the critical section.
LEMMA CheckStep == IrqInv /\ Check => IrqInv'
<1> SUFFICES ASSUME IrqInv, Check PROVE IrqInv'
  OBVIOUS
<1>0. /\ cpu.at = "mask" /\ cpu.d \in Drivers
      /\ cpu'.d = cpu.d /\ cpu'.at \in {"arm", "ready"} /\ cpu'.saved = cpu.saved
      /\ inten' = {} /\ cache' \in {"none", cache}
      /\ cpu'.at = "arm" => Seen(cpu.d) = "none" /\ UNCHANGED <<cache, flag>>
      /\ UNCHANGED <<arm, waker, runq, pc, team>>
  BY DEF Check, clients, IrqInv, PollShape, IrqTypeOK, TaskTypes, Polls
<1> USE ChannelValues, <1>0 DEF IrqInv
<1>1. IrqTypeOK'
  <2>1. Seen(cpu.d) \in Marks BY DEF Seen, IrqTypeOK
  <2>2. cpu' \in Polls
    <3>1. CASE Seen(cpu.d) = "none" BY <3>1 DEF Check, IrqTypeOK, Polls, PollPlaces
    <3>2. CASE Seen(cpu.d) # "none" BY <2>1, <3>2, ZenonT(40) DEF Check, IrqTypeOK, Polls, PollPlaces
    <3> QED BY <3>1, <3>2
  <2>3. flag' \in [Drivers -> Marks] /\ cache' \in Marks
    BY DEF Check, IrqTypeOK, Marks
  <2>4. UNCHANGED <<arm, hw, due, waker, runq, pc, clients>> BY DEF Check
  <2> QED BY <2>2, <2>3, <2>4 DEF IrqTypeOK, TaskTypes, clients
<1>2. PollShape'
  BY DEF PollShape, IrqTypeOK, TaskTypes, Polls, Idle, Crm
<1>3. SectionSaves'
  BY DEF SectionSaves, IrqTypeOK, TaskTypes, Polls, Masked, Idle
<1>4. AlwaysOn'
  BY DEF AlwaysOn, SectionSaves, Seen, IrqTypeOK, TaskTypes, Polls, PollShape, LetThrough, Masked, Idle
<1>5. CrmOn'
  BY DEF CrmOn, SectionSaves, Seen, IrqTypeOK, TaskTypes, Polls, PollShape, LetThrough, Masked, Idle, Crm
<1>6. SpiOn'
  BY DEF SpiOn, SectionSaves, Seen, IrqTypeOK, TaskTypes, Polls, PollShape, Idle
<1>7. WaitersReachable'
  BY DEF WaitersReachable, SectionSaves, Seen, IrqTypeOK, TaskTypes, Polls, PollShape, Waiting, LetThrough, Masked, Idle, OwnEnable
<1>8. CopyKeepsEnables'
  BY DEF CopyKeepsEnables, IrqTypeOK, TaskTypes, Polls, PollShape, Idle, Crm, OwnEnable, WaitersReachable, Waiting
<1>9. NothingCached'
  BY DEF NothingCached, SectionSaves, Seen, IrqTypeOK, TaskTypes, Polls, PollShape, Idle
<1> QED BY <1>1, <1>2, <1>3, <1>4, <1>5, <1>6, <1>7, <1>8, <1>9

\* Storing the waker, arming the driver and writing INTENABLE back keeps the
\* invariant.
LEMMA ArmAndLeaveStep == IrqInv /\ ArmAndLeave => IrqInv'
<1> SUFFICES ASSUME IrqInv, ArmAndLeave PROVE IrqInv'
  OBVIOUS
<1>0. /\ cpu.at = "arm" /\ cpu.d \in team /\ cpu.d \in Drivers
      /\ waker' = waker \cup {cpu.d}
      /\ arm \subseteq arm' /\ (OwnEnable(cpu.d) => cpu.d \in arm')
      /\ inten' = cpu.saved
      /\ pc' = [pc EXCEPT ![cpu.d] = "wait"]
      /\ cpu' = Idle
      /\ UNCHANGED <<flag, cache, due, runq, team>>
  BY DEF ArmAndLeave, clients, IrqInv, PollShape, IrqTypeOK, TaskTypes, Polls
<1> USE ChannelValues, <1>0 DEF IrqInv
<1>1. IrqTypeOK'
  <2>1. cpu' \in Polls BY PollTypes
  <2>2. inten' \in SUBSET Channels /\ arm' \in SUBSET Drivers
        /\ hw' \in [Drivers -> {"off", "own", "old"}]
    BY DEF ArmAndLeave, IrqTypeOK, Polls
  <2>3. waker' \in SUBSET Drivers
        /\ pc' \in [Drivers -> {"idle", "busy", "wait", "bus_busy"}]
    BY DEF IrqTypeOK, TaskTypes
  <2>4. UNCHANGED <<flag, cache, due, runq, clients>> BY DEF ArmAndLeave
  <2> QED BY <2>1, <2>2, <2>3, <2>4 DEF IrqTypeOK, TaskTypes, clients
<1>2. PollShape'
  BY DEF PollShape, IrqTypeOK, TaskTypes, Polls, Idle, Crm
<1>3. SectionSaves'
  BY DEF SectionSaves, IrqTypeOK, TaskTypes, Polls, Masked, Idle
<1>4. AlwaysOn'
  BY DEF AlwaysOn, IrqTypeOK, TaskTypes, Polls, PollShape, LetThrough, Masked, Idle
<1>5. CrmOn'
  BY DEF CrmOn, IrqTypeOK, TaskTypes, Polls, PollShape, LetThrough, Masked, Idle, Crm
<1>6. SpiOn'
  BY DEF SpiOn, IrqTypeOK, TaskTypes, Polls, PollShape, Idle
<1>7. WaitersReachable'
  <2>1. ASSUME NEW d \in Drivers, d = cpu.d PROVE Waiting(d)'
    <3>1. Channel(d) \in cpu.saved
      BY <2>1 DEF AlwaysOn, CrmOn, SpiOn, LetThrough, Masked, Crm
    <3>2. d = "adc" => cache = "none" BY <2>1 DEF NothingCached
    <3> QED BY <2>1, <3>1, <3>2 DEF Waiting, LetThrough, Masked, Idle
  <2>2. ASSUME NEW d \in Drivers, d # cpu.d, pc'[d] = "wait"
        PROVE  Contains(runq', d) \/ Waiting(d)'
    <3>1. pc[d] = "wait" BY <2>2 DEF IrqTypeOK, TaskTypes
    <3>2. Contains(runq, d) \/ Waiting(d) BY <3>1 DEF WaitersReachable
    <3> QED BY <3>2 DEF Waiting, LetThrough, Masked, Idle
  <2> QED BY <2>1, <2>2 DEF WaitersReachable
<1>8. CopyKeepsEnables'
  BY DEF CopyKeepsEnables, IrqTypeOK, TaskTypes, Polls, PollShape, Idle, Crm, OwnEnable, WaitersReachable, Waiting
<1>9. NothingCached'
  BY DEF NothingCached, IrqTypeOK, TaskTypes, Polls, PollShape, Idle
<1> QED BY <1>1, <1>2, <1>3, <1>4, <1>5, <1>6, <1>7, <1>8, <1>9

\* Taking the event and leaving the critical section keeps the invariant.
LEMMA ReadyAndLeaveStep == IrqInv /\ ReadyAndLeave => IrqInv'
<1> SUFFICES ASSUME IrqInv, ReadyAndLeave PROVE IrqInv'
  OBVIOUS
<1>0. /\ cpu.at = "ready" /\ cpu.d \in team /\ cpu.d \in Drivers /\ pc[cpu.d] = "busy"
      /\ inten' = cpu.saved
      /\ \/ /\ cpu.d = "rtc" /\ cpu'.d = "rtc" /\ cpu'.at = "read" /\ pc' = pc
         \/ cpu' = Idle /\ pc' = [pc EXCEPT ![cpu.d] = "idle"]
      /\ UNCHANGED <<arm, cache, waker, runq, team>>
  BY DEF ReadyAndLeave, Idle, clients, IrqInv, PollShape, IrqTypeOK, TaskTypes, Polls
<1> USE ChannelValues, <1>0 DEF IrqInv
<1>1. IrqTypeOK'
  <2>1. cpu' \in Polls
    <3>1. CASE cpu' = Idle BY <3>1, PollTypes
    <3>2. CASE cpu' # Idle
      <4>1. cpu' = [Idle EXCEPT !.d = "rtc", !.at = "read", !.left = 1]
        BY <3>2 DEF ReadyAndLeave
      <4> QED BY <4>1 DEF Idle, Polls, PollPlaces, Drivers, Marks
    <3> QED BY <3>1, <3>2
  <2>2. inten' \in SUBSET Channels /\ flag' \in [Drivers -> Marks]
    BY DEF ReadyAndLeave, IrqTypeOK, Polls, Marks
  <2>3. pc' \in [Drivers -> {"idle", "busy", "wait", "bus_busy"}]
    BY DEF IrqTypeOK, TaskTypes
  <2>4. UNCHANGED <<arm, hw, cache, due, waker, runq, clients>>
    BY DEF ReadyAndLeave
  <2> QED BY <2>1, <2>2, <2>3, <2>4 DEF IrqTypeOK, TaskTypes, clients
<1>2. PollShape'
  BY DEF PollShape, IrqTypeOK, TaskTypes, Polls, Idle, Crm
<1>3. SectionSaves'
  BY DEF SectionSaves, IrqTypeOK, TaskTypes, Polls, Masked, Idle
<1>4. AlwaysOn'
  BY DEF AlwaysOn, IrqTypeOK, TaskTypes, Polls, PollShape, LetThrough, Masked, Idle
<1>5. CrmOn'
  BY DEF CrmOn, IrqTypeOK, TaskTypes, Polls, PollShape, LetThrough, Masked, Idle, Crm
<1>6. SpiOn'
  BY DEF SpiOn, IrqTypeOK, TaskTypes, Polls, PollShape, Idle
<1>7. WaitersReachable'
  BY DEF WaitersReachable, IrqTypeOK, TaskTypes, Polls, PollShape, Waiting, LetThrough, Masked, Idle, OwnEnable
<1>8. CopyKeepsEnables'
  BY DEF CopyKeepsEnables, IrqTypeOK, TaskTypes, Polls, PollShape, Idle, Crm, OwnEnable, WaitersReachable, Waiting
<1>9. NothingCached'
  BY DEF NothingCached, IrqTypeOK, TaskTypes, Polls, PollShape, Idle
<1> QED BY <1>1, <1>2, <1>3, <1>4, <1>5, <1>6, <1>7, <1>8, <1>9

\* An RTC wait that is over keeps the invariant.
LEMMA RtcDueStep == IrqInv /\ RtcDue => IrqInv'
<1> SUFFICES ASSUME IrqInv, RtcDue PROVE IrqInv'
  OBVIOUS
<1> USE ChannelValues DEF IrqInv, RtcDue, clients
<1>1. IrqTypeOK'
  BY DEF IrqTypeOK, TaskTypes, Polls, PollPlaces, Marks, Idle
<1>2. PollShape'
  BY DEF PollShape, IrqTypeOK, TaskTypes, Polls, Idle, Crm
<1>3. SectionSaves'
  BY DEF SectionSaves, IrqTypeOK, TaskTypes, Polls, Masked, Idle
<1>4. AlwaysOn'
  BY DEF AlwaysOn, IrqTypeOK, TaskTypes, Polls, PollShape, LetThrough, Masked, Idle
<1>5. CrmOn'
  BY DEF CrmOn, IrqTypeOK, TaskTypes, Polls, PollShape, LetThrough, Masked, Idle, Crm
<1>6. SpiOn'
  BY DEF SpiOn, IrqTypeOK, TaskTypes, Polls, PollShape, Idle
<1>7. WaitersReachable'
  BY DEF WaitersReachable, IrqTypeOK, TaskTypes, Polls, PollShape, Waiting, LetThrough, Masked, Idle, OwnEnable
<1>8. CopyKeepsEnables'
  BY DEF CopyKeepsEnables, IrqTypeOK, TaskTypes, Polls, PollShape, Idle, Crm, OwnEnable, WaitersReachable, Waiting
<1>9. NothingCached'
  BY DEF NothingCached, IrqTypeOK, TaskTypes, Polls, PollShape, Idle
<1> QED BY <1>1, <1>2, <1>3, <1>4, <1>5, <1>6, <1>7, <1>8, <1>9

\* Starting a UART read or write keeps the invariant.
LEMMA BeginUartStep ==
  ASSUME IrqInv, NEW d \in Uart, BeginUart(d)
  PROVE  IrqInv'
<1> USE ChannelValues DEF IrqInv, BeginUart, Begin, clients, Uart
<1>1. IrqTypeOK'
  BY BeginTypeStep
<1>2. PollShape'
  BY DEF PollShape, IrqTypeOK, TaskTypes, Polls, Idle, Crm
<1>3. SectionSaves'
  BY DEF SectionSaves, IrqTypeOK, TaskTypes, Polls, Masked, Idle
<1>4. AlwaysOn'
  BY DEF AlwaysOn, IrqTypeOK, TaskTypes, Polls, PollShape, LetThrough, Masked, Idle
<1>5. CrmOn'
  BY DEF CrmOn, IrqTypeOK, TaskTypes, Polls, PollShape, LetThrough, Masked, Idle, Crm
<1>6. SpiOn'
  BY DEF SpiOn, IrqTypeOK, TaskTypes, Polls, PollShape, Idle
<1>7. WaitersReachable'
  BY DEF WaitersReachable, IrqTypeOK, TaskTypes, Polls, PollShape, Waiting, LetThrough, Masked, Idle, OwnEnable
<1>8. CopyKeepsEnables'
  BY DEF CopyKeepsEnables, IrqTypeOK, TaskTypes, Polls, PollShape, Idle, Crm, OwnEnable, WaitersReachable, Waiting
<1>9. NothingCached'
  BY DEF NothingCached, IrqTypeOK, TaskTypes, Polls, PollShape, Idle
<1> QED BY <1>1, <1>2, <1>3, <1>4, <1>5, <1>6, <1>7, <1>8, <1>9

\* Polling the first task of the run queue keeps the invariant: it was woken,
\* so it needs its waker no longer.
LEMMA PollStep ==
  ASSUME IrqInv, NEW d \in Drivers, Poll(d)
  PROVE  IrqInv'
<1>0. /\ cpu = Idle
      /\ d = Head(runq) /\ runq \in Seq(Drivers) /\ runq # <<>>
      /\ \/ /\ pc[d] = "wait" /\ pc' = [pc EXCEPT ![d] = "busy"]
            /\ cpu'.d = d /\ cpu' \in Polls
            /\ cpu'.at = IF d = "spi" THEN "enable_channel" ELSE "acquire"
         \/ pc[d] # "wait" /\ pc' = pc /\ cpu' = Idle
      /\ runq' \in Seq(Drivers)
      /\ \A e \in Drivers : e # d /\ Contains(runq, e) => Contains(runq', e)
      /\ UNCHANGED <<inten, arm, flag, hw, cache, due, waker, clients>>
  <2>1. runq \in Seq(Drivers) BY DEF IrqInv, IrqTypeOK, TaskTypes
  <2>2. /\ runq # <<>> /\ d = Head(runq) /\ runq' = Tail(runq) /\ cpu = Idle
        /\ UNCHANGED <<inten, arm, flag, hw, cache, due, waker, clients>>
    BY DEF Poll
  <2>3. CASE pc[d] = "wait"
    <3>1. cpu' = [Idle EXCEPT !.d = d,
                    !.at = IF d = "spi" THEN "enable_channel" ELSE "acquire"]
      BY <2>3 DEF Poll
    <3>2. cpu' \in Polls /\ cpu'.d = d
          /\ cpu'.at = IF d = "spi" THEN "enable_channel" ELSE "acquire"
      BY <3>1 DEF Idle, Polls, PollPlaces, Marks
    <3>3. pc' = [pc EXCEPT ![d] = "busy"] BY <2>3 DEF Poll
    <3> QED BY <2>1, <2>2, <2>3, <3>2, <3>3, TailKeeps
  <2>4. CASE pc[d] # "wait"
    <3>1. pc' = pc /\ cpu' = cpu BY <2>4 DEF Poll
    <3> QED BY <2>1, <2>2, <2>4, <3>1, TailKeeps
  <2> QED BY <2>3, <2>4
<1> USE ChannelValues, <1>0 DEF IrqInv, clients, Crm
<1>1. IrqTypeOK'
  BY PollTypes DEF IrqTypeOK, TaskTypes
<1>2. PollShape'
  BY DEF PollShape, IrqTypeOK, TaskTypes, Polls, Idle, Crm
<1>3. SectionSaves'
  BY DEF SectionSaves, IrqTypeOK, TaskTypes, Polls, Masked, Idle
<1>4. AlwaysOn'
  BY DEF AlwaysOn, IrqTypeOK, TaskTypes, Polls, PollShape, LetThrough, Masked, Idle
<1>5. CrmOn'
  BY DEF CrmOn, IrqTypeOK, TaskTypes, Polls, PollShape, LetThrough, Masked, Idle, Crm
<1>6. SpiOn'
  BY DEF SpiOn, IrqTypeOK, TaskTypes, Polls, PollShape, Idle
<1>7. WaitersReachable'
  BY DEF WaitersReachable, IrqTypeOK, TaskTypes, Polls, PollShape, Waiting, LetThrough, Masked, Idle, OwnEnable
<1>8. CopyKeepsEnables'
  BY DEF CopyKeepsEnables, IrqTypeOK, TaskTypes, Polls, PollShape, Idle, Crm, OwnEnable, WaitersReachable, Waiting
<1>9. NothingCached'
  BY DEF NothingCached, IrqTypeOK, TaskTypes, Polls, PollShape, Idle
<1> QED BY <1>1, <1>2, <1>3, <1>4, <1>5, <1>6, <1>7, <1>8, <1>9

\* A wake for another reason keeps the invariant.
LEMMA SpuriousWakeStep ==
  ASSUME IrqInv, NEW d \in Drivers, SpuriousWake(d)
  PROVE  IrqInv'
<1>0. /\ runq' \in Seq(Drivers)
      /\ \A e \in Drivers : Contains(runq, e) => Contains(runq', e)
      /\ UNCHANGED <<inten, arm, flag, hw, cache, due, waker, pc, cpu, clients>>
  <2>1. runq \in Seq(Drivers) BY DEF IrqInv, IrqTypeOK, TaskTypes
  <2> QED BY <2>1, AppendKeeps DEF SpuriousWake
<1> USE <1>0 DEF IrqInv, clients, Crm
<1>1. IrqTypeOK'
  BY DEF IrqTypeOK, TaskTypes, Polls, PollPlaces, Marks, Idle
<1>2. PollShape'
  BY DEF PollShape, IrqTypeOK, TaskTypes, Polls, Idle, Crm
<1>3. SectionSaves'
  BY DEF SectionSaves, IrqTypeOK, TaskTypes, Polls, Masked, Idle
<1>4. AlwaysOn'
  BY DEF AlwaysOn, IrqTypeOK, TaskTypes, Polls, PollShape, LetThrough, Masked, Idle
<1>5. CrmOn'
  BY DEF CrmOn, IrqTypeOK, TaskTypes, Polls, PollShape, LetThrough, Masked, Idle, Crm
<1>6. SpiOn'
  BY DEF SpiOn, IrqTypeOK, TaskTypes, Polls, PollShape, Idle
<1>7. WaitersReachable'
  BY DEF WaitersReachable, IrqTypeOK, TaskTypes, Polls, PollShape, Waiting, LetThrough, Masked, Idle, OwnEnable
<1>8. CopyKeepsEnables'
  <2> SUFFICES ASSUME cpu.at = "write_back", NEW e \in Crm, e # cpu.d, pc[e] = "wait"
               PROVE  Contains(runq', e) \/ e \in cpu.copy
    BY DEF CopyKeepsEnables
  <2>1. Contains(runq, e) \/ e \in cpu.copy BY DEF CopyKeepsEnables
  <2> QED BY <2>1 DEF Drivers
<1>9. NothingCached'
  BY DEF NothingCached, IrqTypeOK, TaskTypes, Polls, PollShape, Idle
<1> QED BY <1>1, <1>2, <1>3, <1>4, <1>5, <1>6, <1>7, <1>8, <1>9

\* Dropping a future keeps the invariant: its waker and its enables stay
\* behind, no other task's do.
LEMMA AbandonStep ==
  ASSUME IrqInv, NEW d \in Drivers, Abandon(d)
  PROVE  IrqInv'
<1>0. /\ pc' \in [Drivers -> {"idle", "busy", "wait", "bus_busy"}]
      /\ cpu = Idle
      /\ \A e \in Drivers : pc'[e] = "wait" => pc[e] = "wait"
      /\ UNCHANGED <<inten, arm, flag, hw, cache, due, waker, runq, cpu, clients>>
  BY DEF Abandon, IrqInv, IrqTypeOK, TaskTypes
<1> USE <1>0 DEF IrqInv, clients, Crm
<1>1. IrqTypeOK'
  BY DEF IrqTypeOK, TaskTypes, Polls, PollPlaces, Marks, Idle
<1>2. PollShape'
  BY DEF PollShape, IrqTypeOK, TaskTypes, Polls, Idle, Crm
<1>3. SectionSaves'
  BY DEF SectionSaves, IrqTypeOK, TaskTypes, Polls, Masked, Idle
<1>4. AlwaysOn'
  BY DEF AlwaysOn, IrqTypeOK, TaskTypes, Polls, PollShape, LetThrough, Masked, Idle
<1>5. CrmOn'
  <2>1. LetThrough' = LetThrough BY DEF LetThrough, Masked
  <2> QED BY <2>1 DEF CrmOn, Idle, Drivers
<1>6. SpiOn'
  BY DEF SpiOn, IrqTypeOK, TaskTypes, Polls, PollShape, Idle
<1>7. WaitersReachable'
  BY DEF WaitersReachable, IrqTypeOK, TaskTypes, Polls, PollShape, Waiting, LetThrough, Masked, Idle, OwnEnable
<1>8. CopyKeepsEnables'
  BY DEF CopyKeepsEnables, IrqTypeOK, TaskTypes, Polls, PollShape, Idle, Crm, OwnEnable, WaitersReachable, Waiting
<1>9. NothingCached'
  BY DEF NothingCached, IrqTypeOK, TaskTypes, Polls, PollShape, Idle
<1> QED BY <1>1, <1>2, <1>3, <1>4, <1>5, <1>6, <1>7, <1>8, <1>9

\* An event of the hardware keeps the invariant: it sets flags and clears
\* none.
LEMMA HwEventStep ==
  ASSUME IrqInv, NEW d \in Drivers, HwEvent(d)
  PROVE  IrqInv'
<1>0. /\ flag' \in [Drivers -> Marks] /\ hw' \in [Drivers -> {"off", "own", "old"}]
      /\ \A e \in Drivers : flag[e] # "none" => flag'[e] # "none"
      /\ UNCHANGED <<inten, arm, cache, due, waker, runq, pc, cpu, clients>>
  BY DEF HwEvent, IrqInv, IrqTypeOK, TaskTypes, Marks
<1> USE <1>0, ChannelValues DEF IrqInv, clients, Crm
<1>1. IrqTypeOK'
  BY DEF IrqTypeOK, TaskTypes, Polls, PollPlaces, Marks, Idle
<1>2. PollShape'
  BY DEF PollShape, IrqTypeOK, TaskTypes, Polls, Idle, Crm
<1>3. SectionSaves'
  BY DEF SectionSaves, IrqTypeOK, TaskTypes, Polls, Masked, Idle
<1>4. AlwaysOn'
  BY DEF AlwaysOn, IrqTypeOK, TaskTypes, Polls, PollShape, LetThrough, Masked, Idle
<1>5. CrmOn'
  BY DEF CrmOn, IrqTypeOK, TaskTypes, Polls, PollShape, LetThrough, Masked, Idle, Crm
<1>6. SpiOn'
  BY DEF SpiOn, IrqTypeOK, TaskTypes, Polls, PollShape, Idle
<1>7. WaitersReachable'
  BY DEF WaitersReachable, IrqTypeOK, TaskTypes, Polls, PollShape, Waiting, LetThrough, Masked, Idle, OwnEnable
<1>8. CopyKeepsEnables'
  BY DEF CopyKeepsEnables, IrqTypeOK, TaskTypes, Polls, PollShape, Idle, Crm, OwnEnable, WaitersReachable, Waiting
<1>9. NothingCached'
  BY DEF NothingCached, IrqTypeOK, TaskTypes, Polls, PollShape, Idle
<1> QED BY <1>1, <1>2, <1>3, <1>4, <1>5, <1>6, <1>7, <1>8, <1>9

\* The handlers.  They are entered outside the zeroed part of a section only.
LEMMA IrqStep ==
  ASSUME IrqInv, Irq
  PROVE  IrqInv'
<1> DEFINE pending == {c \in Channels : Serviceable(c)}
           served  == {d \in team : Channel(d) \in pending /\ flag[d] # "none"}
<1>a. /\ pending # {}
      /\ arm' = arm \ served
      /\ inten' = inten \ (pending \cap {"SPI"})
      /\ flag' = [flag EXCEPT !["adc"] = IF "adc" \in served THEN "none" ELSE @]
      /\ cache' = IF "adc" \in served THEN flag["adc"] ELSE cache
      /\ Wake(served)
      /\ UNCHANGED <<hw, due, pc, cpu, clients>>
  BY DEF Irq
<1>b. ~Masked BY <1>a DEF Serviceable, IrqInv, SectionSaves
<1>c. "SPI" \in pending => "spi" \in served /\ flag["spi"] # "none"
  <2>1. ASSUME "SPI" \in pending
        PROVE  \E d \in team : Channel(d) = "SPI" /\ flag[d] # "none"
    BY <2>1 DEF Serviceable, Requests
  <2> QED BY <2>1, ChannelOwners, ChannelValues DEF IrqInv, IrqTypeOK, TaskTypes
<1>d. served \in SUBSET Drivers BY DEF IrqInv, IrqTypeOK, TaskTypes
<1>e. /\ runq' \in Seq(Drivers) /\ waker' = waker \ served
      /\ \A d \in Drivers : Contains(runq, d) => Contains(runq', d)
      /\ \A d \in waker \cap served : Contains(runq', d)
  BY <1>a, <1>d, WakeQueues DEF IrqInv
<1>f. ~Masked' BY <1>a, <1>b DEF Masked
<1> HIDE DEF pending, served
<1> USE ChannelValues, <1>a, <1>b, <1>c, <1>d, <1>e, <1>f DEF IrqInv, clients
<1>1. IrqTypeOK'
  <2>1. flag' \in [Drivers -> Marks] BY DEF IrqTypeOK, Marks
  <2>2. cache' \in Marks BY DEF IrqTypeOK
  <2>3. inten' \in SUBSET Channels /\ arm' \in SUBSET Drivers
        /\ waker' \in SUBSET Drivers
    BY DEF IrqTypeOK, TaskTypes
  <2> QED BY <2>1, <2>2, <2>3 DEF IrqTypeOK, TaskTypes
<1>2. PollShape'
  BY DEF PollShape
<1>3. SectionSaves'
  BY DEF SectionSaves
<1>4. AlwaysOn'
  <2>1. inten \subseteq inten' \cup {"SPI"} OBVIOUS
  <2> QED BY <2>1, ChannelOwners DEF AlwaysOn, LetThrough, IrqTypeOK, TaskTypes
<1>5. CrmOn'
  <2>1. "CRM" \in inten => "CRM" \in inten' OBVIOUS
  <2> QED BY <2>1 DEF CrmOn, LetThrough
<1>6. SpiOn'
  BY DEF SpiOn, IrqTypeOK, Masked
<1>7. WaitersReachable'
  <2> SUFFICES ASSUME NEW d \in Drivers, pc[d] = "wait"
               PROVE  Contains(runq', d) \/ Waiting(d)'
    BY DEF WaitersReachable
  <2>1. CASE Contains(runq, d) BY <2>1
  <2>2. CASE Waiting(d) /\ d \in served BY <2>2 DEF Waiting
  <2>3. CASE Waiting(d) /\ d \notin served
    <3>1. d \in waker' /\ (OwnEnable(d) => d \in arm') BY <2>3 DEF Waiting
    <3>2. Channel(d) \in inten'
      BY <2>3, ChannelOwners DEF Waiting, LetThrough
    <3>3. d = "adc" => cache' = "none" BY <2>3 DEF Waiting
    <3> QED BY <3>1, <3>2, <3>3 DEF Waiting, LetThrough
  <2> QED BY <2>1, <2>2, <2>3 DEF WaitersReachable
<1>8. CopyKeepsEnables'
  BY DEF CopyKeepsEnables, Crm, Drivers
<1>9. NothingCached'
  BY DEF NothingCached, Masked
<1> QED BY <1>1, <1>2, <1>3, <1>4, <1>5, <1>6, <1>7, <1>8, <1>9

\* At reset every driver is idle and the invariant holds.
LEMMA InitInv == Init => IrqInv
<1> SUFFICES ASSUME Init PROVE IrqInv
  OBVIOUS
<1> USE ChannelValues, PollTypes DEF Init
<1>1. IrqTypeOK
  <2>1. TaskTypes BY IrqConstants DEF TaskTypes
  <2>2. inten \in SUBSET Channels BY <2>1 DEF TaskTypes
  <2> QED BY <2>1, <2>2 DEF IrqTypeOK, Marks
<1>2. ~Masked /\ cpu.at = "idle" /\ cpu.d = "none" BY DEF Masked
<1>3. PollShape BY <1>2 DEF PollShape
<1>4. SectionSaves /\ SpiOn /\ CopyKeepsEnables /\ NothingCached
  BY <1>2 DEF SectionSaves, SpiOn, CopyKeepsEnables, NothingCached
<1>5. AlwaysOn BY <1>2 DEF AlwaysOn, LetThrough
<1>6. CrmOn /\ WaitersReachable BY <1>2 DEF CrmOn, WaitersReachable, Crm
<1> QED BY <1>1, <1>3, <1>4, <1>5, <1>6 DEF IrqInv

\* A stuttering step keeps the invariant.
LEMMA StutterInv == IrqInv /\ UNCHANGED vars => IrqInv'
BY DEF IrqInv, vars, clients, IrqTypeOK, TaskTypes, PollShape, SectionSaves, AlwaysOn, CrmOn,
       SpiOn, WaitersReachable, CopyKeepsEnables, NothingCached, Waiting,
       LetThrough, Masked

\* Every step keeps the invariant.
LEMMA StepInv == IrqInv /\ [Next]_vars => IrqInv'
BY BeginSpiStep, BeginI2cStep, BeginAdcStep, BeginKbiStep, BeginRtcStep,
   BeginUartStep, ReadWuCntlStep, WriteWuCntlStep, EnableChannelStep,
   AcquireStep, CheckStep, ArmAndLeaveStep, ReadyAndLeaveStep, RtcDueStep,
   PollStep, SpuriousWakeStep, AbandonStep, HwEventStep, IrqStep, StutterInv
   DEF Next, CpuStep

\* The inductive invariant: what a waiting driver needs of the registers it
\* shares stays there, whoever is polled or interrupted in between.
THEOREM IrqInvariance == Spec => []IrqInv
BY InitInv, StepInv, PTL DEF Spec

\* No wake-up is lost between the check of a flag and the interrupt, in
\* whatever combination of drivers shares INTENABLE and WU_CNTL.
THEOREM WakesAreNotLost == Spec => []IrqWakeNotLost
<1>1. IrqInv => IrqWakeNotLost
  <2> SUFFICES ASSUME IrqInv, NEW d \in Drivers, pc[d] = "wait", ~Contains(runq, d)
               PROVE  InterruptComes(d)
    BY DEF IrqWakeNotLost
  <2>1. Waiting(d) BY DEF IrqInv, WaitersReachable
  <2> QED BY <2>1 DEF InterruptComes, Waiting, LetThrough, Masked
<1> QED BY <1>1, IrqInvariance, PTL

-----------------------------------------------------------------------------
(* No wait ends for the event of an earlier one.                           *)

\* Every step keeps a wait's own event apart from those left by an earlier
\* operation.
LEMMA FreshStep ==
  ASSUME IrqInv, IrqInv', FlagsFresh, ReportsOwnEvent, [Next]_vars
  PROVE  FlagsFresh' /\ ReportsOwnEvent'
<1> USE DEF IrqInv, IrqTypeOK, TaskTypes, PollShape
<1>1. CASE BeginSpi
  BY <1>1 DEF BeginSpi, Begin, Old, Idle, FlagsFresh, ReportsOwnEvent, Drivers
<1>2. CASE BeginI2c
  BY <1>2 DEF BeginI2c, Begin, Idle, FlagsFresh, ReportsOwnEvent, Drivers
<1>3. CASE BeginAdc
  BY <1>3 DEF BeginAdc, Begin, Idle, FlagsFresh, ReportsOwnEvent, Drivers
<1>4. CASE BeginKbi
  BY <1>4 DEF BeginKbi, Begin, Idle, FlagsFresh, ReportsOwnEvent, Drivers
<1>5. CASE BeginRtc
  BY <1>5 DEF BeginRtc, Begin, Idle, FlagsFresh, ReportsOwnEvent, Drivers
<1>6. ASSUME NEW d \in Uart, BeginUart(d) PROVE FlagsFresh' /\ ReportsOwnEvent'
  BY <1>6 DEF BeginUart, Begin, Idle, FlagsFresh, ReportsOwnEvent, Drivers, Uart
<1>7. CASE ReadWuCntl
  BY <1>7 DEF ReadWuCntl, clients, Polls, FlagsFresh, ReportsOwnEvent, Drivers
<1>8. CASE WriteWuCntl
  <2>1. /\ cpu.d \in {"kbi", "rtc"} /\ cpu'.at \in {"read", "acquire"}
        /\ cache' = cache /\ pc' = pc /\ abandons' = abandons
    BY <1>8, ZenonT(40) DEF WriteWuCntl, clients, Polls, Crm
  <2>2. \A d \in Drivers : flag'[d] \in {"none", flag[d]}
    BY <1>8 DEF WriteWuCntl
  <2>3. \A d \in Drivers : hw'[d] \in {"off", "own", hw[d]}
    BY <1>8 DEF WriteWuCntl
  <2>4. flag'["spi"] = flag["spi"] /\ hw'["spi"] = hw["spi"]
    BY <1>8, <2>1 DEF WriteWuCntl, Drivers
  <2>5. cpu'.d = cpu.d BY <1>8, ZenonT(40) DEF WriteWuCntl, Polls
  <2> QED BY <2>1, <2>2, <2>3, <2>4, <2>5, SMTT(40) DEF FlagsFresh, ReportsOwnEvent, Drivers
<1>9. CASE EnableChannel
  BY <1>9 DEF EnableChannel, clients, Polls, FlagsFresh, ReportsOwnEvent, Drivers
<1>10. CASE Acquire
  BY <1>10 DEF Acquire, clients, Polls, FlagsFresh, ReportsOwnEvent, Drivers
<1>11. CASE Check
  <2>1. /\ cpu.d \in Drivers /\ cpu'.d = cpu.d /\ cpu'.at \in {"arm", "ready"}
        /\ pc' = pc /\ hw' = hw /\ abandons' = abandons /\ pc[cpu.d] = "busy"
    BY <1>11, ZenonT(40) DEF Check, clients, Polls
  <2>2. /\ cache' \in {"none", cache}
        /\ \A d \in Drivers : flag'[d] \in {"none", flag[d]}
    BY <1>11 DEF Check
  <2>3. cpu'.at = "ready" =>
          /\ cpu'.got = Seen(cpu.d) /\ Seen(cpu.d) # "none"
          /\ cpu.d = "spi" => flag'["spi"] = "none"
    <3>1. CASE Seen(cpu.d) = "none"
      BY <1>11, <3>1 DEF Check, Polls
    <3>2. CASE Seen(cpu.d) # "none"
      <4>1. cpu'.got = Seen(cpu.d) BY <1>11, <3>2 DEF Check, Polls
      <4>2. cpu.d = "spi" => flag' = [flag EXCEPT !["spi"] = "none"]
        BY <1>11, <3>2 DEF Check
      <4> QED BY <3>2, <4>1, <4>2 DEF Drivers
    <3> QED BY <3>1, <3>2
  <2>4. cpu'.at = "ready" /\ cpu.d = "adc" => cpu'.got = "own"
    BY <2>3 DEF Seen, FlagsFresh, Marks
  <2>5. cpu'.at = "ready" /\ cpu.d \notin {"adc", "spi"} => cpu'.got = "own"
    BY <2>1, <2>3 DEF Seen, FlagsFresh, Marks
  <2>6. cpu'.at = "ready" /\ ~abandons /\ cpu.d = "spi"
          => cpu'.got = "own" /\ hw["spi"] = "off"
    <3>1. Seen("spi") = flag["spi"] /\ flag["spi"] \in Marks BY DEF Seen, Drivers
    <3> QED BY <2>3, <3>1 DEF FlagsFresh, Marks
  <2>7. ReportsOwnEvent' BY <2>1, <2>4, <2>5, <2>6 DEF ReportsOwnEvent
  <2>8. FlagsFresh' BY <2>1, <2>2, <2>3, <2>6, SMTT(30) DEF FlagsFresh, Drivers
  <2> QED BY <2>7, <2>8
<1>12. CASE ArmAndLeave
  BY <1>12 DEF ArmAndLeave, clients, Polls, Idle, FlagsFresh, ReportsOwnEvent, Drivers
<1>13. CASE ReadyAndLeave
  <2>1. /\ cpu.at = "ready" /\ cpu.d \in Drivers /\ cpu'.at \in {"idle", "read"}
        /\ hw' = hw /\ cache' = cache /\ abandons' = abandons
    <3>1. cpu.at = "ready" /\ cpu.d \in Drivers /\ hw' = hw /\ cache' = cache
          /\ abandons' = abandons
      BY <1>13 DEF ReadyAndLeave, clients
    <3>2. cpu' \in {Idle, [Idle EXCEPT !.d = "rtc", !.at = "read", !.left = 1]}
      BY <1>13 DEF ReadyAndLeave
    <3>3. CASE cpu' = Idle BY <3>1, <3>3, PollTypes
    <3>4. CASE cpu' # Idle
      <4>1. cpu'.at = "read" BY <3>2, <3>4 DEF Idle
      <4> QED BY <3>1, <4>1
    <3> QED BY <3>3, <3>4
  <2>2. /\ \A d \in Drivers : flag'[d] \in {"none", flag[d]}
        /\ flag'["spi"] = flag["spi"]
    BY <1>13, <2>1 DEF ReadyAndLeave, Uart, Drivers
  <2>3. pc'["spi"] = "idle" => pc["spi"] = "idle" \/ cpu.d = "spi"
    BY <1>13, <2>1 DEF ReadyAndLeave, Drivers
  <2> QED BY <2>1, <2>2, <2>3 DEF FlagsFresh, ReportsOwnEvent
<1>14. CASE RtcDue
  BY <1>14 DEF RtcDue, clients, FlagsFresh, ReportsOwnEvent
<1>15. ASSUME NEW d \in Drivers, Poll(d) PROVE FlagsFresh' /\ ReportsOwnEvent'
  <2>1. /\ cpu = Idle /\ flag' = flag /\ hw' = hw /\ cache' = cache
        /\ abandons' = abandons
    BY <1>15 DEF Poll, clients
  <2>2. cpu'.at # "ready"
    <3>1. CASE pc[d] = "wait" BY <1>15, <3>1, ZenonT(40) DEF Poll, Idle
    <3>2. CASE pc[d] # "wait" BY <1>15, <3>2 DEF Poll, Idle
    <3> QED BY <3>1, <3>2
  <2>3. pc'["spi"] = "idle" => pc["spi"] = "idle"
    BY <1>15, SMTT(30) DEF Poll, Drivers
  <2> QED BY <2>1, <2>2, <2>3 DEF FlagsFresh, ReportsOwnEvent
<1>16. ASSUME NEW d \in Drivers, SpuriousWake(d) PROVE FlagsFresh' /\ ReportsOwnEvent'
  BY <1>16 DEF SpuriousWake, clients, FlagsFresh, ReportsOwnEvent
<1>17. ASSUME NEW d \in Drivers, Abandon(d) PROVE FlagsFresh' /\ ReportsOwnEvent'
  BY <1>17 DEF Abandon, clients, Idle, FlagsFresh, ReportsOwnEvent
<1>18. ASSUME NEW d \in Drivers, HwEvent(d) PROVE FlagsFresh' /\ ReportsOwnEvent'
  BY <1>18 DEF HwEvent, clients, FlagsFresh, ReportsOwnEvent
<1>19. CASE Irq
  BY <1>19 DEF Irq, clients, FlagsFresh, ReportsOwnEvent
<1>20. CASE UNCHANGED vars
  BY <1>20 DEF vars, FlagsFresh, ReportsOwnEvent
<1> QED
  BY <1>1, <1>2, <1>3, <1>4, <1>5, <1>6, <1>7, <1>8, <1>9, <1>10, <1>11, <1>12,
     <1>13, <1>14, <1>15, <1>16, <1>17, <1>18, <1>19, <1>20 DEF Next, CpuStep

\* A wait ends for what happened since it began: never for a flag or a sample
\* that was there before.
THEOREM WaitsReportOwnEvent == Spec => []ReportsOwnEvent
<1>1. Init => FlagsFresh /\ ReportsOwnEvent
  BY PollTypes DEF Init, FlagsFresh, ReportsOwnEvent, Drivers
<1>2. IrqInv /\ IrqInv' /\ FlagsFresh /\ ReportsOwnEvent /\ [Next]_vars
        => FlagsFresh' /\ ReportsOwnEvent'
  BY FreshStep
<1> QED BY <1>1, <1>2, IrqInvariance, PTL DEF Spec

(***************************************************************************)
(* I2C transactions, for every list of operations, whatever the slave      *)
(* answers and other masters do.  BusInv says where the driver stands and  *)
(* who owns the bus; WireInv what has been driven there, as far as it has  *)
(* been shifted; BufInv what has been received and stored.                 *)
(***************************************************************************)
Operations == [read : BOOLEAN, len : Nat]
Events == {<<"S">>, <<"Sr">>, <<"P">>} \cup ({"addr", "byte"} \X BOOLEAN)
          \cup ({"data"} \X Nat \X Nat)

\* What an event is called.
LEMMA EventKinds ==
  /\ <<"S">> \in Events /\ <<"Sr">> \in Events /\ <<"P">> \in Events
  /\ \A b \in BOOLEAN : <<"addr", b>> \in Events /\ <<"byte", b>> \in Events
  /\ \A k, j \in Nat : <<"data", k, j>> \in Events
BY DEF Events

\* A transaction's operations are a sequence of them.
LEMMA ProgramTypes == I2cPrograms \subseteq Seq(Operations)
BY I2cAssumption DEF I2cAssumption, Operations

\* The first n bytes of operation k's buffer; each of them follows the others.
LEMMA BytesOfWrite ==
  ASSUME NEW k \in Nat, NEW n \in Nat
  PROVE  /\ WriteBytes(k, n) \in Seq(Events)
         /\ WriteBytes(k, 0) = <<>>
         /\ WriteBytes(k, n + 1) = Append(WriteBytes(k, n), <<"data", k, n + 1>>)
<1> DEFINE e(j) == <<"data", k, j>>
<1>1. \A j \in Nat : e(j) \in Events BY EventKinds
<1> HIDE DEF e
<1>2. /\ [j \in 1 .. n |-> e(j)] \in Seq(Events)
      /\ [j \in 1 .. 0 |-> e(j)] = <<>>
      /\ [j \in 1 .. n + 1 |-> e(j)] = Append([j \in 1 .. n |-> e(j)], e(n + 1))
  <2>1. \A m \in Nat : [j \in 1 .. m |-> e(j)] \in Seq(Events) BY <1>1
  <2>2. [j \in 1 .. 0 |-> e(j)] = <<>> OBVIOUS
  <2>3. PICK a \in Seq(Events) : a = [j \in 1 .. n |-> e(j)] BY <2>1
  <2>4. PICK b \in Seq(Events) : b = [j \in 1 .. n + 1 |-> e(j)]
    <3>1. n + 1 \in Nat OBVIOUS
    <3> QED BY <2>1, <3>1
  <2>5. Len(a) = n /\ Len(b) = n + 1 BY <2>3, <2>4
  <2>6. e(n + 1) \in Events BY <1>1
  <2>7. /\ Append(a, e(n + 1)) \in Seq(Events) /\ Len(Append(a, e(n + 1))) = n + 1
        /\ \A j \in 1 .. n : Append(a, e(n + 1))[j] = a[j]
        /\ Append(a, e(n + 1))[n + 1] = e(n + 1)
    BY <2>5, <2>6, AppendProperties
  <2>8. \A j \in 1 .. n + 1 : b[j] = Append(a, e(n + 1))[j]
    BY <2>3, <2>4, <2>7
  <2>9. b = Append(a, e(n + 1)) BY <2>5, <2>7, <2>8, SeqEqual
  <2> QED BY <2>1, <2>2, <2>3, <2>4, <2>9
<1> QED BY <1>2 DEF WriteBytes, e

\* The first j bytes of a buffer begin it.
LEMMA WriteBegins ==
  ASSUME NEW k \in Nat, NEW n \in Nat, NEW j \in 0 .. n
  PROVE  Begins(Events, WriteBytes(k, j), WriteBytes(k, n))
<1> DEFINE P == {m \in Nat : j <= m => Begins(Events, WriteBytes(k, j), WriteBytes(k, m))}
<1>0. \A m \in Nat : WriteBytes(k, m) \in Seq(Events) BY BytesOfWrite
<1>1. 0 \in P
  <2> SUFFICES ASSUME j <= 0
               PROVE  Begins(Events, WriteBytes(k, j), WriteBytes(k, 0))
    OBVIOUS
  <2>1. j = 0 OBVIOUS
  <2> QED BY <1>0, <2>1, BeginsSelf
<1>2. ASSUME NEW m \in Nat, m \in P PROVE m + 1 \in P
  <2> SUFFICES ASSUME j <= m + 1
               PROVE  Begins(Events, WriteBytes(k, j), WriteBytes(k, m + 1))
    OBVIOUS
  <2>1. CASE j = m + 1 BY <1>0, <2>1, BeginsSelf
  <2>2. CASE j <= m
    <3>1. PICK r \in Seq(Events) : WriteBytes(k, j) \o r = WriteBytes(k, m)
      BY <1>2, <2>2 DEF Begins
    <3>2. PICK a \in Seq(Events) : a = WriteBytes(k, j) BY <1>0
    <3>0. m + 1 \in Nat OBVIOUS
    <3>3. PICK x \in Events : x = <<"data", k, m + 1>> BY <3>0, EventKinds
    <3>4. a \o Append(r, x) = Append(a \o r, x) BY <3>1, <3>2, <3>3, ConcatAppend
    <3>5. WriteBytes(k, m + 1) = Append(WriteBytes(k, m), x) BY <3>3, BytesOfWrite
    <3>6. Append(r, x) \in Seq(Events) BY <3>1, <3>3, AppendProperties
    <3> QED BY <3>1, <3>2, <3>4, <3>5, <3>6 DEF Begins
  <2> QED BY <2>1, <2>2
<1> HIDE DEF P
<1>3. \A m \in Nat : m \in P BY <1>1, <1>2, SetInduction
<1> QED BY <1>3 DEF P

\* The pieces of a transaction are sequences of events.
LEMMA PiecesTypes ==
  ASSUME NEW prog \in Seq(Operations)
  PROVE  /\ BusPieces(prog) \in Seq(Seq(Events)) /\ Len(BusPieces(prog)) = Len(prog)
         /\ OnTheBus(prog) \in Seq(Events)
         /\ \A k \in 1 .. Len(prog) :
              /\ prog[k] \in Operations /\ k \in Nat
              /\ StartOf(prog, k) \in Seq(Events)
              /\ BusPieces(prog)[k] =
                   StartOf(prog, k) \o (IF prog[k].read THEN <<>> ELSE WriteBytes(k, prog[k].len))
<1>1. Len(prog) \in Nat /\ \A k \in 1 .. Len(prog) : prog[k] \in Operations
  BY LenProperties, ElementOfSeq
<1>2. ASSUME NEW k \in 1 .. Len(prog) PROVE StartOf(prog, k) \in Seq(Events)
  <2>1. prog[k].read \in BOOLEAN BY <1>1, <1>2 DEF Operations
  <2>2. PICK a \in Events : a = <<"addr", prog[k].read>> BY <2>1, EventKinds
  <2>3. PICK s \in Events : s = <<"S">> BY EventKinds
  <2>4. PICK r \in Events : r = <<"Sr">> BY EventKinds
  <2>5. <<>> \in Seq(Events) /\ <<s, a>> \in Seq(Events) /\ <<r, a>> \in Seq(Events)
    OBVIOUS
  <2> QED BY <2>2, <2>3, <2>4, <2>5 DEF StartOf
<1>3. ASSUME NEW k \in 1 .. Len(prog)
      PROVE  (IF prog[k].read THEN <<>> ELSE WriteBytes(k, prog[k].len)) \in Seq(Events)
  <2>1. prog[k].len \in Nat BY <1>1, <1>3 DEF Operations
  <2>2. k \in Nat BY <1>1
  <2>3. WriteBytes(k, prog[k].len) \in Seq(Events) BY <2>1, <2>2, BytesOfWrite
  <2>4. <<>> \in Seq(Events) OBVIOUS
  <2> QED BY <2>3, <2>4
<1> DEFINE p(k) == StartOf(prog, k) \o (IF prog[k].read THEN <<>> ELSE WriteBytes(k, prog[k].len))
<1>4. \A k \in 1 .. Len(prog) : p(k) \in Seq(Events)
  BY <1>2, <1>3, ConcatProperties
<1> HIDE DEF p
<1>5. /\ [k \in 1 .. Len(prog) |-> p(k)] \in Seq(Seq(Events))
      /\ Len([k \in 1 .. Len(prog) |-> p(k)]) = Len(prog)
  BY <1>1, <1>4
<1>6. BusPieces(prog) = [k \in 1 .. Len(prog) |-> p(k)] BY DEF BusPieces, p
<1>7. OnTheBus(prog) \in Seq(Events)
  <2>1. Upto(BusPieces(prog), Len(BusPieces(prog))) \in Seq(Events)
    <3>1. Len(BusPieces(prog)) \in 0 .. Len(BusPieces(prog)) BY <1>1, <1>5, <1>6
    <3> QED BY <1>5, <1>6, <3>1, UptoBegins
  <2> QED BY <1>5, <1>6, <2>1, UptoEnds DEF OnTheBus
<1>8. \A k \in 1 .. Len(prog) : BusPieces(prog)[k] = p(k) BY <1>6
<1>9. \A k \in 1 .. Len(prog) : k \in Nat BY <1>1
<1> QED BY <1>1, <1>2, <1>5, <1>6, <1>7, <1>8, <1>9 DEF p

\* What has been driven, after one event more.
LEMMA DrivenAppend ==
  ASSUME NEW w \in Seq(Events), NEW e \in Events
  PROVE  /\ FlattenSeq(DrivenPieces(w)) \in Seq(Events)
         /\ FlattenSeq(DrivenPieces(Append(w, e))) =
              IF e[1] = "byte" THEN FlattenSeq(DrivenPieces(w))
              ELSE Append(FlattenSeq(DrivenPieces(w)), e)
<1> DEFINE x(d) == IF d[1] = "byte" THEN <<>> ELSE <<d>>
<1>1. \A d \in Events : x(d) \in Seq(Events)
  <2> SUFFICES ASSUME NEW d \in Events PROVE x(d) \in Seq(Events)
    OBVIOUS
  <2>1. <<d>> \in Seq(Events) /\ <<>> \in Seq(Events) OBVIOUS
  <2> QED BY <2>1
<1> HIDE DEF x
<1>2. PICK v \in Seq(Events) : v = Append(w, e) BY AppendProperties
<1>3. PICK n \in Nat : n = Len(w) BY LenProperties
<1>4. Len(v) = n + 1 /\ v[n + 1] = e /\ \A i \in 1 .. n : v[i] = w[i]
  BY <1>2, <1>3, AppendProperties
<1>5. \A i \in 1 .. n : w[i] \in Events BY <1>3, ElementOfSeq
<1>6. PICK a \in Seq(Seq(Events)) : a = [i \in 1 .. n |-> x(w[i])]
  <2>1. \A i \in 1 .. n : x(w[i]) \in Seq(Events) BY <1>1, <1>5
  <2>2. [i \in 1 .. n |-> x(w[i])] \in [1 .. n -> Seq(Events)] BY <2>1
  <2>3. [i \in 1 .. n |-> x(w[i])] \in Seq(Seq(Events)) BY <2>2, SeqDef
  <2> QED BY <2>3
<1>7. PICK b \in Seq(Seq(Events)) : b = [i \in 1 .. n + 1 |-> x(v[i])]
  <2>1. \A i \in 1 .. n + 1 : v[i] \in Events BY <1>4, <1>5
  <2>2. \A i \in 1 .. n + 1 : x(v[i]) \in Seq(Events) BY <1>1, <2>1
  <2>3. [i \in 1 .. n + 1 |-> x(v[i])] \in [1 .. n + 1 -> Seq(Events)] BY <2>2
  <2>4. n + 1 \in Nat OBVIOUS
  <2>5. [i \in 1 .. n + 1 |-> x(v[i])] \in Seq(Seq(Events)) BY <2>3, <2>4, SeqDef
  <2> QED BY <2>5
<1>8. b = Append(a, x(e))
  <2>1. Len(a) = n /\ Len(b) = n + 1 BY <1>6, <1>7
  <2>2. /\ Append(a, x(e)) \in Seq(Seq(Events)) /\ Len(Append(a, x(e))) = n + 1
        /\ \A j \in 1 .. n : Append(a, x(e))[j] = a[j]
        /\ Append(a, x(e))[n + 1] = x(e)
    BY <1>1, <2>1, AppendProperties
  <2>3. \A j \in 1 .. n + 1 : b[j] = Append(a, x(e))[j]
    BY <1>4, <1>6, <1>7, <2>2
  <2> QED BY <2>1, <2>2, <2>3, SeqEqual
<1>9. DrivenPieces(w) = a /\ DrivenPieces(v) = b
  BY <1>3, <1>4, <1>6, <1>7 DEF DrivenPieces, x
<1>10. x(e) \in Seq(Events) BY <1>1
<1>11. FlattenSeq(a) \in Seq(Events) /\ FlattenSeq(b) = FlattenSeq(a) \o x(e)
  BY <1>8, <1>10, FlattenAppend
<1>12. PICK f \in Seq(Events) : f = FlattenSeq(a) BY <1>11
<1>13. f \o <<>> = f /\ Append(f, e) = f \o <<e>> BY ConcatEmptySeq, AppendIsConcat
<1>14. x(e) = IF e[1] = "byte" THEN <<>> ELSE <<e>> BY DEF x
<1> QED BY <1>2, <1>9, <1>11, <1>12, <1>13, <1>14

\* An empty wire.
LEMMA DrivenEmpty == FlattenSeq(DrivenPieces(<<>>)) = <<>>
<1>1. DrivenPieces(<<>>) = <<>> BY DEF DrivenPieces
<1> QED BY <1>1, EmptySeq DEF FlattenSeq

\* Under way: the bus is the driver's.
Active == i2pc \in I2cWaits \cup {"enter"}

I2cTypes ==
  /\ i2ops \in Seq(Operations) /\ i2at \in Nat /\ i2byte \in Nat
  /\ i2wire \in Seq(Events) /\ i2pc \in I2cWaits \cup {"idle", "bus", "enter", "done"}
  /\ i2mbb \in BOOLEAN /\ i2mal \in BOOLEAN
  /\ i2shift \in {"none", "addr", "data", "byte"}

\* Who owns the bus, and what can be shifted where the driver stands.
Ownership ==
  /\ ~i2mbb => i2shift = "none"
  /\ Active => i2mbb
  /\ i2pc # "done" => i2result = "none"
  /\ i2pc = "done" /\ i2ops # <<>> => ~i2mbb
  /\ i2pc \in {"idle", "bus"} => i2wire = <<>> /\ i2got = <<>>
  /\ i2pc = "bus" => i2at = 1 /\ i2ops # <<>>
  /\ i2pc = "enter" => ~i2mal /\ i2shift \in {"none", "byte"}
  /\ i2pc = "addr" => /\ i2shift \in {"none", "addr"} /\ (i2mal => i2shift = "none")
                      /\ StartOf(i2ops, i2at) # <<>>
  /\ i2pc = "tx" => i2shift \in {"none", "data"} /\ (i2mal => i2shift = "none")
  /\ i2pc \in {"rx", "tail"} => i2shift \in {"none", "byte"} /\ ~i2mal

\* The operation under way, and the byte of it.
Position ==
  /\ i2pc = "enter" => i2at \in 2 .. Len(i2ops) + 1
  /\ i2pc \in I2cWaits => i2at \in 1 .. Len(i2ops)
  /\ i2pc = "tx" => ~I2cOp.read /\ i2byte \in 1 .. I2cOp.len
  /\ i2pc = "rx" => I2cOp.read /\ i2byte \in 1 .. I2cOp.len
  /\ i2pc = "tail" => I2cOp.read /\ I2cOp.len # 0 /\ IsLast

BusInv == I2cTypes /\ Ownership /\ Position

\* The transaction is not touched.
LEMMA BusQuiet ==
  ASSUME BusInv,
         UNCHANGED <<i2ops, i2at, i2byte, i2pc, i2mal, i2mbb, i2shift, i2wire, i2got, i2result>>
  PROVE  BusInv'
BY DEF BusInv, I2cTypes, Ownership, Position, Active, I2cWaits, I2cOp, IsLast, StartOf

\* Before the first transaction the bus is free.
LEMMA BusStarts == ASSUME I2cInit PROVE BusInv
<1>1. <<>> \in Seq(Events) /\ <<>> \in Seq(Operations) OBVIOUS
<1> QED BY <1>1 DEF I2cInit, BusInv, I2cTypes, Ownership, Position, Active, I2cWaits

\* A call takes the operations and waits for the bus.
LEMMA CallBus ==
  ASSUME BusInv, I2cCall
  PROVE  BusInv'
<1>1. i2ops' \in Seq(Operations) BY ProgramTypes DEF I2cCall
<1> QED BY <1>1 DEF I2cCall, i2sr, BusInv, I2cTypes, Ownership, Position, Active, I2cWaits

\* A call that is over, or dropped, leaves the bus as it is.
LEMMA ReturnBus ==
  ASSUME BusInv, I2cReturn \/ I2cDrop
  PROVE  BusInv'
<1>1. <<>> \in Seq(Events) /\ <<>> \in Seq(Operations) OBVIOUS
<1>2. CASE I2cReturn
  BY <1>1, <1>2 DEF I2cReturn, i2sr, BusInv, I2cTypes, Ownership, Position, Active, I2cWaits
<1>3. CASE I2cDrop
  BY <1>1, <1>3 DEF I2cDrop, i2sr, BusInv, I2cTypes, Ownership, Position, Active, I2cWaits
<1> QED BY <1>2, <1>3

\* An address takes the bus, or keeps it.
LEMMA AddressBus ==
  ASSUME BusInv, NEW e \in {"S", "Sr"}, Address(e), i2mbb', i2ops' = i2ops,
         i2at \in 1 .. Len(i2ops), StartOf(i2ops, i2at) # <<>>, i2result = "none"
  PROVE  BusInv'
<1>1. Append(i2wire, <<e>>) \in Seq(Events)
  <2>1. PICK x \in Events : x = <<e>> BY EventKinds
  <2> QED BY <2>1, AppendProperties DEF BusInv, I2cTypes
<1>2. i2pc' = "addr" /\ i2at' = i2at /\ i2byte' = 0 /\ i2shift' = "addr" /\ i2mal' = FALSE
      /\ i2wire' = Append(i2wire, <<e>>) /\ i2result' = i2result
  BY DEF Address, Transmit, WaitFor
<1>3. StartOf(i2ops, i2at)' = StartOf(i2ops, i2at) BY <1>2 DEF StartOf
<1> QED BY <1>1, <1>2, <1>3 DEF BusInv, I2cTypes, Ownership, Position, Active, I2cWaits

\* Stop frees the bus.
LEMMA FinishBus ==
  ASSUME BusInv, NEW r, Finish(r), i2ops' = i2ops, i2mal' \in BOOLEAN
  PROVE  BusInv'
<1>1. Append(i2wire, <<"P">>) \in Seq(Events)
  <2>1. PICK x \in Events : x = <<"P">> BY EventKinds
  <2> QED BY <2>1, AppendProperties DEF BusInv, I2cTypes
<1>2. i2pc' = "done" /\ i2at' = i2at /\ i2byte' = i2byte /\ i2shift' = "none"
      /\ i2mbb' = FALSE /\ i2wire' = Append(i2wire, <<"P">>)
  BY DEF Finish, Stop
<1> QED BY <1>1, <1>2 DEF BusInv, I2cTypes, Ownership, Position, Active, I2cWaits

\* The next operation is entered with the bus as it is; a byte may be on its
\* way in.
LEMMA EnterBus ==
  ASSUME BusInv, Active, ToOp(i2at + 1), i2at \in 1 .. Len(i2ops),
         UNCHANGED <<i2ops, i2mbb, i2wire, i2result>>, ~i2mal', i2mal' \in BOOLEAN,
         i2shift' \in {"none", "byte"}
  PROVE  BusInv'
<1>1. Len(i2ops) \in Nat /\ i2at + 1 \in 2 .. Len(i2ops) + 1 /\ i2at + 1 \in Nat
  BY LenProperties DEF BusInv, I2cTypes
<1>2. i2pc' = "enter" /\ i2at' = i2at + 1 /\ i2byte' = 0 BY DEF ToOp
<1> QED BY <1>1, <1>2 DEF BusInv, I2cTypes, Ownership, Position, Active, I2cWaits

\* The driver waits for a data byte of the operation under way.
LEMMA WaitBus ==
  ASSUME BusInv, Active, NEW wt \in {"tx", "rx", "tail"}, NEW j \in Nat, WaitFor(wt, j),
         i2at \in 1 .. Len(i2ops),
         UNCHANGED <<i2ops, i2mbb, i2wire, i2result>>, ~i2mal', i2mal' \in BOOLEAN,
         IF wt = "tx" THEN ~I2cOp.read /\ i2shift' \in {"none", "data"}
                      ELSE I2cOp.read /\ i2shift' \in {"none", "byte"},
         IF wt = "tail" THEN I2cOp.len # 0 /\ IsLast ELSE j \in 1 .. I2cOp.len
  PROVE  BusInv'
<1>1. i2pc' = wt /\ i2byte' = j /\ i2at' = i2at BY DEF WaitFor
<1>2. I2cOp' = I2cOp /\ IsLast' = IsLast BY <1>1 DEF I2cOp, IsLast
<1> QED BY <1>1, <1>2 DEF BusInv, I2cTypes, Ownership, Position, Active, I2cWaits

\* An operation is one of the transaction's.
LEMMA OpTypes ==
  ASSUME BusInv, i2at \in 1 .. Len(i2ops)
  PROVE  /\ I2cOp.read \in BOOLEAN /\ I2cOp.len \in Nat /\ Len(i2ops) \in Nat
         /\ StartOf(i2ops, i2at) \in Seq(Events)
<1>1. I2cOp \in Operations BY ElementOfSeq DEF BusInv, I2cTypes, I2cOp
<1>2. StartOf(i2ops, i2at) \in Seq(Events) BY PiecesTypes DEF BusInv, I2cTypes
<1> QED BY <1>1, <1>2, LenProperties DEF Operations, BusInv, I2cTypes

\* Before a transaction, and at its end.
LEMMA StartStepBus == ASSUME BusInv, I2cStart PROVE BusInv'
<1>1. i2at = 1 /\ i2ops # <<>> /\ i2result = "none" BY DEF I2cStart, BusInv, Ownership
<1>2. i2at \in 1 .. Len(i2ops)
  <2>1. Len(i2ops) \in Nat \ {0} BY <1>1, EmptySeq DEF BusInv, I2cTypes
  <2> QED BY <1>1, <2>1
<1>3. StartOf(i2ops, i2at) # <<>> BY <1>1 DEF StartOf
<1> QED BY <1>1, <1>2, <1>3, AddressBus DEF I2cStart, i2call

\* At an operation: STOP, a repeated START, or on with its bytes.
LEMMA EnterStepBus == ASSUME BusInv, I2cEnter PROVE BusInv'
<1>0. /\ i2pc = "enter" /\ Active /\ i2at \in 2 .. Len(i2ops) + 1 /\ i2result = "none"
      /\ i2mbb /\ ~i2mal /\ i2ops' = i2ops /\ Len(i2ops) \in Nat
      /\ i2shift \in {"none", "byte"}
  BY LenProperties DEF I2cEnter, i2call, BusInv, Ownership, Position, Active, I2cTypes
<1>1. CASE i2at > Len(i2ops) /\ Finish("ok") /\ UNCHANGED <<i2mal, i2rxak>>
  <2>1. i2mal' \in BOOLEAN BY <1>1 DEF BusInv, I2cTypes
  <2> QED BY <1>0, <1>1, <2>1, FinishBus
<1>2. CASE i2at <= Len(i2ops) /\ ~SameDirection /\ Address("Sr") /\ UNCHANGED i2mbb
  <2>1. i2at \in 1 .. Len(i2ops) /\ i2at # 1 BY <1>0, <1>2
  <2>2. StartOf(i2ops, i2at) # <<>> BY <1>2, <2>1 DEF StartOf, SameDirection, I2cOp
  <2> QED BY <1>0, <1>2, <2>1, <2>2, AddressBus
<1>3. CASE /\ i2at <= Len(i2ops) /\ FirstByte
           /\ UNCHANGED <<i2sr, i2mbb, i2wire, i2dr, i2got, i2result>>
  <2>1. i2at \in 1 .. Len(i2ops) BY <1>0, <1>3
  <2>2. I2cOp.read \in BOOLEAN /\ I2cOp.len \in Nat BY <2>1, OpTypes
  <2>3. UNCHANGED <<i2ops, i2mbb, i2wire, i2got, i2result>> /\ i2mal' = i2mal BY <1>0, <1>3 DEF i2sr
  <2>4. ~i2mal' /\ i2mal' \in BOOLEAN BY <1>0, <2>3 DEF BusInv, I2cTypes
  <2>5. CASE I2cOp.len = 0
    <3>1. ToOp(i2at + 1) /\ i2shift' = i2shift BY <1>3, <2>5 DEF FirstByte
    <3> QED BY <1>0, <2>1, <2>3, <2>4, <3>1, EnterBus
  <2>6. CASE I2cOp.len # 0 /\ I2cOp.read
    <3>1. WaitFor("rx", 1) /\ i2shift' = i2shift BY <1>3, <2>6 DEF FirstByte
    <3>2. 1 \in 1 .. I2cOp.len BY <2>2, <2>6
    <3> QED BY <1>0, <2>1, <2>3, <2>4, <2>6, <3>1, <3>2, WaitBus
  <2>7. CASE I2cOp.len # 0 /\ ~I2cOp.read
    <3>1. WaitFor("tx", 1) /\ i2shift' = "data" BY <1>3, <2>7 DEF FirstByte, Transmit
    <3>2. 1 \in 1 .. I2cOp.len BY <2>2, <2>7
    <3> QED BY <1>0, <2>1, <2>3, <2>4, <2>7, <3>1, <3>2, WaitBus
  <2> QED BY <2>5, <2>6, <2>7
<1> QED BY <1>1, <1>2, <1>3 DEF I2cEnter

\* A lost byte or a refused one ends the transaction.
LEMMA EndedBus == ASSUME BusInv, I2cLost \/ I2cNack PROVE BusInv'
<1>1. CASE I2cLost
  <2>1. i2mal' \in BOOLEAN BY <1>1 DEF I2cLost
  <2> QED BY <1>1, <2>1, FinishBus DEF I2cLost, i2call
<1>2. CASE I2cNack
  <2>1. i2mal' \in BOOLEAN BY <1>2 DEF I2cNack, BusInv, I2cTypes
  <2> QED BY <1>2, <2>1, FinishBus DEF I2cNack, i2call
<1> QED BY <1>1, <1>2

\* What holds when a byte has been completed.
LEMMA CompletedBus ==
  ASSUME BusInv, NEW wt \in I2cWaits, Completed(wt)
  PROVE  /\ i2pc = wt /\ Active /\ i2at \in 1 .. Len(i2ops) /\ i2result = "none"
         /\ i2shift = "none" /\ ~i2mal
BY DEF Completed, Ready, BusInv, Ownership, Position, Active, I2cWaits

\* After an acknowledged address.
LEMMA AddressedBus == ASSUME BusInv, I2cAddressed PROVE BusInv'
<1>1. Active /\ i2at \in 1 .. Len(i2ops) /\ i2shift = "none" /\ ~i2mal
  <2>1. "addr" \in I2cWaits BY DEF I2cWaits
  <2> QED BY <2>1, CompletedBus DEF I2cAddressed
<1>2. I2cOp.read \in BOOLEAN /\ I2cOp.len \in Nat BY <1>1, OpTypes
<1>3. UNCHANGED <<i2ops, i2mbb, i2wire, i2got, i2result>> /\ ~i2mal' /\ i2mal' \in BOOLEAN
  BY <1>1 DEF I2cAddressed, i2call, BusInv, I2cTypes
<1>4. CASE I2cOp.read
  <2>0. FirstReceive BY <1>4 DEF I2cAddressed
  <2>1. CASE I2cOp.len = 0
    <3>1. ToOp(i2at + 1) /\ i2shift' = "byte" BY <2>0, <2>1 DEF FirstReceive, Receive
    <3> QED BY <1>1, <1>3, <3>1, EnterBus
  <2>2. CASE I2cOp.len # 0
    <3>1. WaitFor("rx", 1) /\ i2shift' = "byte" BY <2>0, <2>2 DEF FirstReceive, Receive
    <3>2. 1 \in 1 .. I2cOp.len BY <1>2, <2>2
    <3> QED BY <1>1, <1>3, <1>4, <3>1, <3>2, WaitBus
  <2> QED BY <2>1, <2>2
<1>5. CASE ~I2cOp.read
  <2>0. FirstByte BY <1>5 DEF I2cAddressed
  <2>1. CASE I2cOp.len = 0
    <3>1. ToOp(i2at + 1) /\ i2shift' = i2shift BY <2>0, <2>1 DEF FirstByte
    <3> QED BY <1>1, <1>3, <3>1, EnterBus
  <2>2. CASE I2cOp.len # 0
    <3>1. WaitFor("tx", 1) /\ i2shift' = "data" BY <1>5, <2>0, <2>2 DEF FirstByte, Transmit
    <3>2. 1 \in 1 .. I2cOp.len BY <1>2, <2>2
    <3> QED BY <1>1, <1>3, <1>5, <3>1, <3>2, WaitBus
  <2> QED BY <2>1, <2>2
<1> QED BY <1>4, <1>5

\* After a byte written.
LEMMA TransmitBus == ASSUME BusInv, I2cTransmitData PROVE BusInv'
<1>1. Active /\ i2pc = "tx" /\ i2at \in 1 .. Len(i2ops) /\ i2shift = "none" /\ ~i2mal
  <2>1. "tx" \in I2cWaits BY DEF I2cWaits
  <2> QED BY <2>1, CompletedBus DEF I2cTransmitData
<1>2. ~I2cOp.read /\ i2byte \in 1 .. I2cOp.len /\ I2cOp.len \in Nat
  BY <1>1, OpTypes DEF BusInv, Position
<1>3. UNCHANGED <<i2ops, i2mbb, i2wire, i2got, i2result>> /\ ~i2mal' /\ i2mal' \in BOOLEAN
  BY <1>1 DEF I2cTransmitData, i2call, BusInv, I2cTypes
<1>4. CASE i2byte < I2cOp.len /\ WaitFor("tx", i2byte + 1) /\ Transmit("data")
  <2>1. PICK j \in Nat : j = i2byte + 1 BY <1>2
  <2>2. j \in 1 .. I2cOp.len BY <1>2, <1>4, <2>1
  <2> QED BY <1>1, <1>2, <1>3, <1>4, <2>1, <2>2, WaitBus DEF Transmit
<1>5. CASE ToOp(i2at + 1) /\ UNCHANGED i2shift
  BY <1>1, <1>3, <1>5, EnterBus
<1> QED BY <1>4, <1>5 DEF I2cTransmitData

\* After a byte received.
LEMMA ReceiveBus == ASSUME BusInv, I2cReceiveData PROVE BusInv'
<1>1. Active /\ i2pc = "rx" /\ i2at \in 1 .. Len(i2ops) /\ i2shift = "none" /\ ~i2mal
  <2>1. "rx" \in I2cWaits BY DEF I2cWaits
  <2> QED BY <2>1, CompletedBus DEF I2cReceiveData
<1>2. I2cOp.read /\ i2byte \in 1 .. I2cOp.len /\ I2cOp.len \in Nat /\ Len(i2ops) \in Nat
  BY <1>1, OpTypes DEF BusInv, Position
<1>3. /\ UNCHANGED <<i2ops, i2mbb, i2wire, i2result>> /\ ~i2mal' /\ i2mal' \in BOOLEAN
      /\ i2shift' = "byte"
  BY <1>1 DEF I2cReceiveData, Receive, i2call, BusInv, I2cTypes
<1>4. CASE i2byte < I2cOp.len /\ WaitFor("rx", i2byte + 1)
  <2>1. PICK j \in Nat : j = i2byte + 1 BY <1>2
  <2>2. j \in 1 .. I2cOp.len BY <1>2, <1>4, <2>1
  <2> QED BY <1>1, <1>2, <1>3, <1>4, <2>1, <2>2, WaitBus
<1>5. CASE IsLast /\ WaitFor("tail", 0)
  <2>1. I2cOp.len # 0 BY <1>2
  <2> QED BY <1>1, <1>2, <1>3, <1>5, <2>1, WaitBus
<1>6. CASE ToOp(i2at + 1)
  BY <1>1, <1>3, <1>6, EnterBus
<1> QED BY <1>4, <1>5, <1>6 DEF I2cReceiveData

\* After the trailing byte.
LEMMA TailBus == ASSUME BusInv, I2cTail PROVE BusInv'
<1>1. Active /\ i2at \in 1 .. Len(i2ops) /\ i2shift = "none" /\ ~i2mal
  <2>1. "tail" \in I2cWaits BY DEF I2cWaits
  <2> QED BY <2>1, CompletedBus DEF I2cTail
<1>2. /\ UNCHANGED <<i2ops, i2mbb, i2wire, i2got, i2result>> /\ ~i2mal' /\ i2mal' \in BOOLEAN
      /\ i2shift' = i2shift /\ ToOp(i2at + 1)
  BY <1>1 DEF I2cTail, i2call, BusInv, I2cTypes
<1> QED BY <1>1, <1>2, EnterBus

\* The wire: what a byte that ends leaves there.
LEMMA ShiftedByte ==
  ASSUME BusInv, I2cShift
  PROVE  \/ i2wire' = i2wire /\ i2pc \in {"idle", "bus"}
         \/ /\ i2pc \notin {"idle", "bus"}
            /\ \E e \in Events :
                 /\ i2wire' = Append(i2wire, e)
                 /\ \/ i2shift = "byte" /\ e = <<"byte", "TXAK" \notin i2cr>>
                    \/ /\ i2shift = "addr" /\ e[1] = "addr"
                       /\ i2pc = "addr" => e = <<"addr", I2cOp.read>>
                    \/ i2shift = "data" /\ e = <<"data", i2at, i2byte>>
<1>1. CASE i2pc \in {"idle", "bus"} BY <1>1 DEF I2cShift, Record
<1>2. CASE i2pc \notin {"idle", "bus"}
  <2>1. CASE i2shift = "byte" /\ Record(<<"byte", "TXAK" \notin i2cr>>)
    <3>1. PICK b \in BOOLEAN : b = ("TXAK" \notin i2cr) OBVIOUS
    <3>2. <<"byte", b>> \in Events BY EventKinds
    <3> QED BY <1>2, <2>1, <3>1, <3>2 DEF Record
  <2>2. CASE i2shift = "addr" /\ Record(<<"addr", i2pc = "addr" /\ I2cOp.read>>)
    <3>1. PICK b \in BOOLEAN : b = (i2pc = "addr" /\ I2cOp.read)
      <4>1. (i2pc = "addr" /\ I2cOp.read) \in BOOLEAN OBVIOUS
      <4> QED BY <4>1
    <3>2. PICK e \in Events : e = <<"addr", b>> BY EventKinds
    <3>3. i2pc = "addr" => b = I2cOp.read
      <4>1. i2pc = "addr" => I2cOp.read \in BOOLEAN
        BY OpTypes DEF BusInv, Position, I2cWaits
      <4> QED BY <3>1, <4>1
    <3>4. i2wire' = Append(i2wire, e) BY <1>2, <2>2, <3>1, <3>2 DEF Record
    <3>5. e[1] = "addr" BY <3>2
    <3> QED BY <1>2, <2>2, <3>2, <3>3, <3>4, <3>5
  <2>3. CASE i2shift = "data" /\ Record(<<"data", i2at, i2byte>>)
    <3>1. <<"data", i2at, i2byte>> \in Events BY EventKinds DEF BusInv, I2cTypes
    <3> QED BY <1>2, <2>3, <3>1 DEF Record
  <2> QED BY <2>1, <2>2, <2>3 DEF I2cShift
<1> QED BY <1>1, <1>2

\* The end of a byte keeps the driver's place.
LEMMA ShiftBus == ASSUME BusInv, I2cShift PROVE BusInv'
<1>1. i2wire' \in Seq(Events) /\ (i2pc \in {"idle", "bus"} => i2wire' = i2wire)
  <2>1. i2wire' = i2wire \/ \E e \in Events : i2wire' = Append(i2wire, e)
    BY ShiftedByte
  <2>2. i2wire' \in Seq(Events) BY <2>1, AppendProperties DEF BusInv, I2cTypes
  <2> QED BY <2>2, ShiftedByte
<1>2. /\ i2shift' = "none"
      /\ UNCHANGED <<i2ops, i2at, i2byte, i2pc, i2mal, i2mbb, i2got, i2result>>
  BY DEF I2cShift, i2call
<1> QED BY <1>1, <1>2 DEF BusInv, I2cTypes, Ownership, Position, Active, I2cWaits, I2cOp,
           IsLast, StartOf

\* So does the loss of one.
LEMMA ArbitrationBus == ASSUME BusInv, I2cArbitration PROVE BusInv'
<1>1. /\ i2shift' = "none" /\ i2mal' = TRUE /\ i2shift \in {"addr", "data"}
      /\ UNCHANGED <<i2ops, i2at, i2byte, i2pc, i2wire, i2mbb, i2got, i2result>>
  BY DEF I2cArbitration, i2call
<1> QED BY <1>1 DEF BusInv, I2cTypes, Ownership, Position, Active, I2cWaits, I2cOp, IsLast,
           StartOf

\* The steps that touch neither the bus nor the transaction.
Aside == I2cPark \/ I2cResume \/ I2cWakeOther \/ I2cIsr

\* They leave all that the invariants speak of alone.
LEMMA AsideBus ==
  ASSUME Aside \/ UNCHANGED i2vars
  PROVE  /\ UNCHANGED <<i2ops, i2at, i2byte, i2pc, i2mal, i2mbb, i2shift, i2wire, i2got,
                        i2result, i2dr>>
         /\ "TXAK" \in i2cr' <=> "TXAK" \in i2cr
BY DEF Aside, I2cPark, I2cResume, I2cWakeOther, I2cIsr, i2vars, i2call, i2task, i2sr

\* Every step keeps to its owner's place.
LEMMA BusStep == ASSUME BusInv, [I2cNext]_i2vars PROVE BusInv'
<1>1. CASE Aside \/ UNCHANGED i2vars BY <1>1, AsideBus, BusQuiet
<1> QED BY <1>1, CallBus, ReturnBus, StartStepBus, EnterStepBus, EndedBus, AddressedBus,
           TransmitBus, ReceiveBus, TailBus, ShiftBus, ArbitrationBus
        DEF I2cNext, I2cDriver, Aside

\* What the operations before operation k mean on the bus.
BeforeOp(k) == Upto(BusPieces(i2ops), k - 1)
Opening == StartOf(i2ops, i2at)

\* What has been driven, where the driver stands: the address counts when it has
\* been shifted, and so does each byte.
WireInv ==
  /\ i2pc = "enter" => Driven = BeforeOp(i2at)
  /\ i2pc = "addr" =>
       Driven = BeforeOp(i2at) \o (IF i2shift = "addr" \/ i2mal THEN <<Opening[1]>> ELSE Opening)
  /\ i2pc = "tx" =>
       Driven = BeforeOp(i2at) \o
                (Opening \o WriteBytes(i2at, IF i2shift = "data" \/ i2mal THEN i2byte - 1 ELSE i2byte))
  /\ i2pc \in {"rx", "tail"} => Driven = BeforeOp(i2at) \o Opening
  /\ i2pc = "done" /\ i2ops # <<>> =>
       \E d \in Seq(Events) :
         /\ Driven = Append(d, <<"P">>) /\ Begins(Events, d, OnTheBus(i2ops))
         /\ i2result = "ok" => d = OnTheBus(i2ops)

\* The piece of an operation: its opening, and the bytes of a write.
LEMMA PieceOfOp ==
  ASSUME BusInv, i2at \in 1 .. Len(i2ops)
  PROVE  /\ BeforeOp(i2at) \in Seq(Events) /\ BeforeOp(i2at + 1) \in Seq(Events)
         /\ Opening \in Seq(Events)
         /\ I2cOp.read => BeforeOp(i2at + 1) = BeforeOp(i2at) \o Opening
         /\ ~I2cOp.read => BeforeOp(i2at + 1) =
                             BeforeOp(i2at) \o (Opening \o WriteBytes(i2at, I2cOp.len))
         /\ Begins(Events, BeforeOp(i2at + 1), OnTheBus(i2ops))
<1>1. PICK p \in Seq(Seq(Events)) : p = BusPieces(i2ops)
  BY PiecesTypes DEF BusInv, I2cTypes
<1>2. /\ Len(p) = Len(i2ops) /\ Len(i2ops) \in Nat
      /\ Opening \in Seq(Events) /\ OnTheBus(i2ops) = FlattenSeq(p)
      /\ p[i2at] = Opening \o (IF I2cOp.read THEN <<>> ELSE WriteBytes(i2at, I2cOp.len))
  BY <1>1, PiecesTypes, LenProperties DEF BusInv, I2cTypes, Opening, I2cOp, OnTheBus
<1>3. i2at \in 1 .. Len(p) /\ i2at \in 0 .. Len(p) /\ i2at + 1 - 1 = i2at BY <1>2
<1>4. /\ Upto(p, i2at - 1) \in Seq(Events) /\ Upto(p, i2at) \in Seq(Events)
      /\ Upto(p, i2at) = Upto(p, i2at - 1) \o p[i2at]
  BY <1>3, UptoStep
<1>5. Begins(Events, Upto(p, i2at), FlattenSeq(p)) BY <1>3, UptoBegins
<1>6. BeforeOp(i2at) = Upto(p, i2at - 1) /\ BeforeOp(i2at + 1) = Upto(p, i2at)
  BY <1>1, <1>3 DEF BeforeOp
<1>7. Opening \o <<>> = Opening BY <1>2, ConcatEmptySeq
<1> QED BY <1>2, <1>4, <1>5, <1>6, <1>7

\* An opening that is there: START or repeated START, and the address.
LEMMA OpeningIs ==
  ASSUME BusInv, i2at \in 1 .. Len(i2ops)
  PROVE  /\ i2at = 1 => Opening = <<<<"S">>, <<"addr", I2cOp.read>>>>
         /\ i2at # 1 /\ ~SameDirection => Opening = <<<<"Sr">>, <<"addr", I2cOp.read>>>>
         /\ SameDirection => Opening = <<>>
         /\ Opening # <<>> => Opening = Append(<<Opening[1]>>, <<"addr", I2cOp.read>>)
                              /\ Opening[1] \in Events
<1>1. \A a, b : <<a, b>> = Append(<<a>>, b) /\ <<a, b>>[1] = a OBVIOUS
<1>2. <<"S">> \in Events /\ <<"Sr">> \in Events BY EventKinds
<1>3. /\ i2at = 1 => Opening = <<<<"S">>, <<"addr", I2cOp.read>>>>
      /\ i2at # 1 /\ ~SameDirection => Opening = <<<<"Sr">>, <<"addr", I2cOp.read>>>>
      /\ SameDirection => Opening = <<>>
  <2>1. i2at \in Nat /\ i2at >= 1 OBVIOUS
  <2> QED BY <2>1 DEF Opening, StartOf, SameDirection, I2cOp
<1>4. Opening = <<>> \/ Opening = <<<<"S">>, <<"addr", I2cOp.read>>>>
      \/ Opening = <<<<"Sr">>, <<"addr", I2cOp.read>>>>
  BY <1>3
<1> QED BY <1>1, <1>2, <1>3, <1>4

\* Under way, what has been driven begins what the operations mean.
LEMMA WireBegins ==
  ASSUME BusInv, WireInv, Active
  PROVE  Driven \in Seq(Events) /\ Begins(Events, Driven, OnTheBus(i2ops))
<1>1. Driven \in Seq(Events)
  <2>1. <<"P">> \in Events BY EventKinds
  <2> QED BY <2>1, DrivenAppend DEF Driven, BusInv, I2cTypes
<1>2. CASE i2pc = "enter"
  <2>1. PICK p \in Seq(Seq(Events)) : p = BusPieces(i2ops)
    BY PiecesTypes DEF BusInv, I2cTypes
  <2>2. Len(p) = Len(i2ops) /\ Len(i2ops) \in Nat /\ OnTheBus(i2ops) = FlattenSeq(p)
    BY <2>1, PiecesTypes, LenProperties DEF BusInv, I2cTypes, OnTheBus
  <2>3. i2at - 1 \in 0 .. Len(p) BY <1>2, <2>2 DEF BusInv, Position
  <2>4. Begins(Events, Upto(p, i2at - 1), FlattenSeq(p)) BY <2>3, UptoBegins
  <2> QED BY <1>1, <1>2, <2>1, <2>2, <2>4 DEF WireInv, BeforeOp
<1>3. ASSUME i2pc \in I2cWaits
      PROVE  /\ i2at \in 1 .. Len(i2ops) /\ i2at \in Nat
             /\ \E a \in Seq(Events) : a = BeforeOp(i2at)
             /\ \E o \in Seq(Events) : o = Opening
             /\ I2cOp.read \in BOOLEAN /\ I2cOp.len \in Nat
  BY <1>3, PieceOfOp, OpTypes DEF BusInv, Position, I2cTypes
<1>4. ASSUME i2pc \in I2cWaits
      PROVE  Begins(Events, BeforeOp(i2at) \o Opening, OnTheBus(i2ops))
  <2>1. PICK a \in Seq(Events) : a = BeforeOp(i2at) BY <1>3, <1>4
  <2>2. PICK o \in Seq(Events) : o = Opening BY <1>3, <1>4
  <2>3. CASE I2cOp.read BY <1>3, <1>4, <2>3, PieceOfOp
  <2>4. CASE ~I2cOp.read
    <3>1. PICK w \in Seq(Events) : w = WriteBytes(i2at, I2cOp.len)
      BY <1>3, <1>4, BytesOfWrite
    <3>2. Begins(Events, a \o (o \o w), OnTheBus(i2ops))
      BY <1>3, <1>4, <2>1, <2>2, <2>4, <3>1, PieceOfOp
    <3>3. Begins(Events, a \o o, OnTheBus(i2ops)) BY <2>1, <2>2, <3>1, <3>2, BeginsFirst
    <3> QED BY <2>1, <2>2, <3>3
  <2> QED BY <2>3, <2>4
<1>5. CASE i2pc = "addr"
  <2>1. i2pc \in I2cWaits BY <1>5 DEF I2cWaits
  <2>2. Opening # <<>> BY <1>5 DEF BusInv, Ownership, Opening
  <2>3. PICK a \in Seq(Events) : a = BeforeOp(i2at) BY <1>3, <2>1
  <2>4. PICK s \in Events : s = Opening[1] BY <1>3, <2>1, <2>2, OpeningIs
  <2>5. PICK e \in Events : e = <<"addr", I2cOp.read>> BY <1>3, <2>1, EventKinds
  <2>6. Opening = Append(<<s>>, e) BY <1>3, <2>1, <2>2, <2>4, <2>5, OpeningIs
  <2>7. <<s>> \in Seq(Events) /\ <<e>> \in Seq(Events) /\ Append(<<s>>, e) = <<s>> \o <<e>>
    BY AppendIsConcat
  <2>8. Begins(Events, a \o (<<s>> \o <<e>>), OnTheBus(i2ops))
    BY <1>4, <2>1, <2>3, <2>6, <2>7
  <2>9. Begins(Events, a \o <<s>>, OnTheBus(i2ops)) BY <2>3, <2>7, <2>8, BeginsFirst
  <2> QED BY <1>1, <1>4, <1>5, <2>1, <2>3, <2>4, <2>9 DEF WireInv
<1>6. CASE i2pc = "tx"
  <2>1. i2pc \in I2cWaits BY <1>6 DEF I2cWaits
  <2>2. ~I2cOp.read /\ i2byte \in 1 .. I2cOp.len BY <1>6 DEF BusInv, Position
  <2>3. PICK j \in Nat : j = (IF i2shift = "data" \/ i2mal THEN i2byte - 1 ELSE i2byte)
    BY <2>2
  <2>4. PICK n \in Nat : n = I2cOp.len BY <1>3, <2>1
  <2>5. j \in 0 .. n BY <2>2, <2>3, <2>4
  <2>6. PICK a \in Seq(Events) : a = BeforeOp(i2at) BY <1>3, <2>1
  <2>7. PICK o \in Seq(Events) : o = Opening BY <1>3, <2>1
  <2>8. PICK b \in Seq(Events) : b = WriteBytes(i2at, j) BY <1>3, <2>1, BytesOfWrite
  <2>9. PICK r \in Seq(Events) : b \o r = WriteBytes(i2at, n)
    <3>1. Begins(Events, WriteBytes(i2at, j), WriteBytes(i2at, n))
      BY <1>3, <2>1, <2>5, WriteBegins
    <3> QED BY <2>8, <3>1 DEF Begins
  <2>10. Begins(Events, a \o (o \o (b \o r)), OnTheBus(i2ops))
    BY <1>3, <2>1, <2>2, <2>4, <2>6, <2>7, <2>9, PieceOfOp
  <2>11. Begins(Events, a \o (o \o b), OnTheBus(i2ops)) BY <2>10, BeginsWithin
  <2> QED BY <1>1, <1>6, <2>3, <2>6, <2>7, <2>8, <2>11 DEF WireInv
<1>7. CASE i2pc \in {"rx", "tail"}
  <2>1. i2pc \in I2cWaits BY <1>7 DEF I2cWaits
  <2> QED BY <1>1, <1>4, <1>7, <2>1 DEF WireInv
<1> QED BY <1>2, <1>5, <1>6, <1>7 DEF Active, I2cWaits

\* One event more on the wire.
LEMMA DrivenGrows ==
  ASSUME BusInv, NEW e \in Events, i2wire' = Append(i2wire, e)
  PROVE  /\ Driven \in Seq(Events)
         /\ Driven' = IF e[1] = "byte" THEN Driven ELSE Append(Driven, e)
<1>1. Driven' = FlattenSeq(DrivenPieces(Append(i2wire, e))) BY DEF Driven
<1> QED BY <1>1, DrivenAppend DEF Driven, BusInv, I2cTypes

\* The operations, and so what they mean, do not change under way.
LEMMA MeaningKept ==
  ASSUME i2ops' = i2ops
  PROVE  /\ \A k : BeforeOp(k)' = BeforeOp(k')
         /\ OnTheBus(i2ops)' = OnTheBus(i2ops)
         /\ i2at' = i2at => BeforeOp(i2at)' = BeforeOp(i2at) /\ Opening' = Opening
                            /\ I2cOp' = I2cOp
BY DEF BeforeOp, Opening, StartOf, I2cOp, OnTheBus, BusPieces, WriteBytes

\* Entering the next operation: all of this one is on the bus.
LEMMA EnterWire ==
  ASSUME BusInv, i2at \in 1 .. Len(i2ops), ToOp(i2at + 1), i2ops' = i2ops, i2wire' = i2wire,
         Driven = BeforeOp(i2at + 1)
  PROVE  WireInv'
<1>1. i2pc' = "enter" /\ i2at' = i2at + 1 BY DEF ToOp
<1>2. BeforeOp(i2at)' = BeforeOp(i2at + 1) BY <1>1 DEF BeforeOp, BusPieces, StartOf, WriteBytes
<1>3. Driven' = Driven BY DEF Driven, DrivenPieces
<1> QED BY <1>1, <1>2, <1>3 DEF WireInv

\* Waiting for a byte of this operation.
LEMMA WaitWire ==
  ASSUME BusInv, i2at \in 1 .. Len(i2ops), NEW wt \in {"tx", "rx", "tail"}, NEW j \in Nat,
         WaitFor(wt, j), i2ops' = i2ops, i2wire' = i2wire,
         IF wt = "tx" THEN j # 0 /\ i2shift' = "data"
                           /\ Driven = BeforeOp(i2at) \o (Opening \o WriteBytes(i2at, j - 1))
                      ELSE Driven = BeforeOp(i2at) \o Opening
  PROVE  WireInv'
<1>1. i2pc' = wt /\ i2at' = i2at /\ i2byte' = j BY DEF WaitFor
<1>2. BeforeOp(i2at)' = BeforeOp(i2at) /\ Opening' = Opening BY <1>1, MeaningKept
<1>3. Driven' = Driven BY DEF Driven, DrivenPieces
<1>4. wt = "tx" =>
        WriteBytes(i2at, IF i2shift = "data" \/ i2mal THEN i2byte - 1 ELSE i2byte)'
          = WriteBytes(i2at, j - 1)
  BY <1>1 DEF WriteBytes
<1> QED BY <1>1, <1>2, <1>3, <1>4 DEF WireInv

\* The end of a transaction: STOP after a beginning of what it means.
LEMMA FinishWire ==
  ASSUME BusInv, WireInv, Active, NEW r, Finish(r), i2ops' = i2ops,
         r = "ok" => Driven = OnTheBus(i2ops)
  PROVE  WireInv'
<1>1. PICK e \in Events : e = <<"P">> BY EventKinds
<1>2. e[1] # "byte" BY <1>1
<1>3. i2pc' = "done" /\ i2result' = r /\ i2wire' = Append(i2wire, e)
  BY <1>1 DEF Finish, Stop
<1>4. Driven' = Append(Driven, <<"P">>) /\ Driven \in Seq(Events) BY <1>1, <1>2, <1>3, DrivenGrows
<1>5. OnTheBus(i2ops)' = OnTheBus(i2ops) BY MeaningKept
<1>6. Begins(Events, Driven, OnTheBus(i2ops)) BY WireBegins
<1> QED BY <1>3, <1>4, <1>5, <1>6 DEF WireInv

\* START, or repeated START.
LEMMA AddressWire ==
  ASSUME BusInv, i2at \in 1 .. Len(i2ops), NEW s \in {"S", "Sr"}, Address(s), i2ops' = i2ops,
         Opening[1] = <<s>>, Driven = BeforeOp(i2at)
  PROVE  WireInv'
<1>1. PICK e \in Events : e = <<s>> BY EventKinds
<1>2. e[1] # "byte" BY <1>1
<1>3. i2pc' = "addr" /\ i2at' = i2at /\ i2shift' = "addr" /\ i2wire' = Append(i2wire, e)
  BY <1>1 DEF Address, WaitFor, Transmit
<1>4. Driven' = Append(Driven, e) BY <1>2, <1>3, DrivenGrows
<1>5. BeforeOp(i2at)' = BeforeOp(i2at) /\ Opening' = Opening BY <1>3, MeaningKept
<1>6. Append(BeforeOp(i2at), e) = BeforeOp(i2at) \o <<e>>
  <2>1. PICK a \in Seq(Events) : a = BeforeOp(i2at) BY PieceOfOp
  <2> QED BY <2>1, AppendIsConcat
<1> QED BY <1>1, <1>3, <1>4, <1>5, <1>6 DEF WireInv

\* START, when the bus is free.
LEMMA StartStepWire == ASSUME BusInv, WireInv, I2cStart PROVE WireInv'
<1>1. i2at = 1 /\ i2ops # <<>> /\ i2wire = <<>> BY DEF I2cStart, BusInv, Ownership
<1>2. i2at \in 1 .. Len(i2ops)
  <2>1. Len(i2ops) \in Nat \ {0} BY <1>1, EmptySeq DEF BusInv, I2cTypes
  <2> QED BY <1>1, <2>1
<1>3. Driven = <<>> BY <1>1, DrivenEmpty DEF Driven
<1>4. BeforeOp(i2at) = <<>>
  <2>1. BusPieces(i2ops) \in Seq(Seq(Events)) BY PiecesTypes DEF BusInv, I2cTypes
  <2>2. Upto(BusPieces(i2ops), 0) = <<>> BY <2>1, UptoEnds
  <2> QED BY <1>1, <2>2 DEF BeforeOp
<1>5. Opening[1] = <<"S">> BY <1>1, <1>2, OpeningIs
<1> QED BY <1>2, <1>3, <1>4, <1>5, AddressWire DEF I2cStart, i2call

\* Entering an operation: STOP, a repeated START, or on with the bytes.
LEMMA EnterStepWire == ASSUME BusInv, WireInv, I2cEnter PROVE WireInv'
<1>0. /\ i2pc = "enter" /\ Active /\ i2at \in 2 .. Len(i2ops) + 1 /\ i2ops' = i2ops
      /\ Len(i2ops) \in Nat /\ Driven = BeforeOp(i2at)
  BY LenProperties DEF I2cEnter, i2call, BusInv, Position, Active, I2cTypes, WireInv
<1>1. CASE i2at > Len(i2ops) /\ Finish("ok")
  <2>1. PICK p \in Seq(Seq(Events)) : p = BusPieces(i2ops)
    BY PiecesTypes DEF BusInv, I2cTypes
  <2>2. Len(p) = Len(i2ops) /\ OnTheBus(i2ops) = FlattenSeq(p)
    BY <2>1, PiecesTypes DEF BusInv, I2cTypes, OnTheBus
  <2>3. i2at - 1 = Len(p) BY <1>0, <1>1, <2>2
  <2>4. Driven = OnTheBus(i2ops) BY <1>0, <2>1, <2>2, <2>3, UptoEnds DEF BeforeOp
  <2> QED BY <1>0, <1>1, <2>4, FinishWire
<1>2. CASE i2at <= Len(i2ops) /\ ~SameDirection /\ Address("Sr")
  <2>1. i2at \in 1 .. Len(i2ops) /\ i2at # 1 BY <1>0, <1>2
  <2>2. Opening[1] = <<"Sr">> BY <1>2, <2>1, OpeningIs
  <2> QED BY <1>0, <1>2, <2>1, <2>2, AddressWire
<1>3. CASE i2at <= Len(i2ops) /\ SameDirection /\ FirstByte /\ UNCHANGED i2wire
  <2>1. i2at \in 1 .. Len(i2ops) BY <1>0, <1>3
  <2>2. PICK a \in Seq(Events) : a = BeforeOp(i2at) BY <2>1, PieceOfOp
  <2>3. Opening = <<>> BY <1>3, <2>1, OpeningIs
  <2>4. a \o <<>> = a BY ConcatEmptySeq
  <2>5. Driven = BeforeOp(i2at) \o Opening BY <1>0, <2>2, <2>3, <2>4
  <2>6. I2cOp.read \in BOOLEAN /\ I2cOp.len \in Nat /\ i2at \in Nat BY <2>1, OpTypes
  <2>7. <<>> \o <<>> = <<>> OBVIOUS
  <2>8. Driven = BeforeOp(i2at) \o (Opening \o WriteBytes(i2at, 0))
    BY <2>3, <2>5, <2>6, <2>7, BytesOfWrite
  <2>9. CASE I2cOp.len = 0
    <3>1. ToOp(i2at + 1) BY <1>3, <2>9 DEF FirstByte
    <3>2. Driven = BeforeOp(i2at + 1) BY <2>1, <2>5, <2>6, <2>8, <2>9, PieceOfOp
    <3> QED BY <1>0, <1>3, <2>1, <3>1, <3>2, EnterWire
  <2>10. CASE I2cOp.len # 0 /\ I2cOp.read
    <3>1. WaitFor("rx", 1) BY <1>3, <2>10 DEF FirstByte
    <3> QED BY <1>0, <1>3, <2>1, <2>5, <3>1, WaitWire
  <2>11. CASE I2cOp.len # 0 /\ ~I2cOp.read
    <3>1. WaitFor("tx", 1) /\ i2shift' = "data" BY <1>3, <2>11 DEF FirstByte, Transmit
    <3>2. PICK j \in Nat : j = 1 OBVIOUS
    <3>3. j # 0 /\ j - 1 = 0 BY <3>2
    <3>4. WaitFor("tx", j) BY <3>1, <3>2
    <3>5. Driven = BeforeOp(i2at) \o (Opening \o WriteBytes(i2at, j - 1)) BY <2>8, <3>3
    <3> QED BY <1>0, <1>3, <2>1, <3>1, <3>3, <3>4, <3>5, WaitWire
  <2> QED BY <2>9, <2>10, <2>11
<1> QED BY <1>1, <1>2, <1>3 DEF I2cEnter

\* A transaction that fails stops where it is.
LEMMA EndedWire == ASSUME BusInv, WireInv, I2cLost \/ I2cNack PROVE WireInv'
<1>1. Active BY DEF I2cLost, I2cNack, Completed, Active, I2cWaits
<1>2. i2ops' = i2ops BY DEF I2cLost, I2cNack, i2call
<1>3. \E r : r # "ok" /\ Finish(r)
  <2>1. CASE I2cLost BY <2>1 DEF I2cLost
  <2>2. CASE I2cNack
    <3>1. PICK r : r = (IF i2pc = "addr" THEN "no ack: address" ELSE "no ack: data") OBVIOUS
    <3>2. Finish(r) BY <2>2, <3>1 DEF I2cNack
    <3>3. r # "ok" BY <3>1
    <3> QED BY <3>2, <3>3
  <2> QED BY <2>1, <2>2
<1>4. PICK r : r # "ok" /\ Finish(r) BY <1>3
<1> QED BY <1>1, <1>2, <1>4, FinishWire

\* After an address.
LEMMA AddressedWire == ASSUME BusInv, WireInv, I2cAddressed PROVE WireInv'
<1>1. i2pc = "addr" /\ i2at \in 1 .. Len(i2ops) /\ i2shift = "none" /\ ~i2mal
  <2>1. "addr" \in I2cWaits BY DEF I2cWaits
  <2> QED BY <2>1, CompletedBus DEF I2cAddressed
<1>2. I2cOp.read \in BOOLEAN /\ I2cOp.len \in Nat /\ i2at \in Nat BY <1>1, OpTypes
<1>3. i2ops' = i2ops /\ i2wire' = i2wire BY DEF I2cAddressed, i2call
<1>4. Driven = BeforeOp(i2at) \o Opening BY <1>1 DEF WireInv
<1>5. Driven = BeforeOp(i2at) \o (Opening \o WriteBytes(i2at, 0))
  <2>1. PICK o \in Seq(Events) : o = Opening BY <1>1, PieceOfOp
  <2>2. o \o <<>> = o BY ConcatEmptySeq
  <2> QED BY <1>2, <1>4, <2>1, <2>2, BytesOfWrite
<1>6. I2cOp.len = 0 => Driven = BeforeOp(i2at + 1) BY <1>1, <1>2, <1>4, <1>5, PieceOfOp
<1>7. CASE I2cOp.len = 0 /\ ToOp(i2at + 1)
  BY <1>1, <1>3, <1>6, <1>7, EnterWire
<1>8. CASE WaitFor("rx", 1)
  BY <1>1, <1>3, <1>4, <1>8, WaitWire
<1>9. CASE WaitFor("tx", 1) /\ i2shift' = "data"
  <2>1. PICK j \in Nat : j = 1 OBVIOUS
  <2>2. j # 0 /\ j - 1 = 0 BY <2>1
  <2>3. WaitFor("tx", j) BY <1>9, <2>1
  <2>4. Driven = BeforeOp(i2at) \o (Opening \o WriteBytes(i2at, j - 1)) BY <1>5, <2>2
  <2> QED BY <1>1, <1>3, <1>9, <2>2, <2>3, <2>4, WaitWire
<1> QED BY <1>7, <1>8, <1>9 DEF I2cAddressed, FirstReceive, FirstByte, Transmit

\* The next byte of a write, or its end.
LEMMA TransmitWire == ASSUME BusInv, WireInv, I2cTransmitData PROVE WireInv'
<1>1. i2pc = "tx" /\ i2at \in 1 .. Len(i2ops) /\ i2shift = "none" /\ ~i2mal
  <2>1. "tx" \in I2cWaits BY DEF I2cWaits
  <2> QED BY <2>1, CompletedBus DEF I2cTransmitData
<1>2. ~I2cOp.read /\ i2byte \in 1 .. I2cOp.len /\ I2cOp.len \in Nat
  BY <1>1, OpTypes DEF BusInv, Position
<1>3. i2ops' = i2ops /\ i2wire' = i2wire BY DEF I2cTransmitData, i2call
<1>4. Driven = BeforeOp(i2at) \o (Opening \o WriteBytes(i2at, i2byte)) BY <1>1 DEF WireInv
<1>5. CASE i2byte < I2cOp.len /\ WaitFor("tx", i2byte + 1) /\ Transmit("data")
  <2>1. PICK j \in Nat : j = i2byte + 1 BY <1>2
  <2>2. j # 0 /\ j - 1 = i2byte BY <1>2, <2>1
  <2> QED BY <1>1, <1>3, <1>4, <1>5, <2>1, <2>2, WaitWire DEF Transmit
<1>6. CASE ~(i2byte < I2cOp.len) /\ ToOp(i2at + 1)
  <2>1. i2byte = I2cOp.len BY <1>2, <1>6
  <2>2. Driven = BeforeOp(i2at + 1) BY <1>1, <1>2, <1>4, <2>1, PieceOfOp
  <2> QED BY <1>1, <1>3, <1>6, <2>2, EnterWire
<1> QED BY <1>5, <1>6 DEF I2cTransmitData

\* A byte received is not driven.
LEMMA ReceiveWire == ASSUME BusInv, WireInv, I2cReceiveData \/ I2cTail PROVE WireInv'
<1>1. i2pc \in {"rx", "tail"} /\ i2at \in 1 .. Len(i2ops)
  <2>1. "rx" \in I2cWaits /\ "tail" \in I2cWaits BY DEF I2cWaits
  <2> QED BY <2>1, CompletedBus DEF I2cReceiveData, I2cTail
<1>2. I2cOp.read BY <1>1 DEF BusInv, Position
<1>3. i2ops' = i2ops /\ i2wire' = i2wire BY DEF I2cReceiveData, I2cTail, i2call
<1>4. Driven = BeforeOp(i2at) \o Opening /\ BeforeOp(i2at + 1) = BeforeOp(i2at) \o Opening
  BY <1>1, <1>2, PieceOfOp DEF WireInv
<1>5. CASE ToOp(i2at + 1) BY <1>1, <1>3, <1>4, <1>5, EnterWire
<1>6. CASE WaitFor("rx", i2byte + 1)
  <2>1. PICK j \in Nat : j = i2byte + 1 BY DEF BusInv, I2cTypes
  <2> QED BY <1>1, <1>3, <1>4, <1>6, <2>1, WaitWire
<1>7. CASE WaitFor("tail", 0) BY <1>1, <1>3, <1>4, <1>7, WaitWire
<1> QED BY <1>5, <1>6, <1>7 DEF I2cReceiveData, I2cTail

\* The end of a byte: an address and a byte written are driven.
LEMMA ShiftWire == ASSUME BusInv, WireInv, I2cShift PROVE WireInv'
<1>1. i2shift' = "none" /\ UNCHANGED <<i2ops, i2at, i2byte, i2pc, i2mal, i2result>>
  BY DEF I2cShift, i2call
<1>2. /\ BeforeOp(i2at)' = BeforeOp(i2at) /\ Opening' = Opening
      /\ OnTheBus(i2ops)' = OnTheBus(i2ops)
  BY <1>1, MeaningKept
<1>3. CASE i2pc \in {"idle", "bus"} BY <1>1, <1>3 DEF WireInv
<1>4. CASE i2pc = "done"
  <2>1. i2ops = <<>> BY <1>4 DEF I2cShift, BusInv, Ownership
  <2> QED BY <1>1, <1>4, <2>1 DEF WireInv
<1>5. CASE Active
  <2>1. PICK e \in Events :
          /\ i2wire' = Append(i2wire, e)
          /\ \/ i2shift = "byte" /\ e = <<"byte", "TXAK" \notin i2cr>>
             \/ /\ i2shift = "addr" /\ e[1] = "addr"
                /\ i2pc = "addr" => e = <<"addr", I2cOp.read>>
             \/ i2shift = "data" /\ e = <<"data", i2at, i2byte>>
    BY <1>5, ShiftedByte DEF Active, I2cWaits
  <2>2. Driven' = (IF e[1] = "byte" THEN Driven ELSE Append(Driven, e)) BY <2>1, DrivenGrows
  <2>3. CASE i2pc \in {"enter", "rx", "tail"}
    <3>1. i2shift = "byte" BY <2>3 DEF I2cShift, BusInv, Ownership
    <3>2. e[1] = "byte" BY <2>1, <3>1
    <3>3. Driven' = Driven BY <2>2, <3>2
    <3> QED BY <1>1, <1>2, <2>3, <3>3 DEF WireInv
  <2>4. CASE i2pc = "addr"
    <3>1. i2shift = "addr" /\ ~i2mal BY <2>4 DEF I2cShift, BusInv, Ownership, I2cTypes
    <3>2. e = <<"addr", I2cOp.read>> /\ e[1] = "addr" BY <2>1, <2>4, <3>1
    <3>3. i2at \in 1 .. Len(i2ops) /\ Opening # <<>>
      BY <2>4 DEF BusInv, Position, Ownership, I2cWaits, Opening
    <3>4. PICK a \in Seq(Events) : a = BeforeOp(i2at) BY <3>3, PieceOfOp
    <3>5. PICK s \in Events : s = Opening[1] BY <3>3, OpeningIs
    <3>6. Opening = Append(<<s>>, e) BY <3>2, <3>3, <3>5, OpeningIs
    <3>7. Driven = a \o <<s>> BY <2>4, <3>1, <3>4, <3>5 DEF WireInv
    <3>8. <<s>> \in Seq(Events) OBVIOUS
    <3>9. a \o Append(<<s>>, e) = Append(a \o <<s>>, e) BY <3>8, ConcatAppend
    <3>10. Driven' = a \o Opening BY <2>2, <3>2, <3>6, <3>7, <3>9
    <3> QED BY <1>1, <1>2, <2>4, <3>1, <3>4, <3>10 DEF WireInv
  <2>5. CASE i2pc = "tx"
    <3>1. i2shift = "data" /\ ~i2mal BY <2>5 DEF I2cShift, BusInv, Ownership, I2cTypes
    <3>2. e = <<"data", i2at, i2byte>> /\ e[1] = "data" BY <2>1, <3>1
    <3>3. i2at \in 1 .. Len(i2ops) /\ i2byte \in 1 .. I2cOp.len
      BY <2>5 DEF BusInv, Position, I2cWaits
    <3>4. i2at \in Nat /\ I2cOp.len \in Nat BY <3>3, OpTypes
    <3>5. PICK j \in Nat : j = i2byte - 1
      <4>1. i2byte - 1 \in Nat BY <3>3, <3>4
      <4> QED BY <4>1
    <3>6. j + 1 = i2byte BY <3>3, <3>4, <3>5
    <3>7. PICK a \in Seq(Events) : a = BeforeOp(i2at) BY <3>3, PieceOfOp
    <3>8. PICK o \in Seq(Events) : o = Opening BY <3>3, PieceOfOp
    <3>9. PICK b \in Seq(Events) : b = WriteBytes(i2at, j) BY <3>4, BytesOfWrite
    <3>10. WriteBytes(i2at, i2byte) = Append(b, e)
      BY <3>2, <3>4, <3>6, <3>9, BytesOfWrite
    <3>11. Driven = a \o (o \o b) BY <2>5, <3>1, <3>5, <3>7, <3>8, <3>9 DEF WireInv
    <3>12. PICK c \in Seq(Events) : c = o \o b BY ConcatProperties
    <3>13. o \o Append(b, e) = Append(c, e) BY <3>12, ConcatAppend
    <3>14. a \o Append(c, e) = Append(a \o c, e) BY ConcatAppend
    <3>15. Driven' = a \o (o \o WriteBytes(i2at, i2byte))
      BY <2>2, <3>2, <3>10, <3>11, <3>12, <3>13, <3>14
    <3>16. WriteBytes(i2at, IF i2shift = "data" \/ i2mal THEN i2byte - 1 ELSE i2byte)'
             = WriteBytes(i2at, i2byte)
      BY <1>1, <3>1 DEF WriteBytes
    <3> QED BY <1>1, <1>2, <2>5, <3>7, <3>8, <3>15, <3>16 DEF WireInv
  <2> QED BY <1>5, <2>3, <2>4, <2>5 DEF Active, I2cWaits
<1> QED BY <1>3, <1>4, <1>5 DEF BusInv, I2cTypes, Active

\* A byte lost to another master is not driven.
LEMMA ArbitrationWire == ASSUME BusInv, WireInv, I2cArbitration PROVE WireInv'
<1>1. /\ i2shift' = "none" /\ i2mal' = TRUE /\ i2shift \in {"addr", "data"}
      /\ UNCHANGED <<i2ops, i2at, i2byte, i2pc, i2wire, i2result>>
  BY DEF I2cArbitration, i2call
<1>2. /\ BeforeOp(i2at)' = BeforeOp(i2at) /\ Opening' = Opening /\ Driven' = Driven
      /\ OnTheBus(i2ops)' = OnTheBus(i2ops)
      /\ \A k, n : WriteBytes(k, n)' = WriteBytes(k', n')
  BY <1>1, MeaningKept DEF Driven, DrivenPieces, WriteBytes
<1>3. CASE i2pc = "addr"
  <2>1. i2shift = "addr" BY <1>1, <1>3 DEF BusInv, Ownership
  <2> QED BY <1>1, <1>2, <1>3, <2>1 DEF WireInv
<1>4. CASE i2pc = "tx"
  <2>1. i2shift = "data" BY <1>1, <1>4 DEF BusInv, Ownership
  <2>2. WriteBytes(i2at, IF i2shift = "data" \/ i2mal THEN i2byte - 1 ELSE i2byte)'
          = WriteBytes(i2at, i2byte - 1)
    BY <1>1 DEF WriteBytes
  <2> QED BY <1>1, <1>2, <1>4, <2>1, <2>2 DEF WireInv
<1>5. CASE i2pc \notin {"addr", "tx"} BY <1>1, <1>2, <1>5 DEF WireInv
<1> QED BY <1>3, <1>4, <1>5

\* The transaction is not touched.
LEMMA WireQuiet ==
  ASSUME WireInv, UNCHANGED <<i2ops, i2at, i2byte, i2pc, i2mal, i2shift, i2wire, i2result>>
  PROVE  WireInv'
BY DEF WireInv, BeforeOp, Opening, Driven, DrivenPieces, StartOf, WriteBytes, OnTheBus, BusPieces

\* Every step drives what the operations mean.
LEMMA WireStep == ASSUME BusInv, WireInv, [I2cNext]_i2vars PROVE WireInv'
<1>1. CASE Aside \/ UNCHANGED i2vars BY <1>1, AsideBus, WireQuiet
<1>2. CASE I2cCall BY <1>2 DEF I2cCall, WireInv
<1>3. CASE I2cReturn BY <1>3 DEF I2cReturn, WireInv
<1>4. CASE I2cDrop BY <1>4 DEF I2cDrop, WireInv
<1> QED BY <1>1, <1>2, <1>3, <1>4, StartStepWire, EnterStepWire, EndedWire, AddressedWire,
           TransmitWire, ReceiveWire, ShiftWire, ArbitrationWire
        DEF I2cNext, I2cDriver, Aside

\* What is driven on the bus is what the operations mean (I2cWire).
LEMMA WireHolds == ASSUME BusInv, WireInv PROVE I2cWire
<1>1. ASSUME Active PROVE IsPrefix(Driven, OnTheBus(i2ops))
  BY <1>1, WireBegins, BeginsIsPrefix, PiecesTypes DEF BusInv, I2cTypes
<1>2. ASSUME i2pc = "bus" PROVE IsPrefix(Driven, OnTheBus(i2ops))
  <2>1. Driven = <<>> BY <1>2, DrivenEmpty DEF Driven, BusInv, Ownership
  <2>2. PICK t \in Seq(Events) : t = OnTheBus(i2ops) BY PiecesTypes DEF BusInv, I2cTypes
  <2>3. <<>> \in Seq(Events) OBVIOUS
  <2> QED BY <2>1, <2>2, <2>3, BeginsSelf, BeginsIsPrefix
<1>3. ASSUME i2pc = "done", i2ops # <<>>
      PROVE  /\ ~i2mbb /\ Last(Driven) = <<"P">> /\ IsPrefix(Front(Driven), OnTheBus(i2ops))
             /\ i2result = "ok" => Front(Driven) = OnTheBus(i2ops)
  <2>1. PICK d \in Seq(Events) :
          /\ Driven = Append(d, <<"P">>) /\ Begins(Events, d, OnTheBus(i2ops))
          /\ i2result = "ok" => d = OnTheBus(i2ops)
    BY <1>3 DEF WireInv
  <2>2. PICK e \in Events : e = <<"P">> BY EventKinds
  <2>3. Front(Driven) = d /\ Last(Driven) = e BY <2>1, <2>2, FrontLast
  <2>4. IsPrefix(d, OnTheBus(i2ops))
    BY <2>1, BeginsIsPrefix, PiecesTypes DEF BusInv, I2cTypes
  <2>5. ~i2mbb BY <1>3 DEF BusInv, Ownership
  <2> QED BY <2>1, <2>2, <2>3, <2>4, <2>5
<1> QED BY <1>1, <1>2, <1>3 DEF I2cWire, Active, BusInv, I2cTypes

\* The operation before the one entered; a read under way, or just over; the byte
\* that nobody stores is on its way in, or has come.
Prev == i2ops[i2at - 1]
TailDue == IsLast /\ I2cOp.read /\ I2cOp.len # 0
Reading == i2pc \in {"rx", "tail"} \/ (i2pc = "enter" /\ Prev.read)
Tailed == i2pc = "tail"
          \/ (i2pc = "enter" /\ i2at = Len(i2ops) + 1 /\ Prev.read /\ Prev.len # 0)

\* The room in the buffers of the operations before k; what has been stored.
Room(k) == Len(Upto(ReadPieces(i2ops), k - 1))
Filled == Room(i2at) + (IF i2pc = "rx" THEN i2byte - 1 ELSE IF i2pc = "tail" THEN I2cOp.len ELSE 0)
Nacked == {n \in ReceivedAt : ~i2wire[n][2]}

InOrder ==
  /\ i2got \in Seq(Nat)
  /\ \A k \in 1 .. Len(i2got) :
       i2got[k] \in ReceivedAt /\ (k < Len(i2got) => i2got[k] < i2got[k + 1])
NoGap == \A n \in ReceivedAt : n + 1 \in ReceivedAt => n \in ToSet(i2got)
Behind ==
  /\ Len(i2wire) \in ReceivedAt => (Len(i2wire) \in ToSet(i2got) <=> i2shift = "byte")
  /\ i2pc = "addr" => Len(i2wire) \notin ReceivedAt
Fresh == Reading /\ i2shift = "none" => Len(i2wire) \in ReceivedAt /\ i2dr = Len(i2wire)
Counted == Len(i2got) = Filled
Acked ==
  /\ "TXAK" \in i2cr <=> Tailed
  /\ Nacked = (IF Tailed /\ i2shift = "none" THEN {Len(i2wire)} ELSE {})
  /\ i2pc = "enter" /\ (Tailed \/ ~Prev.read) => i2shift = "none"

\* What the buffers hold under way, and when a transaction is over.
Buffering == InOrder /\ NoGap /\ Behind /\ Fresh /\ Counted /\ Acked
Buffered ==
  /\ i2ops = <<>> => /\ i2got = <<>>
                     /\ i2wire = <<>> \/ (Len(i2wire) = 1 /\ i2shift = "none")
  /\ i2ops # <<>> => InOrder /\ NoGap
  /\ i2ops # <<>> /\ i2result = "ok" =>
       /\ Len(i2got) = Len(FlattenSeq(ReadPieces(i2ops)))
       /\ Nacked = IF Last(i2ops).read /\ Last(i2ops).len > 0
                   THEN {Len(i2wire) - 1} \ ToSet(i2got) ELSE {}
BufInv ==
  /\ Active => Buffering
  /\ i2pc = "done" => Buffered

\* One event more: received or not, acknowledged or not.
LEMMA ReceivedGrows ==
  ASSUME BusInv, NEW e \in Events, i2wire' = Append(i2wire, e)
  PROVE  /\ ReceivedAt' = (IF e[1] = "byte" THEN ReceivedAt \cup {Len(i2wire) + 1} ELSE ReceivedAt)
         /\ Nacked' = IF e[1] = "byte" /\ ~e[2] THEN Nacked \cup {Len(i2wire) + 1} ELSE Nacked
         /\ Len(i2wire)' = Len(i2wire) + 1
<1>1. PICK w \in Seq(Events) : w = i2wire BY DEF BusInv, I2cTypes
<1>2. PICK n \in Nat : n = Len(w) BY LenProperties
<1>3. PICK v \in Seq(Events) : v = Append(w, e) BY AppendProperties
<1>4. Len(v) = n + 1 /\ v[n + 1] = e /\ \A i \in 1 .. n : v[i] = w[i]
  BY <1>2, <1>3, AppendProperties
<1>5. DOMAIN w = 1 .. n /\ DOMAIN v = 1 .. n + 1 BY <1>2, <1>4, LenProperties
<1>6. 1 .. n + 1 = 1 .. n \cup {n + 1} /\ n + 1 \notin 1 .. n OBVIOUS
<1>7. ReceivedAt = {i \in 1 .. n : w[i][1] = "byte"}
      /\ ReceivedAt' = {i \in 1 .. n + 1 : v[i][1] = "byte"}
  BY <1>1, <1>3, <1>5 DEF ReceivedAt
<1>8. CASE e[1] = "byte"
  <2>1. {i \in 1 .. n + 1 : v[i][1] = "byte"} = {i \in 1 .. n : w[i][1] = "byte"} \cup {n + 1}
    BY <1>4, <1>6, <1>8
  <2>2. \A i \in ReceivedAt : i \in 1 .. n /\ i # n + 1 /\ i2wire'[i] = i2wire[i]
    BY <1>1, <1>3, <1>4, <1>6, <1>7
  <2>3. i2wire'[n + 1] = e BY <1>1, <1>3, <1>4
  <2>4. ReceivedAt' = ReceivedAt \cup {n + 1} BY <1>7, <2>1
  <2>5. Nacked' = IF ~e[2] THEN Nacked \cup {n + 1} ELSE Nacked
    BY <2>2, <2>3, <2>4, ZenonT(60) DEF Nacked
  <2> QED BY <1>1, <1>2, <1>3, <1>4, <1>8, <2>4, <2>5
<1>9. CASE e[1] # "byte"
  <2>1. {i \in 1 .. n + 1 : v[i][1] = "byte"} = {i \in 1 .. n : w[i][1] = "byte"}
    BY <1>4, <1>6, <1>9
  <2>2. \A i \in ReceivedAt : i2wire'[i] = i2wire[i] BY <1>1, <1>3, <1>4, <1>7
  <2>3. ReceivedAt' = ReceivedAt BY <1>7, <2>1
  <2>4. Nacked' = Nacked BY <2>2, <2>3, Zenon DEF Nacked
  <2> QED BY <1>1, <1>2, <1>3, <1>4, <1>9, <2>3, <2>4
<1> QED BY <1>8, <1>9

\* What has been received is on the wire.
LEMMA ReceivedPlaces ==
  ASSUME BusInv
  PROVE  /\ Len(i2wire) \in Nat /\ ReceivedAt \subseteq 1 .. Len(i2wire)
         /\ Len(i2wire) + 1 \notin ReceivedAt
<1>1. Len(i2wire) \in Nat /\ DOMAIN i2wire = 1 .. Len(i2wire)
  BY LenProperties DEF BusInv, I2cTypes
<1>2. ReceivedAt \subseteq 1 .. Len(i2wire) BY <1>1 DEF ReceivedAt
<1> QED BY <1>1, <1>2

\* What has been stored, after one byte more.
LEMMA StoredGrows ==
  ASSUME NEW s \in Seq(Nat), NEW e \in Nat
  PROVE  ToSet(Append(s, e)) = ToSet(s) \cup {e}
<1>1. PICK n \in Nat : n = Len(s) BY LenProperties
<1>2. PICK t \in Seq(Nat) : t = Append(s, e) BY AppendProperties
<1>3. Len(t) = n + 1 /\ t[n + 1] = e /\ \A i \in 1 .. n : t[i] = s[i]
  BY <1>1, <1>2, AppendProperties
<1>4. DOMAIN s = 1 .. n /\ DOMAIN t = 1 .. n + 1 BY <1>1, <1>3, LenProperties
<1>5. \A i \in 1 .. n + 1 : i \in 1 .. n \/ i = n + 1 OBVIOUS
<1>6. n + 1 \in 1 .. n + 1 /\ \A i \in 1 .. n : i \in 1 .. n + 1 OBVIOUS
<1>7. ToSet(t) \subseteq ToSet(s) \cup {e} BY <1>3, <1>4, <1>5 DEF ToSet
<1>8. ToSet(s) \cup {e} \subseteq ToSet(t) BY <1>3, <1>4, <1>6 DEF ToSet
<1> QED BY <1>2, <1>7, <1>8

\* Nothing of what is stored changes.
LEMMA KeptOrder ==
  ASSUME InOrder, NoGap, i2wire' = i2wire, i2got' = i2got
  PROVE  InOrder' /\ NoGap' /\ ReceivedAt' = ReceivedAt /\ Nacked' = Nacked
<1>1. ReceivedAt' = ReceivedAt BY DEF ReceivedAt
<1> QED BY <1>1 DEF InOrder, NoGap, Nacked

\* Something is driven on the bus.
LEMMA DrivenOrder ==
  ASSUME BusInv, InOrder, NoGap, NEW e \in Events, e[1] # "byte",
         i2wire' = Append(i2wire, e), i2got' = i2got
  PROVE  /\ InOrder' /\ NoGap' /\ ReceivedAt' = ReceivedAt /\ Nacked' = Nacked
         /\ Len(i2wire)' = Len(i2wire) + 1 /\ Len(i2wire)' \notin ReceivedAt'
<1>1. ReceivedAt' = ReceivedAt /\ Nacked' = Nacked /\ Len(i2wire)' = Len(i2wire) + 1
  BY ReceivedGrows
<1>2. InOrder' /\ NoGap' BY <1>1 DEF InOrder, NoGap
<1> QED BY <1>1, <1>2, ReceivedPlaces

\* A byte comes in, when the one before it has been stored.
LEMMA ReceivedOrder ==
  ASSUME BusInv, InOrder, NoGap, Len(i2wire) \in ReceivedAt => Len(i2wire) \in ToSet(i2got),
         NEW e \in Events, e[1] = "byte", i2wire' = Append(i2wire, e), i2got' = i2got
  PROVE  /\ InOrder' /\ NoGap' /\ Len(i2wire)' = Len(i2wire) + 1
         /\ Len(i2wire)' \in ReceivedAt' /\ Len(i2wire)' \notin ToSet(i2got)'
<1>1. /\ ReceivedAt' = ReceivedAt \cup {Len(i2wire) + 1}
      /\ Len(i2wire)' = Len(i2wire) + 1
  BY ReceivedGrows
<1>2. InOrder' BY <1>1 DEF InOrder
<1>3. PICK n \in Nat : n = Len(i2wire) BY ReceivedPlaces
<1>4. \A m \in ReceivedAt : m \in 1 .. n BY <1>3, ReceivedPlaces
<1>5. NoGap'
  <2> SUFFICES ASSUME NEW m \in ReceivedAt', m + 1 \in ReceivedAt'
               PROVE  m \in ToSet(i2got)
    BY DEF NoGap
  <2>1. m # n + 1
    <3>1. m = n + 1 => m + 1 \notin 1 .. n /\ m + 1 # n + 1 BY <1>3
    <3> QED BY <1>1, <1>3, <1>4, <3>1
  <2>2. m \in ReceivedAt BY <1>1, <1>3, <2>1
  <2>3. CASE m = n BY <1>3, <2>2, <2>3
  <2>4. CASE m # n
    <3>1. m + 1 # n + 1 BY <1>3, <1>4, <2>2, <2>4
    <3>2. m + 1 \in ReceivedAt BY <1>1, <1>3, <3>1
    <3> QED BY <2>2, <3>2 DEF NoGap
  <2> QED BY <2>3, <2>4
<1>6. n + 1 \notin ToSet(i2got)
  <2>1. DOMAIN i2got = 1 .. Len(i2got) BY LenProperties DEF InOrder
  <2>2. \A m \in ToSet(i2got) : m \in ReceivedAt BY <2>1 DEF InOrder, ToSet
  <2> QED BY <1>3, <1>4, <2>2
<1> QED BY <1>1, <1>2, <1>3, <1>5, <1>6

\* The last byte received is stored.
LEMMA StoredOrder ==
  ASSUME BusInv, InOrder, NoGap, NEW n, n = Len(i2wire), n \in ReceivedAt, n \notin ToSet(i2got),
         i2wire' = i2wire, i2got' = Append(i2got, n)
  PROVE  /\ InOrder' /\ NoGap' /\ Len(i2got)' = Len(i2got) + 1
         /\ n \in ToSet(i2got)'
<1>0. ReceivedAt' = ReceivedAt BY DEF ReceivedAt
<1>1. n \in Nat /\ \A m \in ReceivedAt : m \in 1 .. n BY ReceivedPlaces
<1>2. PICK g \in Seq(Nat) : g = i2got BY DEF InOrder
<1>3. PICK l \in Nat : l = Len(g) BY LenProperties
<1>4. PICK h \in Seq(Nat) : h = Append(g, n) BY <1>1, AppendProperties
<1>5. Len(h) = l + 1 /\ h[l + 1] = n /\ \A k \in 1 .. l : h[k] = g[k]
  BY <1>1, <1>3, <1>4, AppendProperties
<1>6. ToSet(h) = ToSet(g) \cup {n} BY <1>1, <1>4, StoredGrows
<1>7. \A k \in 1 .. l : g[k] \in ReceivedAt /\ g[k] < n
  <2> SUFFICES ASSUME NEW k \in 1 .. l PROVE g[k] \in ReceivedAt /\ g[k] < n
    OBVIOUS
  <2>1. g[k] \in ReceivedAt BY <1>2, <1>3 DEF InOrder
  <2>2. DOMAIN g = 1 .. l BY <1>3, LenProperties
  <2>3. g[k] \in ToSet(g) BY <2>2 DEF ToSet
  <2>4. g[k] # n BY <1>2, <2>3
  <2>5. g[k] \in 1 .. n BY <1>1, <2>1
  <2> QED BY <1>1, <2>1, <2>4, <2>5
<1>8. \A k \in 1 .. l + 1 : h[k] \in ReceivedAt /\ (k < l + 1 => h[k] < h[k + 1])
  <2> SUFFICES ASSUME NEW k \in 1 .. l + 1
               PROVE  h[k] \in ReceivedAt /\ (k < l + 1 => h[k] < h[k + 1])
    OBVIOUS
  <2>1. CASE k = l + 1 BY <1>5, <2>1
  <2>2. CASE k = l
    <3>1. k \in 1 .. l BY <2>2
    <3>2. h[k] = g[k] /\ h[k + 1] = n BY <1>5, <2>2, <3>1
    <3> QED BY <1>7, <3>1, <3>2
  <2>3. CASE k < l
    <3>1. k \in 1 .. l /\ k + 1 \in 1 .. l BY <2>3
    <3>2. h[k] = g[k] /\ h[k + 1] = g[k + 1] BY <1>5, <3>1
    <3>3. g[k] < g[k + 1] BY <1>2, <1>3, <2>3, <3>1 DEF InOrder
    <3> QED BY <1>7, <3>1, <3>2, <3>3
  <2> QED BY <2>1, <2>2, <2>3
<1>9. i2got' = h BY <1>2, <1>4
<1>10. InOrder' BY <1>0, <1>5, <1>8, <1>9 DEF InOrder
<1>11. NoGap' BY <1>0, <1>2, <1>6, <1>9 DEF NoGap
<1>12. Len(i2got)' = Len(i2got) + 1 /\ n \in ToSet(i2got)'
  BY <1>2, <1>3, <1>5, <1>6, <1>9
<1> QED BY <1>10, <1>11, <1>12

\* The room in the buffers of one operation more.
LEMMA RoomOfOp ==
  ASSUME BusInv, i2at \in 1 .. Len(i2ops)
  PROVE  /\ Room(i2at) \in Nat
         /\ Room(i2at + 1) = Room(i2at) + (IF I2cOp.read THEN I2cOp.len ELSE 0)
<1> DEFINE x(k) == IF i2ops[k].read THEN [j \in 1 .. i2ops[k].len |-> <<k, j>>] ELSE <<>>
           T == Nat \X Nat
<1>1. PICK n \in Nat : n = Len(i2ops) BY LenProperties DEF BusInv, I2cTypes
<1>2. \A k \in 1 .. n : /\ x(k) \in Seq(T)
                        /\ Len(x(k)) = IF i2ops[k].read THEN i2ops[k].len ELSE 0
  <2> SUFFICES ASSUME NEW k \in 1 .. n
               PROVE  /\ x(k) \in Seq(T)
                      /\ Len(x(k)) = IF i2ops[k].read THEN i2ops[k].len ELSE 0
    OBVIOUS
  <2>1. i2ops[k] \in Operations BY <1>1, ElementOfSeq DEF BusInv, I2cTypes
  <2>2. PICK l \in Nat : l = i2ops[k].len BY <2>1 DEF Operations
  <2>3. \A j \in 1 .. l : <<k, j>> \in T OBVIOUS
  <2>4. [j \in 1 .. l |-> <<k, j>>] \in [1 .. l -> T] BY <2>3
  <2>5. [j \in 1 .. l |-> <<k, j>>] \in Seq(T) BY <2>4, SeqDef
  <2>6. Len([j \in 1 .. l |-> <<k, j>>]) = l BY <2>5, LenProperties
  <2>7. <<>> \in Seq(T) /\ Len(<<>>) = 0 OBVIOUS
  <2> QED BY <2>2, <2>5, <2>6, <2>7
<1> HIDE DEF x, T
<1>3. PICK p \in Seq(Seq(T)) : p = [k \in 1 .. n |-> x(k)]
  <2>1. [k \in 1 .. n |-> x(k)] \in [1 .. n -> Seq(T)] BY <1>2
  <2>2. [k \in 1 .. n |-> x(k)] \in Seq(Seq(T)) BY <2>1, SeqDef
  <2> QED BY <2>2
<1>4. Len(p) = n /\ \A k \in 1 .. n : p[k] = x(k) BY <1>3, LenProperties
<1>5. ReadPieces(i2ops) = p BY <1>1, <1>3 DEF ReadPieces, x
<1>6. i2at \in 1 .. n /\ i2at \in 1 .. Len(p) /\ i2at + 1 - 1 = i2at BY <1>1, <1>4
<1>7. PICK a \in Seq(T) : a = Upto(p, i2at - 1) BY <1>6, UptoStep
<1>8. PICK b \in Seq(T) : b = p[i2at] BY <1>6, ElementOfSeq
<1>9. Upto(p, i2at) = a \o b BY <1>6, <1>7, <1>8, UptoStep
<1>10. Len(a) \in Nat /\ Len(b) \in Nat /\ Len(a \o b) = Len(a) + Len(b)
  BY LenProperties, ConcatProperties
<1>11. Len(b) = IF I2cOp.read THEN I2cOp.len ELSE 0 BY <1>2, <1>4, <1>6, <1>8 DEF I2cOp
<1>12. Room(i2at) = Len(a) BY <1>5, <1>7 DEF Room
<1>13. Room(i2at + 1) = Len(a \o b) BY <1>5, <1>6, <1>9 DEF Room
<1> QED BY <1>10, <1>11, <1>12, <1>13

\* No room before the first operation; all of it after the last.
LEMMA RoomEnds ==
  ASSUME BusInv
  PROVE  /\ Room(1) = 0
         /\ \A k : k = Len(i2ops) + 1 => Room(k) = Len(FlattenSeq(ReadPieces(i2ops)))
                                          /\ Room(k) \in Nat
<1> DEFINE x(k) == IF i2ops[k].read THEN [j \in 1 .. i2ops[k].len |-> <<k, j>>] ELSE <<>>
           n == Len(i2ops)
<1>1. n \in Nat BY LenProperties DEF BusInv, I2cTypes
<1>2. PICK T : \A k \in 1 .. n : x(k) \in Seq(T)
  <2>1. \A k \in 1 .. n : x(k) \in Seq(Nat \X Nat)
    <3> SUFFICES ASSUME NEW k \in 1 .. n PROVE x(k) \in Seq(Nat \X Nat)
      OBVIOUS
    <3>1. i2ops[k] \in Operations BY <1>1, ElementOfSeq DEF BusInv, I2cTypes
    <3>2. PICK l \in Nat : l = i2ops[k].len BY <3>1 DEF Operations
    <3>3. [j \in 1 .. l |-> <<k, j>>] \in [1 .. l -> Nat \X Nat] BY <1>1
    <3>4. [j \in 1 .. l |-> <<k, j>>] \in Seq(Nat \X Nat) BY <3>3, SeqDef
    <3>5. <<>> \in Seq(Nat \X Nat) OBVIOUS
    <3> QED BY <3>2, <3>4, <3>5
  <2> QED BY <2>1
<1> HIDE DEF x
<1>3. PICK p \in Seq(Seq(T)) : p = [k \in 1 .. n |-> x(k)]
  <2>1. [k \in 1 .. n |-> x(k)] \in [1 .. n -> Seq(T)] BY <1>2
  <2>2. [k \in 1 .. n |-> x(k)] \in Seq(Seq(T)) BY <1>1, <2>1, SeqDef
  <2> QED BY <2>2
<1>4. Len(p) = n BY <1>1, <1>3, LenProperties
<1>5. ReadPieces(i2ops) = p BY <1>3 DEF ReadPieces, x
<1>6. Upto(p, 0) = <<>> /\ Upto(p, n) = FlattenSeq(p) BY <1>4, UptoEnds
<1>7. 1 - 1 = 0 /\ n + 1 - 1 = n /\ Len(<<>>) = 0 BY <1>1
<1>8. Len(FlattenSeq(p)) \in Nat
  <2>1. n \in 0 .. Len(p) BY <1>1, <1>4
  <2>2. FlattenSeq(p) \in Seq(T) BY <1>6, <2>1, UptoBegins
  <2> QED BY <2>2, LenProperties
<1> QED BY <1>5, <1>6, <1>7, <1>8 DEF Room

\* Entering the next operation.
LEMMA EnterBuf ==
  ASSUME BusInv, i2at \in 1 .. Len(i2ops), ToOp(i2at + 1), i2ops' = i2ops, i2wire' = i2wire,
         InOrder', NoGap',
         Len(i2wire) \in ReceivedAt => (Len(i2wire) \in ToSet(i2got)' <=> i2shift' = "byte"),
         I2cOp.read /\ i2shift' = "none" => Len(i2wire) \in ReceivedAt /\ i2dr' = Len(i2wire),
         Len(i2got)' = Room(i2at + 1),
         "TXAK" \in i2cr' <=> TailDue,
         Nacked = IF TailDue /\ i2shift' = "none" THEN {Len(i2wire)} ELSE {},
         TailDue \/ ~I2cOp.read => i2shift' = "none"
  PROVE  BufInv'
<1>1. i2pc' = "enter" /\ i2at' = i2at + 1 BY DEF ToOp
<1>2. Len(i2ops) \in Nat /\ I2cOp.len \in Nat /\ Room(i2at) \in Nat BY OpTypes, RoomOfOp
<1>3. i2at' - 1 = i2at /\ (i2at' = Len(i2ops) + 1 <=> i2at = Len(i2ops)) BY <1>1, <1>2
<1>4. Prev' = I2cOp BY <1>3 DEF Prev, I2cOp
<1>5. Tailed' <=> TailDue BY <1>1, <1>3, <1>4 DEF Tailed, TailDue, IsLast
<1>6. Reading' <=> I2cOp.read BY <1>1, <1>4 DEF Reading
<1>7. ReceivedAt' = ReceivedAt /\ Nacked' = Nacked /\ Len(i2wire)' = Len(i2wire)
  BY DEF ReceivedAt, Nacked
<1>8. Filled' = Room(i2at + 1)
  <2>1. Room(i2at)' = Room(i2at + 1) BY <1>1 DEF Room, ReadPieces
  <2>2. Room(i2at + 1) \in Nat /\ Room(i2at + 1) + 0 = Room(i2at + 1) BY <1>2, RoomOfOp
  <2>3. Filled' = Room(i2at)' + 0 BY <1>1 DEF Filled
  <2> QED BY <2>1, <2>2, <2>3
<1>9. Behind' BY <1>1, <1>7 DEF Behind
<1>10. Fresh' BY <1>6, <1>7 DEF Fresh
<1>11. Counted' BY <1>8 DEF Counted
<1>12. Acked' BY <1>1, <1>4, <1>5, <1>7 DEF Acked
<1> QED BY <1>1, <1>9, <1>10, <1>11, <1>12 DEF BufInv, Buffering

\* Waiting for a byte of this operation.
LEMMA WaitBuf ==
  ASSUME BusInv, i2at \in 1 .. Len(i2ops), NEW wt \in {"tx", "rx", "tail"}, NEW j \in Nat,
         WaitFor(wt, j), i2ops' = i2ops, i2wire' = i2wire,
         InOrder', NoGap',
         Len(i2wire) \in ReceivedAt => (Len(i2wire) \in ToSet(i2got)' <=> i2shift' = "byte"),
         wt # "tx" /\ i2shift' = "none" => Len(i2wire) \in ReceivedAt /\ i2dr' = Len(i2wire),
         Len(i2got)' = Room(i2at) + (IF wt = "rx" THEN j - 1 ELSE IF wt = "tail" THEN I2cOp.len ELSE 0),
         "TXAK" \in i2cr' <=> wt = "tail",
         Nacked = IF wt = "tail" /\ i2shift' = "none" THEN {Len(i2wire)} ELSE {}
  PROVE  BufInv'
<1>1. i2pc' = wt /\ i2at' = i2at /\ i2byte' = j BY DEF WaitFor
<1>2. Tailed' <=> wt = "tail" BY <1>1 DEF Tailed
<1>3. Reading' <=> wt # "tx" BY <1>1 DEF Reading
<1>4. ReceivedAt' = ReceivedAt /\ Nacked' = Nacked /\ Len(i2wire)' = Len(i2wire)
  BY DEF ReceivedAt, Nacked
<1>5. Filled' = Room(i2at) + (IF wt = "rx" THEN j - 1 ELSE IF wt = "tail" THEN I2cOp.len ELSE 0)
  <2>1. Room(i2at)' = Room(i2at) /\ I2cOp' = I2cOp BY <1>1 DEF Room, ReadPieces, I2cOp
  <2> QED BY <1>1, <2>1 DEF Filled
<1>6. Behind' BY <1>1, <1>4 DEF Behind
<1>7. Fresh' BY <1>3, <1>4 DEF Fresh
<1>8. Counted' BY <1>5 DEF Counted
<1>9. Acked' BY <1>1, <1>2, <1>4 DEF Acked
<1> QED BY <1>1, <1>6, <1>7, <1>8, <1>9 DEF BufInv, Buffering

\* START, or repeated START.
LEMMA AddressBuf ==
  ASSUME BusInv, i2at \in 1 .. Len(i2ops), NEW s \in {"S", "Sr"}, Address(s), i2ops' = i2ops,
         InOrder, NoGap, Len(i2got) = Room(i2at), Nacked = {}, "TXAK" \notin i2cr'
  PROVE  BufInv'
<1>1. PICK e \in Events : e = <<s>> BY EventKinds
<1>2. e[1] # "byte" BY <1>1
<1>3. /\ i2pc' = "addr" /\ i2at' = i2at /\ i2shift' = "addr" /\ i2wire' = Append(i2wire, e)
      /\ i2got' = i2got
  BY <1>1 DEF Address, WaitFor, Transmit
<1>4. InOrder' /\ NoGap' /\ Nacked' = Nacked /\ Len(i2wire)' \notin ReceivedAt'
  BY <1>2, <1>3, DrivenOrder
<1>5. Behind' BY <1>4 DEF Behind
<1>6. Fresh' BY <1>3 DEF Fresh
<1>7. ~Tailed' BY <1>3 DEF Tailed
<1>8. Acked' BY <1>3, <1>4, <1>7 DEF Acked
<1>9. Counted'
  <2>1. Room(i2at)' = Room(i2at) BY <1>3 DEF Room, ReadPieces
  <2>2. Room(i2at) \in Nat /\ Room(i2at) + 0 = Room(i2at) BY RoomOfOp
  <2> QED BY <1>3, <2>1, <2>2 DEF Counted, Filled
<1> QED BY <1>3, <1>4, <1>5, <1>6, <1>8, <1>9 DEF BufInv, Buffering

\* STOP: what is stored stays; on success everything is.
LEMMA FinishBuf ==
  ASSUME BusInv, BufInv, Active, NEW r, Finish(r), i2ops' = i2ops,
         r = "ok" => i2pc = "enter" /\ i2at = Len(i2ops) + 1
  PROVE  BufInv'
<1>1. PICK e \in Events : e = <<"P">> BY EventKinds
<1>2. e[1] # "byte" BY <1>1
<1>3. i2pc' = "done" /\ i2result' = r /\ i2wire' = Append(i2wire, e) /\ i2got' = i2got
  BY <1>1 DEF Finish, Stop
<1>4. InOrder /\ NoGap /\ Behind /\ Fresh /\ Counted /\ Acked BY DEF BufInv, Buffering
<1>5. InOrder' /\ NoGap' /\ Nacked' = Nacked /\ Len(i2wire)' = Len(i2wire) + 1
  BY <1>2, <1>3, <1>4, DrivenOrder
<1>6. i2ops # <<>> /\ Len(i2ops) \in Nat \ {0}
  <2>1. Len(i2ops) \in Nat BY LenProperties DEF BusInv, I2cTypes
  <2>2. Len(i2ops) # 0 BY <2>1 DEF BusInv, Position, Active
  <2>3. Len(<<>>) = 0 OBVIOUS
  <2> QED BY <2>1, <2>2, <2>3
<1>7. ASSUME r = "ok"
      PROVE  /\ Len(i2got)' = Len(FlattenSeq(ReadPieces(i2ops)))
             /\ Nacked' = IF Last(i2ops).read /\ Last(i2ops).len > 0
                          THEN {Len(i2wire)' - 1} \ ToSet(i2got) ELSE {}
  <2>1. i2pc = "enter" /\ i2at = Len(i2ops) + 1 /\ i2at - 1 = Len(i2ops) BY <1>6, <1>7
  <2>2. Prev = Last(i2ops) BY <2>1 DEF Prev, Last
  <2>3. Prev.len \in Nat
    <3>1. Len(i2ops) \in 1 .. Len(i2ops) BY <1>6
    <3>2. Prev \in Operations BY <2>1, <3>1, ElementOfSeq DEF Prev, BusInv, I2cTypes
    <3> QED BY <3>2 DEF Operations
  <2>4. Tailed <=> Last(i2ops).read /\ Last(i2ops).len > 0
    BY <2>1, <2>2, <2>3 DEF Tailed
  <2>5. Len(i2got) = Len(FlattenSeq(ReadPieces(i2ops)))
    <3>1. Room(i2at) = Len(FlattenSeq(ReadPieces(i2ops))) BY <2>1, RoomEnds
    <3>2. Len(i2got) \in Nat BY <1>4, LenProperties DEF InOrder
    <3>3. Len(i2got) = Room(i2at) + 0 BY <1>4, <2>1 DEF Counted, Filled
    <3>4. Room(i2at) \in Nat BY <2>1, RoomEnds
    <3> QED BY <3>1, <3>3, <3>4
  <2>6. CASE Tailed
    <3>1. i2shift = "none" BY <1>4, <2>1, <2>6 DEF Acked
    <3>2. Reading BY <2>6 DEF Tailed, Reading
    <3>3. Len(i2wire) \in ReceivedAt BY <1>4, <3>1, <3>2 DEF Fresh
    <3>4. Len(i2wire) \notin ToSet(i2got) BY <1>4, <3>1, <3>3 DEF Behind
    <3>5. Nacked = {Len(i2wire)} BY <1>4, <2>6, <3>1 DEF Acked
    <3>6. Len(i2wire)' - 1 = Len(i2wire) BY <1>5, ReceivedPlaces
    <3>7. Nacked' = {Len(i2wire)' - 1} \ ToSet(i2got) BY <1>5, <3>4, <3>5, <3>6
    <3> QED BY <1>3, <2>4, <2>5, <2>6, <3>7
  <2>7. CASE ~Tailed
    <3>1. Nacked = {} BY <1>4, <2>7 DEF Acked
    <3> QED BY <1>3, <1>5, <2>4, <2>5, <2>7, <3>1
  <2> QED BY <2>6, <2>7
<1>8. Buffered' BY <1>3, <1>5, <1>6, <1>7 DEF Buffered
<1> QED BY <1>3, <1>8 DEF BufInv, Active, I2cWaits

\* Nothing on the wire: nothing received, nothing stored.
LEMMA EmptyBuf ==
  ASSUME i2wire = <<>>, i2got = <<>>
  PROVE  InOrder /\ NoGap /\ ReceivedAt = {} /\ Nacked = {} /\ Len(i2got) = 0
<1>1. DOMAIN i2wire = {} /\ Len(i2got) = 0 /\ i2got \in Seq(Nat) OBVIOUS
<1>2. ReceivedAt = {} BY <1>1 DEF ReceivedAt
<1>3. Nacked = {} BY <1>2 DEF Nacked
<1>4. 1 .. 0 = {} OBVIOUS
<1> QED BY <1>1, <1>2, <1>3, <1>4 DEF InOrder, NoGap

\* START, when the bus is free.
LEMMA StartStepBuf == ASSUME BusInv, I2cStart PROVE BufInv'
<1>1. i2at = 1 /\ i2ops # <<>> /\ i2wire = <<>> /\ i2got = <<>>
  BY DEF I2cStart, BusInv, Ownership
<1>2. i2at \in 1 .. Len(i2ops)
  <2>1. Len(i2ops) \in Nat \ {0} BY <1>1, EmptySeq DEF BusInv, I2cTypes
  <2> QED BY <1>1, <2>1
<1>3. Len(i2got) = Room(i2at) BY <1>1, EmptyBuf, RoomEnds
<1>4. "TXAK" \notin i2cr' /\ Address("S") /\ i2ops' = i2ops BY DEF I2cStart, i2call
<1> QED BY <1>1, <1>2, <1>3, <1>4, EmptyBuf, AddressBuf

\* Entering an operation.
LEMMA EnterStepBuf == ASSUME BusInv, BufInv, I2cEnter PROVE BufInv'
<1>0. /\ i2pc = "enter" /\ Active /\ i2at \in 2 .. Len(i2ops) + 1 /\ i2ops' = i2ops
      /\ Len(i2ops) \in Nat
  BY LenProperties DEF I2cEnter, i2call, BusInv, Position, Active, I2cTypes
<1>1. InOrder /\ NoGap /\ Behind /\ Fresh /\ Counted /\ Acked
  BY <1>0 DEF BufInv, Buffering
<1>2. CASE i2at > Len(i2ops) /\ Finish("ok")
  <2>1. i2at = Len(i2ops) + 1 BY <1>0, <1>2
  <2> QED BY <1>0, <1>2, <2>1, FinishBuf
<1>3. ASSUME i2at <= Len(i2ops)
      PROVE  /\ i2at \in 1 .. Len(i2ops) /\ ~Tailed /\ Nacked = {} /\ "TXAK" \notin i2cr
             /\ Len(i2got) = Room(i2at) /\ I2cOp.read \in BOOLEAN /\ I2cOp.len \in Nat
             /\ Room(i2at) \in Nat
  <2>1. i2at \in 1 .. Len(i2ops) /\ i2at # Len(i2ops) + 1 BY <1>0, <1>3
  <2>2. ~Tailed BY <1>0, <2>1 DEF Tailed
  <2>3. Nacked = {} /\ "TXAK" \notin i2cr BY <1>1, <2>2 DEF Acked
  <2>4. Room(i2at) \in Nat /\ Room(i2at) + 0 = Room(i2at) BY <2>1, RoomOfOp
  <2>5. Len(i2got) = Room(i2at) BY <1>0, <1>1, <2>4 DEF Counted, Filled
  <2> QED BY <2>1, <2>2, <2>3, <2>4, <2>5, OpTypes
<1>4. CASE i2at <= Len(i2ops) /\ Address("Sr") /\ i2cr' = i2cr \cup {"MTX"}
  BY <1>0, <1>1, <1>3, <1>4, AddressBuf
<1>5. CASE /\ i2at <= Len(i2ops) /\ SameDirection /\ FirstByte
           /\ UNCHANGED <<i2sr, i2mbb, i2wire, i2dr, i2got, i2result>>
  <2>1. Prev.read = I2cOp.read BY <1>5 DEF SameDirection, Prev
  <2>2. i2cr' = i2cr /\ i2wire' = i2wire /\ i2got' = i2got /\ i2dr' = i2dr
    BY <1>5 DEF FirstByte, ToOp, WaitFor
  <2>3. InOrder' /\ NoGap' BY <1>1, <2>2, KeptOrder
  <2>4. ~I2cOp.read => i2shift = "none" BY <1>0, <1>1, <2>1 DEF Acked
  <2>5. I2cOp.read /\ i2shift = "none" => Len(i2wire) \in ReceivedAt /\ i2dr = Len(i2wire)
    BY <1>0, <1>1, <2>1 DEF Fresh, Reading
  <2>6. Len(i2wire) \in ReceivedAt => (Len(i2wire) \in ToSet(i2got)' <=> i2shift = "byte")
    BY <1>1, <2>2 DEF Behind
  <2>7. CASE I2cOp.len = 0
    <3>1. ToOp(i2at + 1) /\ i2shift' = i2shift BY <1>5, <2>7 DEF FirstByte
    <3>2. ~TailDue BY <2>7 DEF TailDue
    <3>3. Room(i2at + 1) = Room(i2at) BY <1>3, <1>5, <2>7, RoomOfOp
    <3>4. Len(i2got)' = Room(i2at + 1) BY <1>3, <1>5, <2>2, <3>3
    <3> QED BY <1>0, <1>3, <1>5, <2>2, <2>3, <2>4, <2>5, <2>6, <3>1, <3>2, <3>4, EnterBuf
  <2>8. CASE I2cOp.len # 0 /\ I2cOp.read
    <3>1. PICK j \in Nat : j = 1 OBVIOUS
    <3>2. WaitFor("rx", j) /\ i2shift' = i2shift BY <1>5, <2>8, <3>1 DEF FirstByte
    <3>3. Len(i2got)' = Room(i2at) + (j - 1) BY <1>3, <1>5, <2>2, <3>1
    <3> QED BY <1>0, <1>3, <1>5, <2>2, <2>3, <2>5, <2>6, <2>8, <3>2, <3>3, WaitBuf
  <2>9. CASE I2cOp.len # 0 /\ ~I2cOp.read
    <3>1. PICK j \in Nat : j = 1 OBVIOUS
    <3>2. WaitFor("tx", j) /\ i2shift' = "data"
      BY <1>5, <2>9, <3>1 DEF FirstByte, Transmit
    <3>3. Len(i2got)' = Room(i2at) + 0 BY <1>3, <1>5, <2>2
    <3>4. Len(i2wire) \in ReceivedAt => (Len(i2wire) \in ToSet(i2got)' <=> i2shift' = "byte")
      BY <2>4, <2>6, <2>9, <3>2
    <3> QED BY <1>0, <1>3, <1>5, <2>2, <2>3, <3>2, <3>3, <3>4, WaitBuf
  <2> QED BY <2>7, <2>8, <2>9
<1> QED BY <1>2, <1>4, <1>5 DEF I2cEnter

\* A transaction that fails keeps what it has stored.
LEMMA EndedBuf == ASSUME BusInv, BufInv, I2cLost \/ I2cNack PROVE BufInv'
<1>1. Active BY DEF I2cLost, I2cNack, Completed, Active, I2cWaits
<1>2. i2ops' = i2ops BY DEF I2cLost, I2cNack, i2call
<1>3. \E r : r # "ok" /\ Finish(r)
  <2>1. CASE I2cLost BY <2>1 DEF I2cLost
  <2>2. CASE I2cNack
    <3>1. PICK r : r = (IF i2pc = "addr" THEN "no ack: address" ELSE "no ack: data") OBVIOUS
    <3>2. Finish(r) BY <2>2, <3>1 DEF I2cNack
    <3>3. r # "ok" BY <3>1
    <3> QED BY <3>2, <3>3
  <2> QED BY <2>1, <2>2
<1>4. PICK r : r # "ok" /\ Finish(r) BY <1>3
<1> QED BY <1>1, <1>2, <1>4, FinishBuf

\* Under way, with a byte completed.
LEMMA CompletedBuf ==
  ASSUME BusInv, BufInv, NEW wt \in I2cWaits, Completed(wt)
  PROVE  /\ i2pc = wt /\ i2at \in 1 .. Len(i2ops) /\ i2shift = "none"
         /\ InOrder /\ NoGap /\ Behind /\ Fresh /\ Counted /\ Acked
         /\ Room(i2at) \in Nat /\ I2cOp.read \in BOOLEAN /\ I2cOp.len \in Nat
         /\ Room(i2at + 1) = Room(i2at) + (IF I2cOp.read THEN I2cOp.len ELSE 0)
BY CompletedBus, RoomOfOp, OpTypes DEF BufInv, Buffering

\* After an address: a dummy read, or the first byte of a write.
LEMMA AddressedBuf == ASSUME BusInv, BufInv, I2cAddressed PROVE BufInv'
<1>1. /\ i2pc = "addr" /\ i2at \in 1 .. Len(i2ops) /\ i2shift = "none"
      /\ InOrder /\ NoGap /\ Behind /\ Fresh /\ Counted /\ Acked
      /\ Room(i2at) \in Nat /\ I2cOp.read \in BOOLEAN /\ I2cOp.len \in Nat
      /\ Room(i2at + 1) = Room(i2at) + (IF I2cOp.read THEN I2cOp.len ELSE 0)
  <2>1. "addr" \in I2cWaits BY DEF I2cWaits
  <2> QED BY <2>1, CompletedBuf DEF I2cAddressed
<1>2. i2ops' = i2ops /\ i2wire' = i2wire /\ i2got' = i2got BY DEF I2cAddressed, i2call
<1>3. InOrder' /\ NoGap' BY <1>1, <1>2, KeptOrder
<1>4. Len(i2wire) \notin ReceivedAt /\ ~Tailed BY <1>1 DEF Behind, Tailed
<1>5. Nacked = {} /\ "TXAK" \notin i2cr BY <1>1, <1>4 DEF Acked
<1>6. Len(i2got) = Room(i2at)
  <2>1. Len(i2got) = Room(i2at) + 0 BY <1>1 DEF Counted, Filled
  <2> QED BY <1>1, <2>1
<1>7. "TXAK" \notin i2cr' BY <1>5 DEF I2cAddressed, FirstReceive, FirstByte
<1>8. CASE I2cOp.len = 0
  <2>1. ToOp(i2at + 1) /\ (~I2cOp.read => i2shift' = "none")
        /\ (I2cOp.read => i2shift' = "byte")
    BY <1>1, <1>8 DEF I2cAddressed, FirstReceive, FirstByte, Receive
  <2>2. ~TailDue BY <1>8 DEF TailDue
  <2>3. Len(i2got)' = Room(i2at + 1)
    <3>1. Room(i2at + 1) = Room(i2at) BY <1>1, <1>8
    <3> QED BY <1>2, <1>6, <3>1
  <2> QED BY <1>1, <1>2, <1>3, <1>4, <1>5, <1>7, <2>1, <2>2, <2>3, EnterBuf
<1>9. CASE I2cOp.len # 0 /\ I2cOp.read
  <2>1. PICK j \in Nat : j = 1 OBVIOUS
  <2>2. WaitFor("rx", j) /\ i2shift' = "byte"
    BY <1>9, <2>1 DEF I2cAddressed, FirstReceive, Receive
  <2>3. Len(i2got)' = Room(i2at) + (j - 1) BY <1>1, <1>2, <1>6, <2>1
  <2> QED BY <1>1, <1>2, <1>3, <1>4, <1>5, <1>7, <2>2, <2>3, WaitBuf
<1>10. CASE I2cOp.len # 0 /\ ~I2cOp.read
  <2>1. PICK j \in Nat : j = 1 OBVIOUS
  <2>2. WaitFor("tx", j) BY <1>10, <2>1 DEF I2cAddressed, FirstByte
  <2>3. Len(i2got)' = Room(i2at) + 0 BY <1>1, <1>2, <1>6
  <2> QED BY <1>1, <1>2, <1>3, <1>4, <1>5, <1>7, <2>2, <2>3, WaitBuf
<1> QED BY <1>8, <1>9, <1>10

\* A byte written leaves the buffers alone.
LEMMA TransmitBuf == ASSUME BusInv, BufInv, I2cTransmitData PROVE BufInv'
<1>1. /\ i2pc = "tx" /\ i2at \in 1 .. Len(i2ops) /\ i2shift = "none"
      /\ InOrder /\ NoGap /\ Behind /\ Fresh /\ Counted /\ Acked
      /\ Room(i2at) \in Nat /\ I2cOp.read \in BOOLEAN /\ I2cOp.len \in Nat
      /\ Room(i2at + 1) = Room(i2at) + (IF I2cOp.read THEN I2cOp.len ELSE 0)
  <2>1. "tx" \in I2cWaits BY DEF I2cWaits
  <2> QED BY <2>1, CompletedBuf DEF I2cTransmitData
<1>2. /\ i2ops' = i2ops /\ i2wire' = i2wire /\ i2got' = i2got /\ i2cr' = i2cr
      /\ ~I2cOp.read /\ i2byte \in Nat
  BY <1>1 DEF I2cTransmitData, i2call, BusInv, Position, I2cTypes
<1>3. InOrder' /\ NoGap' BY <1>1, <1>2, KeptOrder
<1>4. Len(i2wire) \notin ReceivedAt \/ Len(i2wire) \notin ToSet(i2got) BY <1>1 DEF Behind
<1>5. ~Tailed /\ ~TailDue BY <1>1, <1>2 DEF Tailed, TailDue
<1>6. Nacked = {} /\ "TXAK" \notin i2cr BY <1>1, <1>5 DEF Acked
<1>7. Len(i2got)' = Room(i2at) + 0 /\ Room(i2at) + 0 = Room(i2at + 1)
  BY <1>1, <1>2 DEF Counted, Filled
<1>8. CASE WaitFor("tx", i2byte + 1) /\ Transmit("data")
  <2>1. PICK j \in Nat : j = i2byte + 1 BY <1>2
  <2>2. WaitFor("tx", j) /\ i2shift' = "data" BY <1>8, <2>1 DEF Transmit
  <2>3. Len(i2wire) \in ReceivedAt => (Len(i2wire) \in ToSet(i2got)' <=> i2shift' = "byte")
    BY <1>2, <1>4, <2>2
  <2> QED BY <1>1, <1>2, <1>3, <1>6, <1>7, <2>2, <2>3, WaitBuf
<1>9. CASE ToOp(i2at + 1) /\ UNCHANGED i2shift
  <2>1. Len(i2wire) \in ReceivedAt => (Len(i2wire) \in ToSet(i2got)' <=> i2shift' = "byte")
    BY <1>1, <1>2, <1>4, <1>9
  <2>2. Len(i2got)' = Room(i2at + 1) BY <1>7
  <2> QED BY <1>1, <1>2, <1>3, <1>5, <1>6, <1>9, <2>1, <2>2, EnterBuf
<1> QED BY <1>8, <1>9 DEF I2cTransmitData

\* The byte received is stored, and the next one starts.
LEMMA ReceiveBuf == ASSUME BusInv, BufInv, I2cReceiveData PROVE BufInv'
<1>1. /\ i2pc = "rx" /\ i2at \in 1 .. Len(i2ops) /\ i2shift = "none"
      /\ InOrder /\ NoGap /\ Behind /\ Fresh /\ Counted /\ Acked
      /\ Room(i2at) \in Nat /\ I2cOp.read \in BOOLEAN /\ I2cOp.len \in Nat
      /\ Room(i2at + 1) = Room(i2at) + (IF I2cOp.read THEN I2cOp.len ELSE 0)
  <2>1. "rx" \in I2cWaits BY DEF I2cWaits
  <2> QED BY <2>1, CompletedBuf DEF I2cReceiveData
<1>2. I2cOp.read /\ i2byte \in 1 .. I2cOp.len /\ i2byte \in Nat
  BY <1>1 DEF BusInv, Position, I2cTypes
<1>3. PICK n \in Nat : n = Len(i2wire) BY ReceivedPlaces
<1>4. n \in ReceivedAt /\ i2dr = n /\ n \notin ToSet(i2got)
  BY <1>1, <1>3 DEF Fresh, Reading, Behind
<1>5. /\ i2ops' = i2ops /\ i2wire' = i2wire /\ i2got' = Append(i2got, n) /\ i2shift' = "byte"
      /\ NackTail
  BY <1>4 DEF I2cReceiveData, i2call, Receive
<1>6. /\ InOrder' /\ NoGap' /\ Len(i2got)' = Len(i2got) + 1 /\ n \in ToSet(i2got)'
  BY <1>1, <1>3, <1>4, <1>5, StoredOrder
<1>7. ~Tailed BY <1>1 DEF Tailed
<1>8. Nacked = {} /\ "TXAK" \notin i2cr BY <1>1, <1>7 DEF Acked
<1>9. Len(i2got)' = Room(i2at) + i2byte
  <2>1. Len(i2got) = Room(i2at) + (i2byte - 1) BY <1>1 DEF Counted, Filled
  <2> QED BY <1>1, <1>2, <1>6, <2>1
<1>10. Len(i2wire) \in ReceivedAt => (Len(i2wire) \in ToSet(i2got)' <=> i2shift' = "byte")
  BY <1>3, <1>5, <1>6
<1>11. "TXAK" \in i2cr' <=> IsLast /\ i2byte = I2cOp.len
  BY <1>5, <1>8 DEF NackTail
<1>12. CASE i2byte < I2cOp.len /\ WaitFor("rx", i2byte + 1)
  <2>1. PICK j \in Nat : j = i2byte + 1 BY <1>2
  <2>2. WaitFor("rx", j) BY <1>12, <2>1
  <2>3. Len(i2got)' = Room(i2at) + (j - 1) BY <1>1, <1>2, <1>9, <2>1
  <2>4. "TXAK" \notin i2cr' BY <1>1, <1>2, <1>11, <1>12
  <2> QED BY <1>1, <1>5, <1>6, <1>8, <1>10, <2>2, <2>3, <2>4, WaitBuf
<1>13. CASE i2byte = I2cOp.len /\ IsLast /\ WaitFor("tail", 0)
  <2>1. "TXAK" \in i2cr' /\ Len(i2got)' = Room(i2at) + I2cOp.len BY <1>9, <1>11, <1>13
  <2> QED BY <1>1, <1>5, <1>6, <1>8, <1>10, <1>13, <2>1, WaitBuf
<1>14. CASE i2byte = I2cOp.len /\ ~IsLast /\ ToOp(i2at + 1)
  <2>1. "TXAK" \notin i2cr' /\ ~TailDue BY <1>11, <1>14 DEF TailDue
  <2>2. Len(i2got)' = Room(i2at + 1) BY <1>1, <1>2, <1>9, <1>14
  <2> QED BY <1>1, <1>2, <1>5, <1>6, <1>8, <1>10, <1>14, <2>1, <2>2, EnterBuf
<1> QED BY <1>12, <1>13, <1>14 DEF I2cReceiveData

\* The trailing byte has come in, not acknowledged; it stays where it is.
LEMMA TailBuf == ASSUME BusInv, BufInv, I2cTail PROVE BufInv'
<1>1. /\ i2pc = "tail" /\ i2at \in 1 .. Len(i2ops) /\ i2shift = "none"
      /\ InOrder /\ NoGap /\ Behind /\ Fresh /\ Counted /\ Acked
      /\ Room(i2at) \in Nat /\ I2cOp.read \in BOOLEAN /\ I2cOp.len \in Nat
      /\ Room(i2at + 1) = Room(i2at) + (IF I2cOp.read THEN I2cOp.len ELSE 0)
  <2>1. "tail" \in I2cWaits BY DEF I2cWaits
  <2> QED BY <2>1, CompletedBuf DEF I2cTail
<1>2. I2cOp.read /\ TailDue BY <1>1 DEF BusInv, Position, TailDue
<1>3. /\ i2ops' = i2ops /\ i2wire' = i2wire /\ i2got' = i2got /\ i2cr' = i2cr /\ i2dr' = i2dr
      /\ i2shift' = "none" /\ ToOp(i2at + 1)
  BY <1>1 DEF I2cTail, i2call
<1>4. InOrder' /\ NoGap' BY <1>1, <1>3, KeptOrder
<1>5. Len(i2wire) \in ReceivedAt /\ i2dr' = Len(i2wire) BY <1>1, <1>3 DEF Fresh, Reading
<1>6. Len(i2wire) \notin ToSet(i2got)' BY <1>1, <1>3, <1>5 DEF Behind
<1>7. Nacked = {Len(i2wire)} /\ "TXAK" \in i2cr' BY <1>1, <1>3 DEF Acked, Tailed
<1>8. Len(i2got)' = Room(i2at + 1) BY <1>1, <1>2, <1>3 DEF Counted, Filled
<1> QED BY <1>1, <1>2, <1>3, <1>4, <1>5, <1>6, <1>7, <1>8, EnterBuf

\* Where the driver stands, and what it expects, when only the byte ends.
LEMMA SameStand ==
  ASSUME UNCHANGED <<i2ops, i2at, i2byte, i2pc>>
  PROVE  /\ Tailed' <=> Tailed
         /\ Reading' <=> Reading
         /\ Filled' = Filled /\ Prev' = Prev /\ Active' = Active
BY DEF Tailed, Reading, Filled, Room, ReadPieces, I2cOp, Prev, Active

\* The end of a byte: received, not yet stored, acknowledged unless it is the tail.
LEMMA ShiftBuf == ASSUME BusInv, BufInv, I2cShift PROVE BufInv'
<1>1. /\ i2shift' = "none" /\ i2shift # "none"
      /\ UNCHANGED <<i2ops, i2at, i2byte, i2pc, i2got, i2cr, i2result>>
  BY DEF I2cShift, i2call
<1>2. /\ Tailed' <=> Tailed
      /\ Reading' <=> Reading
      /\ Filled' = Filled /\ Prev' = Prev /\ Active' = Active
  BY <1>1, SameStand
<1>3. CASE i2pc \in {"idle", "bus"}
  BY <1>1, <1>3 DEF BufInv, Active, I2cWaits
<1>4. CASE i2pc = "done"
  <2>1. i2ops = <<>> BY <1>1, <1>4 DEF BusInv, Ownership
  <2>2. i2got = <<>> /\ i2wire = <<>> BY <1>1, <1>4, <2>1 DEF BufInv, Buffered
  <2>3. \E e \in Events : i2wire' = Append(i2wire, e) BY <1>4, ShiftedByte
  <2>4. Len(i2wire)' = 1 BY <2>2, <2>3
  <2>5. Buffered' BY <1>1, <2>1, <2>2, <2>4 DEF Buffered
  <2> QED BY <1>1, <1>4, <2>5 DEF BufInv, Active, I2cWaits
<1>5. CASE Active
  <2>0. InOrder /\ NoGap /\ Behind /\ Fresh /\ Counted /\ Acked
    BY <1>5 DEF BufInv, Buffering
  <2>1. PICK e \in Events :
          /\ i2wire' = Append(i2wire, e)
          /\ \/ i2shift = "byte" /\ e = <<"byte", "TXAK" \notin i2cr>>
             \/ /\ i2shift = "addr" /\ e[1] = "addr"
                /\ i2pc = "addr" => e = <<"addr", I2cOp.read>>
             \/ i2shift = "data" /\ e = <<"data", i2at, i2byte>>
    BY <1>5, ShiftedByte DEF Active, I2cWaits
  <2>2. Counted' BY <1>1, <1>2, <2>0 DEF Counted
  <2>3. CASE i2shift = "byte"
    <3>1. PICK b \in BOOLEAN : b = ("TXAK" \notin i2cr) OBVIOUS
    <3>2. e = <<"byte", b>> BY <2>1, <2>3, <3>1
    <3>3. e[1] = "byte" /\ e[2] = b BY <3>2
    <3>4. Len(i2wire) \in ReceivedAt => Len(i2wire) \in ToSet(i2got) BY <2>0, <2>3 DEF Behind
    <3>5. /\ InOrder' /\ NoGap' /\ Len(i2wire)' = Len(i2wire) + 1
          /\ Len(i2wire)' \in ReceivedAt' /\ Len(i2wire)' \notin ToSet(i2got)'
      BY <1>1, <2>0, <2>1, <3>3, <3>4, ReceivedOrder
    <3>6. i2pc # "addr" BY <2>3 DEF BusInv, Ownership
    <3>7. i2dr' = Len(i2wire)' BY <2>3 DEF I2cShift
    <3>8. Behind' BY <1>1, <3>5, <3>6 DEF Behind
    <3>9. Fresh' BY <3>5, <3>7 DEF Fresh
    <3>10. b <=> ~Tailed BY <2>0, <3>1 DEF Acked
    <3>11. Nacked = {} BY <2>0, <2>3 DEF Acked
    <3>12. Nacked' = IF ~b THEN Nacked \cup {Len(i2wire) + 1} ELSE Nacked
      BY <2>1, <3>3, ReceivedGrows
    <3>13. Nacked' = IF Tailed THEN {Len(i2wire)'} ELSE {} BY <3>5, <3>10, <3>11, <3>12
    <3>14. Acked' BY <1>1, <1>2, <2>0, <3>13 DEF Acked
    <3> QED BY <1>1, <1>4, <1>5, <2>2, <3>5, <3>8, <3>9, <3>14
            DEF BufInv, Buffering, Active, I2cWaits
  <2>4. CASE i2shift \in {"addr", "data"}
    <3>1. e[1] # "byte" BY <2>1, <2>4
    <3>2. i2pc \in {"addr", "tx"} BY <1>5, <2>4 DEF BusInv, Ownership, Active, I2cWaits
    <3>3. /\ InOrder' /\ NoGap' /\ Nacked' = Nacked /\ Len(i2wire)' \notin ReceivedAt'
      BY <1>1, <2>0, <2>1, <3>1, DrivenOrder
    <3>4. ~Tailed /\ ~Reading BY <3>2 DEF Tailed, Reading
    <3>5. Behind' BY <3>3 DEF Behind
    <3>6. Fresh' BY <1>2, <3>4 DEF Fresh
    <3>7. Nacked = {} BY <2>0, <3>4 DEF Acked
    <3>8. Acked' BY <1>1, <1>2, <2>0, <3>3, <3>4, <3>7 DEF Acked
    <3> QED BY <1>1, <3>2, <2>2, <3>3, <3>5, <3>6, <3>8
            DEF BufInv, Buffering, Active, I2cWaits
  <2> QED BY <1>1, <2>3, <2>4 DEF BusInv, I2cTypes
<1> QED BY <1>3, <1>4, <1>5 DEF BusInv, I2cTypes, Active

\* A byte lost to another master stores nothing.
LEMMA ArbitrationBuf == ASSUME BusInv, BufInv, I2cArbitration PROVE BufInv'
<1>1. /\ i2shift' = "none" /\ i2shift \in {"addr", "data"} /\ i2cr' = i2cr \ {"MSTA"}
      /\ UNCHANGED <<i2ops, i2at, i2byte, i2pc, i2wire, i2got, i2dr, i2result>>
  BY DEF I2cArbitration, i2call
<1>2. /\ Tailed' <=> Tailed
      /\ Reading' <=> Reading
      /\ Filled' = Filled /\ Prev' = Prev /\ Active' = Active
  BY <1>1, SameStand
<1>3. CASE i2pc \in {"idle", "bus"}
  BY <1>1, <1>3 DEF BufInv, Active, I2cWaits
<1>4. CASE i2pc = "done"
  <2>1. i2ops = <<>> BY <1>1, <1>4 DEF BusInv, Ownership
  <2>2. i2got = <<>> /\ i2wire = <<>> BY <1>1, <1>4, <2>1 DEF BufInv, Buffered
  <2>3. Buffered' BY <1>1, <2>1, <2>2 DEF Buffered
  <2> QED BY <1>1, <1>4, <2>3 DEF BufInv, Active, I2cWaits
<1>5. CASE Active
  <2>0. InOrder /\ NoGap /\ Behind /\ Fresh /\ Counted /\ Acked
    BY <1>5 DEF BufInv, Buffering
  <2>1. i2pc \in {"addr", "tx"} BY <1>1, <1>5 DEF BusInv, Ownership, Active, I2cWaits
  <2>2. InOrder' /\ NoGap' /\ ReceivedAt' = ReceivedAt /\ Nacked' = Nacked
    BY <1>1, <2>0, KeptOrder
  <2>3. ~Tailed /\ ~Reading BY <2>1 DEF Tailed, Reading
  <2>4. Behind' BY <1>1, <2>0, <2>2 DEF Behind
  <2>5. Fresh' BY <1>2, <2>3 DEF Fresh
  <2>6. Counted' BY <1>1, <1>2, <2>0 DEF Counted
  <2>7. Nacked = {} /\ "TXAK" \notin i2cr BY <2>0, <2>3 DEF Acked
  <2>8. Acked' BY <1>1, <1>2, <2>2, <2>3, <2>7 DEF Acked
  <2> QED BY <1>1, <2>1, <2>2, <2>4, <2>5, <2>6, <2>8
          DEF BufInv, Buffering, Active, I2cWaits
<1> QED BY <1>3, <1>4, <1>5 DEF BusInv, I2cTypes, Active

\* The transaction is not touched.
LEMMA BufQuiet ==
  ASSUME BufInv,
         UNCHANGED <<i2ops, i2at, i2byte, i2pc, i2shift, i2wire, i2got, i2result, i2dr>>,
         "TXAK" \in i2cr' <=> "TXAK" \in i2cr
  PROVE  BufInv'
<1>1. /\ Tailed' <=> Tailed
      /\ Reading' <=> Reading
      /\ Filled' = Filled /\ Prev' = Prev /\ Active' = Active
  BY SameStand
<1>2. ReceivedAt' = ReceivedAt BY DEF ReceivedAt
<1>3. Nacked' = Nacked BY <1>2 DEF Nacked
<1>4. InOrder' = InOrder /\ NoGap' = NoGap BY <1>2 DEF InOrder, NoGap
<1>5. Behind => Behind' BY <1>2 DEF Behind
<1>6. Fresh => Fresh' BY <1>1, <1>2 DEF Fresh
<1>7. Counted => Counted' BY <1>1 DEF Counted
<1>8. Acked => Acked' BY <1>1, <1>3 DEF Acked
<1>9. Buffering => Buffering' BY <1>4, <1>5, <1>6, <1>7, <1>8 DEF Buffering
<1>10. Buffered => Buffered' BY <1>3, <1>4 DEF Buffered, ReadPieces
<1> QED BY <1>1, <1>9, <1>10 DEF BufInv

\* Every step stores what has been received, in order.
LEMMA BufStep == ASSUME BusInv, BufInv, [I2cNext]_i2vars PROVE BufInv'
<1>1. CASE Aside \/ UNCHANGED i2vars BY <1>1, AsideBus, BufQuiet
<1>2. CASE I2cCall
  <2>1. i2got' = <<>> /\ i2wire' = <<>> BY <1>2 DEF I2cCall, BusInv, Ownership
  <2>2. CASE i2ops' = <<>>
    <3>1. Buffered' BY <2>1, <2>2 DEF Buffered
    <3> QED BY <1>2, <2>2, <3>1 DEF I2cCall, BufInv, Active, I2cWaits
  <2>3. CASE i2ops' # <<>> BY <1>2, <2>3 DEF I2cCall, BufInv, Active, I2cWaits
  <2> QED BY <2>2, <2>3
<1>3. CASE I2cReturn BY <1>3 DEF I2cReturn, BufInv, Active, I2cWaits
<1>4. CASE I2cDrop BY <1>4 DEF I2cDrop, BufInv, Active, I2cWaits
<1> QED BY <1>1, <1>2, <1>3, <1>4, StartStepBuf, EnterStepBuf, EndedBuf, AddressedBuf,
           TransmitBuf, ReceiveBuf, TailBuf, ShiftBuf, ArbitrationBuf
        DEF I2cNext, I2cDriver, Aside

\* The bytes stored are the bytes received, one place behind the bus (I2cBuffers).
LEMMA BuffersHold == ASSUME BusInv, BufInv PROVE I2cBuffers
<1>1. ASSUME InOrder
      PROVE  /\ \A k \in 1 .. (Len(i2got) - 1) : i2got[k] < i2got[k + 1]
             /\ ToSet(i2got) \subseteq ReceivedAt
  <2>1. PICK n \in Nat : n = Len(i2got) BY <1>1, LenProperties DEF InOrder
  <2>2. DOMAIN i2got = 1 .. n BY <1>1, <2>1, LenProperties DEF InOrder
  <2>3. ToSet(i2got) \subseteq ReceivedAt BY <1>1, <2>1, <2>2 DEF InOrder, ToSet
  <2>4. \A k \in 1 .. n - 1 : k \in 1 .. n /\ k < n BY <2>1
  <2> QED BY <1>1, <2>1, <2>3, <2>4 DEF InOrder
<1>2. ASSUME i2wire = <<>> \/ Len(i2wire) = 1, i2got = <<>>
      PROVE  InOrder /\ NoGap
  <2>1. CASE i2wire = <<>> BY <1>2, <2>1, EmptyBuf
  <2>2. CASE Len(i2wire) = 1
    <3>1. \A n \in ReceivedAt : n + 1 \notin ReceivedAt BY <2>2, ReceivedPlaces
    <3>2. i2got \in Seq(Nat) /\ Len(i2got) = 0 BY <1>2
    <3> QED BY <3>1, <3>2 DEF InOrder, NoGap
  <2> QED BY <1>2, <2>1, <2>2
<1>3. i2pc # "idle" => InOrder /\ NoGap
  <2>1. CASE Active BY <2>1 DEF BufInv, Buffering
  <2>2. CASE i2pc = "bus" BY <2>2, EmptyBuf DEF BusInv, Ownership
  <2>3. CASE i2pc = "done" BY <1>2, <2>3 DEF BufInv, Buffered
  <2> QED BY <2>1, <2>2, <2>3 DEF Active, BusInv, I2cTypes
<1>4. ASSUME i2result = "ok", i2ops # <<>>
      PROVE  /\ Len(i2got) = Len(FlattenSeq(ReadPieces(i2ops)))
             /\ Nacked = IF Last(i2ops).read /\ Last(i2ops).len > 0
                         THEN {Len(i2wire) - 1} \ ToSet(i2got) ELSE {}
  BY <1>4 DEF BusInv, Ownership, BufInv, Buffered
<1> QED BY <1>1, <1>3, <1>4 DEF I2cBuffers, NoGap, Nacked

\* What is driven on the bus is what the operations mean (I2cWire), for every
\* transaction and whatever the slave and other masters do.
THEOREM I2cWireInvariance == I2cSpec => []I2cWire
<1>1. I2cInit => BusInv /\ WireInv
  <2>1. I2cInit => WireInv BY DEF I2cInit, WireInv
  <2> QED BY <2>1, BusStarts
<1>2. BusInv /\ WireInv /\ [I2cNext]_i2vars => BusInv' /\ WireInv' BY BusStep, WireStep
<1>3. BusInv /\ WireInv => I2cWire BY WireHolds
<1> QED BY <1>1, <1>2, <1>3, PTL DEF I2cSpec

\* The buffers get the bytes received, in order, without a gap, for every transaction;
\* one whose final read is not empty refuses exactly the byte after the last, every
\* other one refuses none (I2cBuffers).
THEOREM I2cBuffersInvariance == I2cSpec => []I2cBuffers
<1>1. I2cInit => BusInv /\ BufInv
  <2>1. I2cInit => BufInv BY DEF I2cInit, BufInv, Active, I2cWaits
  <2> QED BY <2>1, BusStarts
<1>2. BusInv /\ BufInv /\ [I2cNext]_i2vars => BusInv' /\ BufInv' BY BusStep, BufStep
<1>3. BusInv /\ BufInv => I2cBuffers BY BuffersHold
<1> QED BY <1>1, <1>2, <1>3, PTL DEF I2cSpec

(***************************************************************************)
(* Frame lengths.                                                          *)
(***************************************************************************)

\* The least of two numbers, and of three.
LEMMA LeastOfTwo ==
  ASSUME NEW m \in Nat, NEW n \in Nat
  PROVE  Least({m, n}) = IF m <= n THEN m ELSE n
<1>1. \E x \in {m, n} : \A y \in {m, n} : x <= y OBVIOUS
<1>2. Least({m, n}) \in {m, n} /\ \A y \in {m, n} : Least({m, n}) <= y
  BY <1>1 DEF Least, Min
<1> QED BY <1>2

\* Least returns the smallest of three numbers.
LEMMA LeastOfThree ==
  ASSUME NEW m \in Nat, NEW n \in Nat, NEW o \in Nat
  PROVE  /\ Least({m, n, o}) \in {m, n, o}
         /\ Least({m, n, o}) <= m /\ Least({m, n, o}) <= n /\ Least({m, n, o}) <= o
<1>1. \E x \in {m, n, o} : \A y \in {m, n, o} : x <= y OBVIOUS
<1> QED BY <1>1 DEF Least, Min

\* A length within the bound survives its way through the PHR.
LEMMA PhrRoundTrip ==
  ASSUME NEW n \in 0 .. MAX_PSDU
  PROVE  /\ PhrFor(n) = n + 2 /\ PhrFor(n) \in MIN_PHR .. MAX_PHR
         /\ FrameLength(PhrFor(n)) = n
BY DEF PhrFor, U8, FrameLength, SatSub, MAX_PSDU, MAX_PHR, MIN_PHR

FramePlaces == {"none", "buffer", "packet", "taken", "read"}

\* Where the frame is and what its length is there: the sender's buffer makes
\* the length that is asked for, the air carries it, the receiver's buffer has
\* it in its PHR and as many new bytes.
FrameInv ==
  /\ flat \in FramePlaces /\ flsent \in Nat /\ flpacket \in Nat
  /\ flat = "buffer" =>
       /\ flbuf.size \in Nat \ {0} /\ flbuf.phr \in Nat
       /\ TransmitLength = flsent
  /\ flat = "packet" => Least({flpacket, MAX_PSDU}) = flsent
  /\ flat = "taken" =>
       /\ Least({flpacket, MAX_PSDU}) = flsent
       /\ flrx = [size |-> 128, phr |-> PhrFor(flsent), new |-> flsent]
  /\ flat = "read" => flview = {flsent} /\ flsent <= flrx.new
  /\ ~flpanic

\* Composing a frame leaves a buffer whose length every sender agrees on.
LEMMA ComposeStep ==
  ASSUME FrameInv, NEW size \in 1 .. 128, NEW phr \in 0 .. 255,
         NEW psdu \in Nat, Compose(size, phr, psdu),
         psdu = Least({FrameLength(phr), MAX_PSDU, size - 1})
  PROVE  FrameInv'
<1>1. flbuf' = [size |-> size, phr |-> phr] /\ flsent' = psdu /\ flat' = "buffer"
      /\ flpacket' = flpacket /\ flpanic' = flpanic
  BY DEF Compose
<1>2. TransmitLength' = psdu
  BY <1>1 DEF TransmitLength, SatSub
<1> QED BY <1>1, <1>2 DEF FrameInv, FramePlaces

\* A frame whose PHR is written for n bytes, n within MAX_PSDU and the
\* buffer, is read back as n bytes.
LEMMA ComposeFits ==
  ASSUME FrameInv, NEW size \in 1 .. 128, NEW n \in 0 .. MAX_PSDU, n < size,
         Compose(size, PhrFor(n), n)
  PROVE  FrameInv'
<1>1. PhrFor(n) \in 0 .. 255 /\ FrameLength(PhrFor(n)) = n
  BY PhrRoundTrip DEF MIN_PHR, MAX_PHR
<1>2. n \in Nat /\ MAX_PSDU \in Nat /\ size - 1 \in Nat /\ n <= MAX_PSDU /\ n <= size - 1
  BY DEF MAX_PSDU, MAX_PHR
<1>3. Least({n, MAX_PSDU, size - 1}) = n BY <1>2, LeastOfThree
<1> QED BY <1>1, <1>2, <1>3, ComposeStep

\* Every way to compose a frame and every way to read it keeps the invariant
\* of layout.rs.
LEMMA FrameStep == FrameInv /\ [FrameNext]_flvars => FrameInv'
<1> SUFFICES ASSUME FrameInv, [FrameNext]_flvars PROVE FrameInv'
  OBVIOUS
<1>c. MAX_PSDU = 125 BY DEF MAX_PSDU, MAX_PHR
<1>l. FrameLengths \subseteq Nat /\ SliceLengths \subseteq 1 .. 128
  BY FrameAssumption
<1>1. CASE ComposeToken
  <2>1. PICK n \in FrameLengths :
          Compose(128, PhrFor(Least({n, MAX_PSDU})), Least({n, MAX_PSDU}))
    BY <1>1 DEF ComposeToken
  <2>2. Least({n, MAX_PSDU}) \in 0 .. MAX_PSDU
    <3>1. n \in Nat /\ MAX_PSDU \in Nat BY <1>c, <1>l
    <3>2. Least({n, MAX_PSDU}) = IF n <= MAX_PSDU THEN n ELSE MAX_PSDU
      BY <3>1, LeastOfTwo
    <3> QED BY <3>1, <3>2
  <2>3. 128 \in 1 .. 128 /\ Least({n, MAX_PSDU}) < 128 BY <1>c, <2>2
  <2> QED BY <2>1, <2>2, <2>3, ComposeFits, ZenonT(40)
<1>2. CASE ComposeFrame
  BY <1>2, <1>c, <1>l, ComposeFits DEF ComposeFrame
<1>3. CASE ComposeRaw
  <2>1. PICK size \in SliceLengths :
          \/ \E n \in FrameLengths : n <= MAX_PSDU /\ n < size /\ Compose(size, PhrFor(n), n)
          \/ \E phr \in 0 .. 255 :
               Compose(size, phr, Least({FrameLength(phr), MAX_PSDU, size - 1}))
    BY <1>3 DEF ComposeRaw
  <2>2. size \in 1 .. 128 BY <1>l
  <2>3. ASSUME NEW n \in FrameLengths, n <= MAX_PSDU, n < size,
               Compose(size, PhrFor(n), n)
        PROVE  FrameInv'
    <3>1. n \in 0 .. MAX_PSDU BY <1>c, <1>l, <2>3
    <3> QED BY <2>2, <2>3, <3>1, ComposeFits, ZenonT(40)
  <2>4. ASSUME NEW phr \in 0 .. 255,
               Compose(size, phr, Least({FrameLength(phr), MAX_PSDU, size - 1}))
        PROVE  FrameInv'
    <3>1. FrameLength(phr) \in Nat /\ size - 1 \in Nat
      BY <2>2 DEF FrameLength, SatSub
    <3>2. Least({FrameLength(phr), MAX_PSDU, size - 1}) \in Nat
      BY <1>c, <3>1, LeastOfThree
    <3> QED BY <2>2, <2>4, <3>2, ComposeStep
  <2> QED BY <2>1, <2>3, <2>4
<1>4. CASE PrepareTransmit
  <2>1. /\ flat = "buffer" /\ flat' = "packet" /\ flsent' = flsent
        /\ flpacket' = Least({TransmitLength, MAX_PSDU})
        /\ flpanic' = (1 + TransmitLength > flbuf.size)
    BY <1>4 DEF PrepareTransmit, Queue
  <2>2. flbuf.size \in Nat \ {0} /\ flbuf.phr \in Nat /\ TransmitLength = flsent
    BY <2>1 DEF FrameInv
  <2>3. FrameLength(flbuf.phr) \in Nat /\ SatSub(flbuf.size, 1) = flbuf.size - 1
    BY <2>2 DEF FrameLength, SatSub
  <2>4. TransmitLength \in Nat /\ TransmitLength <= MAX_PSDU
        /\ TransmitLength <= flbuf.size - 1
    BY <1>c, <2>2, <2>3, LeastOfThree DEF TransmitLength
  <2>5. flpacket' = flsent BY <1>c, <2>1, <2>2, <2>4, LeastOfTwo
  <2>6. Least({flpacket', MAX_PSDU}) = flsent BY <1>c, <2>2, <2>4, <2>5, LeastOfTwo
  <2>7. ~flpanic'
    <3>1. ~(1 + TransmitLength > flbuf.size) BY <2>2, <2>4
    <3> QED BY <2>1, <3>1, Zenon
  <2>8. flsent \in Nat BY DEF FrameInv
  <2> QED BY <2>1, <2>5, <2>6, <2>7, <2>8 DEF FrameInv, FramePlaces
<1>5. CASE StartTransmit
  <2>1. PICK n \in FrameLengths : /\ flat' = "packet"
                                  /\ flpacket' = Least({n, MAX_PSDU})
                                  /\ flsent' = Least({n, MAX_PSDU})
                                  /\ flpanic' = flpanic
    BY <1>5 DEF StartTransmit, Queue
  <2>2. flpacket' \in Nat /\ flpacket' <= MAX_PSDU BY <1>c, <1>l, <2>1, LeastOfTwo
  <2>3. Least({flpacket', MAX_PSDU}) = flpacket' BY <1>c, <2>2, LeastOfTwo
  <2> QED BY <2>1, <2>2, <2>3 DEF FrameInv, FramePlaces
<1>6. CASE OnAir
  <2>1. PICK n \in FrameLengths : /\ flat' = "packet"
                                  /\ flpacket' = U8(n)
                                  /\ flsent' = Least({U8(n), MAX_PSDU})
                                  /\ flpanic' = flpanic
    BY <1>6 DEF OnAir
  <2>2. flpacket' \in Nat BY <1>l, <2>1 DEF U8
  <2>3. flsent' \in Nat BY <1>c, <2>1, <2>2, LeastOfTwo
  <2> QED BY <2>1, <2>2, <2>3 DEF FrameInv, FramePlaces
<1>7. CASE ReceiveFrame
  <2>1. /\ flat = "packet" /\ flat' = "taken"
        /\ flrx' = [size |-> 128, phr |-> U8(Copied(127) + 2), new |-> Copied(127)]
        /\ flsent' = flsent /\ flpacket' = flpacket /\ flpanic' = flpanic
    BY <1>7 DEF ReceiveFrame
  <2>2. flpacket \in Nat /\ flsent \in Nat /\ Least({flpacket, MAX_PSDU}) = flsent
    BY <2>1 DEF FrameInv
  <2>3. Copied(127) = flsent
    BY <1>c, <2>2, LeastOfTwo, LeastOfThree DEF Copied
  <2>4. flrx' = [size |-> 128, phr |-> PhrFor(flsent), new |-> flsent]
    BY <2>1, <2>3 DEF PhrFor
  <2> QED BY <2>1, <2>2, <2>4 DEF FrameInv, FramePlaces
<1>8. CASE GetReceived
  <2>1. PICK size \in SliceLengths : /\ flat = "packet" /\ flat' = "read"
          /\ flview' = {Copied(size)} /\ flsent' = Least({flsent, size})
          /\ flrx' = [flrx EXCEPT !.size = size, !.new = Copied(size)]
          /\ flpacket' = flpacket /\ flpanic' = flpanic
    BY <1>8 DEF GetReceived
  <2>2. flpacket \in Nat /\ flsent \in Nat /\ Least({flpacket, MAX_PSDU}) = flsent
        /\ size \in Nat
    BY <1>l, <2>1 DEF FrameInv
  <2>3. Copied(size) = Least({flsent, size})
    BY <1>c, <2>2, LeastOfTwo, LeastOfThree DEF Copied
  <2>4. Least({flsent, size}) \in Nat BY <2>2, LeastOfTwo
  <2>5. flrx'.new = Copied(size) BY <2>1
  <2> QED BY <2>1, <2>2, <2>3, <2>4, <2>5 DEF FrameInv, FramePlaces
<1>9. CASE ReadFrame
  <2>1. /\ flat = "taken" /\ flat' = "read"
        /\ flview' = {Region(flrx.size, flrx.phr)}
              \cup IF Checked(flrx.size, flrx.phr) THEN {FrameLength(flrx.phr)} ELSE {0}
        /\ flpanic' = (1 + Region(flrx.size, flrx.phr) > flrx.size)
        /\ flsent' = flsent /\ flpacket' = flpacket /\ flrx' = flrx
    BY <1>9 DEF ReadFrame
  <2>2. /\ flrx.size = 128 /\ flrx.phr = PhrFor(flsent) /\ flrx.new = flsent
        /\ flsent \in Nat /\ flpacket \in Nat
        /\ Least({flpacket, MAX_PSDU}) = flsent
    BY <2>1 DEF FrameInv
  <2>3. flsent \in 0 .. MAX_PSDU BY <1>c, <2>2, LeastOfTwo
  <2>4. /\ PhrFor(flsent) = flsent + 2 /\ FrameLength(PhrFor(flsent)) = flsent
        /\ PhrFor(flsent) \in MIN_PHR .. MAX_PHR
    BY <2>3, PhrRoundTrip
  <2>5. SatSub(128, 1) = 127 BY DEF SatSub
  <2>6. Region(flrx.size, flrx.phr) = flsent
    BY <1>c, <2>2, <2>3, <2>4, <2>5, LeastOfTwo DEF Region
  <2>7. Checked(flrx.size, flrx.phr)
    BY <1>c, <2>2, <2>3, <2>4 DEF Checked
  <2>8. flview' = {flsent} BY <2>1, <2>2, <2>4, <2>6, <2>7
  <2>9. ~flpanic'
    <3>1. ~(1 + Region(flrx.size, flrx.phr) > flrx.size)
      BY <1>c, <2>2, <2>3, <2>6
    <3> QED BY <2>1, <3>1, Zenon
  <2> QED BY <2>1, <2>2, <2>8, <2>9 DEF FrameInv, FramePlaces
<1>10. CASE FrameAgain
  BY <1>10 DEF FrameAgain, FrameInv, FramePlaces
<1>11. CASE UNCHANGED flvars
  BY <1>11 DEF flvars, FrameInv, TransmitLength
<1> QED
  BY <1>1, <1>2, <1>3, <1>4, <1>5, <1>6, <1>7, <1>8, <1>9, <1>10, <1>11
     DEF FrameNext

\* Whatever lengths callers, slices and other radios choose: what a reader
\* sees is what the sender asked for, every received buffer passes
\* new_checked, and no first byte takes a function out of its slice.
THEOREM FramesSurvive == FrameSpec => []FrameSurvives
<1>1. FrameInit => FrameInv BY DEF FrameInit, FrameInv, FramePlaces
<1>2. FrameInv => FrameSurvives BY DEF FrameInv, FrameSurvives
<1> QED BY <1>1, <1>2, FrameStep, PTL DEF FrameSpec

(***************************************************************************)
(* The SPI: one word out for each word in.                                 *)
(***************************************************************************)

SpiWaits == {"enable", "wait", "parked"}

SpiData == {<<"0xFF">>} \cup {<<"write", k>> : k \in Nat}
             \cup {<<"in place", k>> : k \in Nat}

SpiTypeOK ==
  /\ spcall \in SpiCalls \cup {SpiNoCall}
  /\ sppc \in {"idle", "start", "done"} \cup SpiWaits
  /\ spi \in Nat /\ sprx \in Nat
  /\ spshift \in BOOLEAN /\ spint \in BOOLEAN /\ spclean \in BOOLEAN
  /\ spwire \in Seq(SpiData)
  /\ spgot \in Seq(Nat)
  /\ sppc # "idle" => spcall \in SpiCalls
  /\ sppc = "idle" => spwire = <<>> /\ spgot = <<>>

\* While an operation is under way that found the module idle: between two
\* words the module is idle again; during a word either the transfer or its
\* completion is pending, never both, and the completion answers that word.
\* As many words were stored as came in and had room.
SpiLockstep ==
  sppc # "idle" /\ spclean =>
    /\ spi <= SpiWords
    /\ sppc \in {"start", "done"} => ~spshift /\ ~spint /\ Len(spwire) = spi
    /\ sppc = "done" => spi = SpiWords
    /\ sppc \in SpiWaits =>
         /\ spi < SpiWords /\ Len(spwire) = spi + 1
         /\ spshift <=> ~spint
         /\ spint => sprx = Len(spwire)
    /\ \A k \in 1 .. Len(spwire) : spwire[k] = SpiWord(k - 1)
    /\ Len(spgot) = IF spi <= spcall.read THEN spi ELSE spcall.read
    /\ \A k \in 1 .. Len(spgot) : spgot[k] = k

SpiInv == SpiTypeOK /\ SpiLockstep

\* The word of each transfer is the one the operation means.
LEMMA SpiWordMeant ==
  ASSUME spcall \in SpiCalls
  PROVE  /\ spcall.read \in Nat /\ spcall.write \in Nat /\ SpiWords \in Nat
         /\ spcall.read <= SpiWords
         /\ DOMAIN OnTheWire(spcall) = 1 .. SpiWords
         /\ \A k \in 1 .. SpiWords : OnTheWire(spcall)[k] = SpiWord(k - 1)
<1>0. spcall.read \in Nat /\ spcall.write \in Nat
  <2>1. spcall.read \in SpiLengths \cup {0} /\ spcall.write \in SpiLengths \cup {0}
    BY DEF SpiCalls
  <2>2. SpiLengths \cup {0} \subseteq Nat BY SpiAssumption
  <2> QED BY <2>1, <2>2
<1>1. SpiWords \in Nat /\ spcall.read <= SpiWords BY <1>0 DEF SpiWords, SpiMax
<1>2. DOMAIN OnTheWire(spcall) = 1 .. SpiWords BY DEF OnTheWire, SpiWords
<1>3. ASSUME NEW k \in 1 .. SpiWords
      PROVE  OnTheWire(spcall)[k] = SpiWord(k - 1)
  <2>1. OnTheWire(spcall)[k] =
          CASE spcall.kind = "read" -> <<"0xFF">>
            [] spcall.kind = "write" -> <<"write", k - 1>>
            [] spcall.kind = "in place" -> <<"in place", k - 1>>
            [] spcall.kind = "transfer" /\ k <= spcall.write -> <<"write", k - 1>>
            [] OTHER -> <<"0xFF">>
    BY DEF OnTheWire, SpiWords
  <2>2. k \in Nat /\ k >= 1 BY <1>1
  <2>3. CASE spcall.kind = "read" \/ spcall.kind = "in place"
    <3>1. spcall.write = 0 BY <2>3 DEF SpiCalls
    <3>2. ~(k - 1 < spcall.write) BY <2>2, <3>1
    <3>4. SpiWord(k - 1) = IF spcall.kind = "in place" THEN <<"in place", k - 1>> ELSE <<"0xFF">>
      BY <3>2, Zenon DEF SpiWord
    <3>3. spcall.kind = "read" \/ (spcall.kind = "in place" /\ spcall.kind # "read" /\ spcall.kind # "write")
      BY <2>3
    <3> QED BY <2>1, <3>3, <3>4
  <2>4. CASE spcall.kind = "write"
    <3>1. spcall.read = 0 BY <2>4 DEF SpiCalls
    <3>2. SpiWords = spcall.write BY <1>0, <3>1 DEF SpiWords, SpiMax
    <3> QED BY <1>0, <2>1, <2>2, <2>4, <3>2 DEF SpiWord
  <2>5. CASE spcall.kind = "transfer"
    BY <1>0, <2>1, <2>2, <2>5 DEF SpiWord
  <2> QED BY <2>3, <2>4, <2>5 DEF SpiCalls
<1> QED BY <1>0, <1>1, <1>2, <1>3

\* The word the k-th exchange sends is one the wire can carry.
LEMMA SpiWordData == ASSUME NEW k \in Nat PROVE SpiWord(k) \in SpiData
BY DEF SpiWord, SpiData

\* What a step that keeps the call keeps of its words.
LEMMA SpiSameCall ==
  ASSUME spcall' = spcall
  PROVE  SpiWords' = SpiWords /\ \A k \in Nat : SpiWord(k)' = SpiWord(k)
BY DEF SpiWords, SpiWord

\* Every step of an SPI operation keeps words, wire and buffer in step.
LEMMA SpiStep == SpiInv /\ [SpiNext]_spvars => SpiInv'
<1> SUFFICES ASSUME SpiInv, [SpiNext]_spvars PROVE SpiInv'
  OBVIOUS
<1>t. SpiTypeOK /\ SpiLockstep BY DEF SpiInv
<1>w. sppc # "idle" =>
        spcall.read \in Nat /\ SpiWords \in Nat /\ spcall.read <= SpiWords
  BY <1>t, SpiWordMeant DEF SpiTypeOK
<1>1. CASE SpiCall
  <2>1. /\ spcall' \in SpiCalls /\ sppc' = "start" /\ spi' = 0
        /\ spclean' = (~spshift /\ ~spint)
        /\ UNCHANGED <<spshift, spint, sprx, spwire, spgot>> /\ sppc = "idle"
    BY <1>1 DEF SpiCall
  <2>2. SpiTypeOK' BY <1>t, <2>1 DEF SpiTypeOK
  <2>3. (spcall \in SpiCalls)' BY <2>1
  <2>4. (spcall.read \in Nat /\ SpiWords \in Nat /\ spcall.read <= SpiWords)'
    BY <2>3, SpiWordMeant, PTL
  <2>5. spwire' = <<>> /\ spgot' = <<>> BY <1>t, <2>1 DEF SpiTypeOK
  <2>6. Len(spwire') = 0 /\ Len(spgot') = 0 BY <2>5
  <2>7. SpiLockstep'
    <3> SUFFICES ASSUME spclean' PROVE SpiLockstep'
      BY DEF SpiLockstep
    <3>1. ~spshift /\ ~spint BY <2>1
    <3> QED BY <2>1, <2>4, <2>6, <3>1 DEF SpiLockstep, SpiWaits
  <2> QED BY <2>2, <2>7 DEF SpiInv
<1>2. CASE SpiStart
  <2>1. /\ sppc = "start" /\ spi < SpiWords /\ sppc' \in {"enable", "wait"}
        /\ spwire' = Append(spwire, SpiWord(spi)) /\ spshift' = TRUE
        /\ UNCHANGED <<spcall, spi, spint, sprx, spgot, spclean>>
    BY <1>2 DEF SpiStart, SpiPollAt
  <2>2. spi \in Nat /\ spwire \in Seq(SpiData) /\ SpiWord(spi) \in SpiData
    BY <1>t, SpiWordData DEF SpiTypeOK
  <2>3. SpiTypeOK' BY <1>t, <2>1, <2>2 DEF SpiTypeOK, SpiWaits
  <2>4. /\ Len(spwire') = Len(spwire) + 1 /\ Len(spwire) \in Nat
        /\ \A k \in 1 .. Len(spwire) : spwire'[k] = spwire[k]
        /\ spwire'[Len(spwire) + 1] = SpiWord(spi)
    BY <2>1, <2>2
  <2>5. SpiWords' = SpiWords /\ \A k \in Nat : SpiWord(k)' = SpiWord(k)
    BY <2>1, SpiSameCall
  <2> SUFFICES ASSUME spclean PROVE SpiLockstep'
    BY <2>1, <2>3 DEF SpiInv, SpiLockstep
  <2>6. Len(spwire) = spi /\ ~spint BY <1>t, <2>1 DEF SpiLockstep
  <2>7. ASSUME NEW k \in 1 .. Len(spwire') PROVE spwire'[k] = SpiWord(k - 1)'
    <3>0. k \in Nat /\ k - 1 \in Nat BY <2>4
    <3>1. CASE k = Len(spwire) + 1
      <4>1. k - 1 = spi BY <2>4, <2>6, <3>1
      <4> QED BY <2>2, <2>4, <2>5, <3>1, <4>1
    <3>2. CASE k # Len(spwire) + 1
      <4>1. k \in 1 .. Len(spwire) BY <2>4, <3>0, <3>2
      <4>2. spwire[k] = SpiWord(k - 1) BY <1>t, <2>1, <4>1 DEF SpiLockstep
      <4> QED BY <2>4, <2>5, <3>0, <4>1, <4>2
    <3> QED BY <3>1, <3>2
  <2> QED BY <1>t, <1>w, <2>1, <2>2, <2>4, <2>5, <2>6, <2>7 DEF SpiLockstep, SpiWaits
<1>3. CASE SpiDone
  <2>1. /\ sppc = "start" /\ spi = SpiWords /\ sppc' = "done"
        /\ UNCHANGED <<spcall, spi, spshift, spint, sprx, spwire, spgot, spclean>>
    BY <1>3 DEF SpiDone
  <2>2. SpiWords' = SpiWords /\ \A k \in Nat : SpiWord(k)' = SpiWord(k)
    BY <2>1, SpiSameCall
  <2>3. SpiTypeOK' BY <1>t, <2>1 DEF SpiTypeOK
  <2>4. SpiLockstep'
    BY <1>t, <1>w, <2>1, <2>2 DEF SpiLockstep, SpiTypeOK, SpiWaits
  <2> QED BY <2>3, <2>4 DEF SpiInv
<1>4. CASE SpiCollect
  <2>1. /\ sppc = "wait" /\ spint /\ spint' = FALSE /\ spi' = spi + 1
        /\ spgot' = IF spi < spcall.read THEN Append(spgot, sprx) ELSE spgot
        /\ sppc' = "start"
        /\ UNCHANGED <<spcall, spshift, sprx, spwire, spclean>>
    BY <1>4 DEF SpiCollect
  <2>2. spi \in Nat /\ sprx \in Nat /\ spgot \in Seq(Nat) BY <1>t DEF SpiTypeOK
  <2>3. SpiTypeOK'
    <3>1. spgot' \in Seq(Nat) BY <2>1, <2>2
    <3>2. spi' \in Nat BY <2>1, <2>2
    <3> QED BY <1>t, <2>1, <3>1, <3>2 DEF SpiTypeOK, SpiWaits
  <2>4. SpiWords' = SpiWords /\ \A k \in Nat : SpiWord(k)' = SpiWord(k)
    BY <2>1, SpiSameCall
  <2> SUFFICES ASSUME spclean PROVE SpiLockstep'
    BY <2>1, <2>3 DEF SpiInv, SpiLockstep
  <2>5. /\ spi < SpiWords /\ Len(spwire) = spi + 1 /\ sprx = spi + 1
        /\ spshift = FALSE /\ \A k \in 1 .. Len(spwire) : spwire[k] = SpiWord(k - 1)
        /\ Len(spgot) = IF spi <= spcall.read THEN spi ELSE spcall.read
        /\ \A k \in 1 .. Len(spgot) : spgot[k] = k
    BY <1>t, <2>1 DEF SpiLockstep, SpiWaits, SpiTypeOK
  <2>6. spcall.read \in Nat /\ SpiWords \in Nat BY <1>w, <2>1
  <2>7. /\ Len(spgot') = IF spi' <= spcall.read THEN spi' ELSE spcall.read
        /\ \A k \in 1 .. Len(spgot') : spgot'[k] = k
    <3>1. CASE spi < spcall.read BY <2>1, <2>2, <2>5, <2>6, <3>1
    <3>2. CASE ~(spi < spcall.read) BY <2>1, <2>2, <2>5, <2>6, <3>2
    <3> QED BY <3>1, <3>2
  <2>8. ASSUME NEW k \in 1 .. Len(spwire') PROVE spwire'[k] = SpiWord(k - 1)'
    BY <2>1, <2>2, <2>4, <2>5
  <2> QED
    BY <2>1, <2>2, <2>4, <2>5, <2>6, <2>7, <2>8 DEF SpiLockstep, SpiWaits
<1>5. CASE SpiEnable \/ SpiPark \/ SpiPoll \/ SpiIsr
  <2>1. /\ sppc' = sppc \/ (sppc \in SpiWaits /\ sppc' \in SpiWaits)
        /\ UNCHANGED <<spcall, spi, spshift, spint, sprx, spwire, spgot, spclean>>
    BY <1>5 DEF SpiEnable, SpiPark, SpiPoll, SpiIsr, SpiPollAt, SpiWaits
  <2>2. SpiWords' = SpiWords /\ \A k \in Nat : SpiWord(k)' = SpiWord(k)
    BY <2>1, SpiSameCall
  <2>3. SpiTypeOK' BY <1>t, <2>1 DEF SpiTypeOK, SpiWaits
  <2>4. SpiLockstep'
    BY <1>t, <2>1, <2>2 DEF SpiLockstep, SpiTypeOK, SpiWaits
  <2> QED BY <2>3, <2>4 DEF SpiInv
<1>6. CASE SpiReturn \/ SpiDrop
  <2>1. /\ spcall' = SpiNoCall /\ sppc' = "idle" /\ spi' = 0 /\ sprx' = 0
        /\ spwire' = <<>> /\ spgot' = <<>> /\ spclean' = TRUE
        /\ UNCHANGED <<spshift, spint>>
    BY <1>6 DEF SpiReturn, SpiDrop, SpiForget
  <2>2. SpiTypeOK' BY <1>t, <2>1 DEF SpiTypeOK
  <2> QED BY <2>1, <2>2 DEF SpiInv, SpiLockstep
<1>7. CASE SpiShift
  <2>1. /\ spshift /\ spshift' = FALSE /\ spint' = TRUE /\ sprx' = Len(spwire)
        /\ UNCHANGED <<spcall, sppc, spi, spwire, spgot, spclean>>
    BY <1>7 DEF SpiShift
  <2>2. SpiWords' = SpiWords /\ \A k \in Nat : SpiWord(k)' = SpiWord(k)
    BY <2>1, SpiSameCall
  <2>3. Len(spwire) \in Nat BY <1>t DEF SpiTypeOK
  <2>4. SpiTypeOK' BY <1>t, <2>1, <2>3 DEF SpiTypeOK
  <2> SUFFICES ASSUME sppc # "idle", spclean PROVE SpiLockstep'
    BY <2>1, <2>4 DEF SpiInv, SpiLockstep
  <2>5. sppc \in SpiWaits BY <1>t, <2>1 DEF SpiLockstep, SpiTypeOK
  <2>6. spshift' = FALSE /\ spint' = TRUE /\ sppc' \notin {"start", "done"}
    BY <2>1, <2>5 DEF SpiWaits
  <2> QED BY <1>t, <2>1, <2>2, <2>3, <2>5, <2>6 DEF SpiLockstep
<1>8. CASE UNCHANGED spvars
  <2>1. UNCHANGED <<spcall, sppc, spi, spshift, spint, sprx, spwire, spgot, spclean>>
    BY <1>8 DEF spvars
  <2>2. SpiWords' = SpiWords /\ \A k \in Nat : SpiWord(k)' = SpiWord(k)
    BY <2>1, SpiSameCall
  <2> QED BY <1>t, <2>1, <2>2 DEF SpiInv, SpiLockstep, SpiTypeOK, SpiWaits
<1> QED
  BY <1>1, <1>2, <1>3, <1>4, <1>5, <1>6, <1>7, <1>8 DEF SpiNext

\* For buffers of every length: an operation that finds the module idle puts
\* exactly its words on the wire, stores in place k what came in with word k,
\* and leaves the module idle for the next one.
THEOREM SpiExchangesWords == SpiSpec => []SpiExchanged
<1>1. SpiInit => SpiInv
  <2> SUFFICES ASSUME SpiInit PROVE SpiInv
    OBVIOUS
  <2>1. spwire \in Seq(SpiData) /\ spgot \in Seq(Nat) BY DEF SpiInit
  <2> QED BY <2>1 DEF SpiInit, SpiInv, SpiTypeOK, SpiLockstep
<1>2. SpiInv => SpiExchanged
  <2> SUFFICES ASSUME SpiInv, sppc # "idle", spclean
               PROVE  /\ \A k \in DOMAIN spgot : spgot[k] = k
                      /\ \A k \in DOMAIN spwire : spwire[k] = OnTheWire(spcall)[k]
                      /\ sppc = "done" => /\ spwire = OnTheWire(spcall)
                                          /\ Len(spgot) = spcall.read
                                          /\ ~spshift /\ ~spint
    BY DEF SpiExchanged
  <2>1. spwire \in Seq(SpiData) /\ spgot \in Seq(Nat)
        /\ spi \in Nat /\ spcall \in SpiCalls
    BY DEF SpiInv, SpiTypeOK
  <2>2. DOMAIN spwire = 1 .. Len(spwire) /\ DOMAIN spgot = 1 .. Len(spgot)
        /\ Len(spwire) \in Nat
    BY <2>1
  <2>3. Len(spwire) <= SpiWords /\ (sppc = "done" => Len(spwire) = SpiWords)
    BY <2>1, SpiWordMeant DEF SpiInv, SpiTypeOK, SpiLockstep
  <2>4. \A k \in DOMAIN spwire : spwire[k] = OnTheWire(spcall)[k]
    <3> SUFFICES ASSUME NEW k \in 1 .. Len(spwire)
                 PROVE  spwire[k] = OnTheWire(spcall)[k]
      BY <2>2
    <3>1. spwire[k] = SpiWord(k - 1) BY DEF SpiInv, SpiLockstep
    <3>2. k \in 1 .. SpiWords BY <2>1, <2>2, <2>3, SpiWordMeant
    <3> QED BY <2>1, <3>1, <3>2, SpiWordMeant
  <2>5. sppc = "done" => spwire = OnTheWire(spcall)
    <3> SUFFICES ASSUME sppc = "done" PROVE spwire = OnTheWire(spcall)
      OBVIOUS
    <3>1. DOMAIN spwire = DOMAIN OnTheWire(spcall)
      BY <2>1, <2>2, <2>3, SpiWordMeant
    <3>2. spwire = [k \in DOMAIN spwire |-> spwire[k]] BY <2>1
    <3>3. OnTheWire(spcall) = [k \in DOMAIN OnTheWire(spcall) |-> OnTheWire(spcall)[k]]
      BY DEF OnTheWire
    <3> QED BY <2>4, <3>1, <3>2, <3>3
  <2>6. sppc = "done" => Len(spgot) = spcall.read /\ ~spshift /\ ~spint
    BY <2>1, SpiWordMeant DEF SpiInv, SpiLockstep
  <2> QED BY <2>2, <2>4, <2>5, <2>6 DEF SpiInv, SpiLockstep
<1> QED BY <1>1, <1>2, SpiStep, PTL DEF SpiSpec

(***************************************************************************)
(* The UART: what was written leaves in order, what arrived is read in     *)
(* order.                                                                  *)
(***************************************************************************)

\* Appending a greater number keeps a sequence increasing.
LEMMA IncreasingAppend ==
  ASSUME NEW s \in Seq(Nat), NEW b \in Nat, StrictlyIncreasing(s),
         \A x \in ToSet(s) : x < b
  PROVE  StrictlyIncreasing(Append(s, b))
<1>1. \A k \in 1 .. Len(s) : s[k] < b BY DEF ToSet
<1>2. /\ Len(Append(s, b)) = Len(s) + 1 /\ Len(s) \in Nat
      /\ Append(s, b)[Len(s) + 1] = b
      /\ \A k \in 1 .. Len(s) : Append(s, b)[k] = s[k]
  OBVIOUS
<1> SUFFICES ASSUME NEW k \in 1 .. Len(s)
             PROVE  Append(s, b)[k] < Append(s, b)[k + 1]
  BY <1>2 DEF StrictlyIncreasing
<1>3. CASE k = Len(s) BY <1>1, <1>2, <1>3
<1>4. CASE k # Len(s)
  <2>1. k \in 1 .. (Len(s) - 1) /\ k + 1 \in 1 .. Len(s) BY <1>2, <1>4
  <2> QED BY <1>2, <2>1 DEF StrictlyIncreasing
<1> QED BY <1>3, <1>4

\* The elements of a queue with one more byte.
LEMMA ToSetAppend ==
  ASSUME NEW s \in Seq(Nat), NEW b \in Nat
  PROVE  ToSet(Append(s, b)) = ToSet(s) \cup {b}
<1>1. /\ DOMAIN Append(s, b) = 1 .. (Len(s) + 1) /\ Len(s) \in Nat
      /\ Append(s, b)[Len(s) + 1] = b /\ DOMAIN s = 1 .. Len(s)
      /\ \A k \in 1 .. Len(s) : Append(s, b)[k] = s[k]
  OBVIOUS
<1>2. ASSUME NEW x \in ToSet(s) PROVE x \in ToSet(Append(s, b))
  BY <1>1 DEF ToSet
<1>3. b \in ToSet(Append(s, b)) BY <1>1 DEF ToSet
<1>4. ASSUME NEW x \in ToSet(Append(s, b)) PROVE x \in ToSet(s) \cup {b}
  <2>1. PICK k \in 1 .. (Len(s) + 1) : Append(s, b)[k] = x BY <1>1 DEF ToSet
  <2>2. CASE k = Len(s) + 1 BY <1>1, <2>1, <2>2
  <2>3. CASE k # Len(s) + 1
    <3>1. k \in 1 .. Len(s) BY <1>1, <2>3
    <3> QED BY <1>1, <2>1, <3>1 DEF ToSet
  <2> QED BY <2>2, <2>3
<1> QED BY <1>2, <1>3, <1>4

\* A queue read through: what was taken, followed by what is still in it.
LEMMA QueueIn ==
  ASSUME NEW s \in Seq(Nat), NEW t \in Seq(Nat), NEW b \in Nat
  PROVE  s \o Append(t, b) = Append(s \o t, b)
OBVIOUS

\* Moving the first byte of one queue to the end of another keeps their
\* concatenation: a FIFO, seen from the side.
LEMMA QueueOut ==
  ASSUME NEW s \in Seq(Nat), NEW t \in Seq(Nat), t # <<>>
  PROVE  /\ Append(s, Head(t)) \o Tail(t) = s \o t
         /\ Head(t) \in Nat /\ Tail(t) \in Seq(Nat)
         /\ Append(s, Head(t)) \in Seq(Nat)
<1>1. Head(t) \in Nat /\ Tail(t) \in Seq(Nat) BY HeadTailProperties
<1>2. t = <<Head(t)>> \o Tail(t)
  BY <1>1, HeadTailProperties, LenProperties, SMTT(30)
<1>3. Append(s, Head(t)) = s \o <<Head(t)>> /\ Append(s, Head(t)) \in Seq(Nat)
  BY <1>1, AppendIsConcat, AppendProperties
<1>4. <<Head(t)>> \in Seq(Nat) BY <1>1
<1>5. (s \o <<Head(t)>>) \o Tail(t) = s \o (<<Head(t)>> \o Tail(t))
  <2>1. \A x, y, z \in Seq(Nat) : (x \o y) \o z = x \o (y \o z)
    BY ConcatAssociative, ConcatProperties, SMTT(60)
  <2> QED BY <1>1, <1>4, <2>1, Zenon
<1> QED BY <1>1, <1>2, <1>3, <1>5, Zenon

UartKinds == {"none", "read", "write", "flush"}

UartTypeOK ==
  /\ uaop \in [kind : UartKinds, async : BOOLEAN, len : Nat]
  /\ uan \in Nat /\ uan <= uaop.len
  /\ uapc \in {"call", "copy"} /\ (uapc = "copy" => uaop.kind = "read")
  /\ uatx \in Seq(Nat) /\ uasent \in Seq(Nat) /\ uanext \in Nat
  /\ uarx \in Seq(Nat) /\ uatook \in Seq(Nat) /\ uain \in Nat

\* All that was put into a FIFO, in order.
TxAll == uasent \o uatx
RxAll == uatook \o uarx

\* Bytes the write under way has put into the FIFO: they are the last ones.
Written == IF uaop.kind = "write" THEN uan ELSE 0

TxInv ==
  /\ StrictlyIncreasing(TxAll)
  /\ \A b \in ToSet(TxAll) : b < uanext + Written
  /\ uadone \subseteq ToSet(TxAll)
  /\ uanext .. (uanext + Written - 1) \subseteq ToSet(TxAll)
  /\ "flush" \notin uaearly

\* A read that has seen a byte and taken none yet still finds it: bytes are
\* only added to the FIFO meanwhile.
RxInv ==
  /\ StrictlyIncreasing(RxAll)
  /\ ToSet(RxAll) = (1 .. uain) \ uaover
  /\ uaover \subseteq 1 .. uain
  /\ "read" \notin uaearly
  /\ uapc = "copy" /\ uan = 0 /\ uaop.len > 0 => Len(uarx) > 0

UartInv == UartTypeOK /\ TxInv /\ RxInv

\* Every step of a read, a write, a flush, of the handler and of the two
\* FIFOs keeps both directions in order.
LEMMA UartStep == UartInv /\ [UartNext]_uavars => UartInv'
<1> SUFFICES ASSUME UartInv, [UartNext]_uavars PROVE UartInv'
  OBVIOUS
<1>t. UartTypeOK /\ TxInv /\ RxInv BY DEF UartInv
<1>u. UART_DEPTH \in Nat /\ UartLengths \subseteq Nat BY UartAssumption
<1> USE DEF uacall, uatxs, uarxs, uatask
<1>1. CASE UartCall
  <2>1. /\ uaop = UartNoOp /\ uan' = 0 /\ uapc' = "call"
        /\ uaop' \in [kind : {"read", "write"}, async : BOOLEAN, len : UartLengths]
                     \cup [kind : {"flush"}, async : BOOLEAN, len : {0}]
        /\ UNCHANGED <<uatxs, uarxs, uaearly>>
    BY <1>1 DEF UartCall
  <2>2. Written = 0 /\ Written' = 0 BY <2>1 DEF Written, UartNoOp
  <2>3. UartTypeOK'
    <3>1. uaop' \in [kind : UartKinds, async : BOOLEAN, len : Nat]
      <4>1. CASE uaop' \in [kind : {"read", "write"}, async : BOOLEAN, len : UartLengths]
        BY <1>u, <4>1 DEF UartKinds
      <4>2. CASE uaop' \in [kind : {"flush"}, async : BOOLEAN, len : {0}]
        BY <4>2 DEF UartKinds
      <4> QED BY <2>1, <4>1, <4>2
    <3> QED BY <1>t, <2>1, <3>1 DEF UartTypeOK
  <2>4. TxInv' BY <1>t, <2>1, <2>2 DEF TxInv, TxAll
  <2>5. RxInv' BY <1>t, <2>1 DEF RxInv, RxAll
  <2> QED BY <2>3, <2>4, <2>5 DEF UartInv
<1>2. CASE UartReadReady
  <2>1. /\ uaop.kind = "read" /\ uapc' = "copy" /\ (Len(uarx) > 0 \/ uaop.len = 0)
        /\ UNCHANGED <<uaop, uan, uatxs, uarxs, uaearly>>
    BY <1>2 DEF UartReadReady, UartRunning, RxCount
  <2>2. UartTypeOK' BY <1>t, <2>1 DEF UartTypeOK
  <2>3. TxInv' BY <1>t, <2>1 DEF TxInv, TxAll, Written
  <2>4. RxInv' BY <1>t, <2>1 DEF RxInv, RxAll
  <2> QED BY <2>2, <2>3, <2>4 DEF UartInv
<1>3. CASE UartReadByte
  <2>1. /\ uaop.kind = "read" /\ uapc = "copy" /\ uan < uaop.len /\ Len(uarx) > 0
        /\ uatook' = Append(uatook, Head(uarx)) /\ uarx' = Tail(uarx)
        /\ uan' = uan + 1
        /\ UNCHANGED <<uaop, uapc, uatxs, uain, uaover, uaearly>>
    BY <1>3 DEF UartReadByte, UartRunning, RxCount
  <2>2. uarx \in Seq(Nat) /\ uatook \in Seq(Nat) /\ uarx # <<>>
    BY <1>t, <2>1 DEF UartTypeOK
  <2>3. RxAll' = RxAll /\ uarx' \in Seq(Nat) /\ uatook' \in Seq(Nat)
    BY <2>1, <2>2, QueueOut DEF RxAll
  <2>4. uan' \in Nat /\ uan' <= uaop.len /\ uan' # 0
    BY <1>t, <2>1 DEF UartTypeOK
  <2>5. UartTypeOK' BY <1>t, <2>1, <2>3, <2>4 DEF UartTypeOK
  <2>6. TxInv' BY <1>t, <2>1 DEF TxInv, TxAll, Written
  <2>7. RxInv' BY <1>t, <2>1, <2>3, <2>4 DEF RxInv
  <2> QED BY <2>5, <2>6, <2>7 DEF UartInv
<1>4. CASE UartReadReturn
  <2>1. /\ uaop.kind = "read" /\ uapc = "copy" /\ (uan = uaop.len \/ Len(uarx) = 0)
        /\ uaearly' = IF uan = 0 /\ uaop.len > 0 THEN uaearly \cup {"read"} ELSE uaearly
        /\ uaop' = UartNoOp /\ uan' = 0 /\ uapc' = "call"
        /\ UNCHANGED <<uatxs, uarxs>>
    BY <1>4 DEF UartReadReturn, UartRunning, UartIdle, RxCount
  <2>2. ~(uan = 0 /\ uaop.len > 0) BY <1>t, <2>1 DEF RxInv, UartTypeOK
  <2>3. uaearly' = uaearly BY <2>1, <2>2
  <2>4. UartTypeOK' BY <1>t, <2>1 DEF UartTypeOK, UartNoOp, UartKinds
  <2>5. TxInv' BY <1>t, <2>1, <2>3 DEF TxInv, TxAll, Written, UartNoOp
  <2>6. RxInv' BY <1>t, <2>1, <2>3 DEF RxInv, RxAll
  <2> QED BY <2>4, <2>5, <2>6 DEF UartInv
<1>5. CASE UartWriteByte
  <2>1. /\ uaop.kind = "write" /\ uan < uaop.len
        /\ uatx' = Append(uatx, uanext + uan) /\ uan' = uan + 1
        /\ UNCHANGED <<uaop, uapc, uasent, uanext, uadone, uarxs, uaearly>>
    BY <1>5 DEF UartWriteByte, WriteByte, UartRunning
  <2>2. /\ uatx \in Seq(Nat) /\ uasent \in Seq(Nat) /\ uanext \in Nat /\ uan \in Nat
        /\ uaop.len \in Nat
    BY <1>t DEF UartTypeOK
  <2>3. Written = uan /\ Written' = uan + 1 BY <2>1 DEF Written
  <2>4. TxAll \in Seq(Nat) /\ TxAll' = Append(TxAll, uanext + uan)
        /\ uatx' \in Seq(Nat)
    BY <2>1, <2>2, QueueIn, SMTT(30) DEF TxAll
  <2>5. UartTypeOK' BY <1>t, <2>1, <2>2, <2>4 DEF UartTypeOK
  <2>6. \A b \in ToSet(TxAll) : b < uanext + uan BY <1>t, <2>3 DEF TxInv
  <2>7. StrictlyIncreasing(TxAll') /\ ToSet(TxAll') = ToSet(TxAll) \cup {uanext + uan}
    <3>1. uanext + uan \in Nat /\ StrictlyIncreasing(TxAll)
      BY <1>t, <2>2 DEF TxInv
    <3> QED BY <2>4, <2>6, <3>1, IncreasingAppend, ToSetAppend
  <2>8. ToSet(TxAll) \subseteq Nat BY <2>4 DEF ToSet
  <2>9. \A b \in ToSet(TxAll') : b < uanext + uan + 1
    BY <2>2, <2>6, <2>7, <2>8
  <2>10. uanext .. (uanext + uan) \subseteq ToSet(TxAll')
    <3>1. uanext .. (uanext + uan - 1) \subseteq ToSet(TxAll) BY <1>t, <2>3 DEF TxInv
    <3>2. uanext .. (uanext + uan) = (uanext .. (uanext + uan - 1)) \cup {uanext + uan}
      BY <2>2
    <3> QED BY <2>7, <3>1, <3>2
  <2>11. uanext' + Written' = uanext + uan + 1
         /\ uanext' + Written' - 1 = uanext + uan
    BY <2>1, <2>2, <2>3
  <2>12. uadone' \subseteq ToSet(TxAll') BY <1>t, <2>1, <2>7 DEF TxInv
  <2>13. TxInv' BY <1>t, <2>1, <2>7, <2>9, <2>10, <2>11, <2>12 DEF TxInv
  <2>14. RxInv' BY <1>t, <2>1 DEF RxInv, RxAll, UartTypeOK
  <2> QED BY <2>5, <2>13, <2>14 DEF UartInv
<1>6. CASE UartWriteReturn
  <2>1. /\ uaop.kind = "write" /\ uan = uaop.len /\ uanext' = uanext + uan
        /\ uadone' = uadone \cup (uanext .. (uanext + uan - 1))
        /\ uaop' = UartNoOp /\ uan' = 0 /\ uapc' = "call"
        /\ UNCHANGED <<uatx, uasent, uarxs, uaearly>>
    BY <1>6 DEF UartWriteReturn, UartRunning, UartIdle
  <2>2. uanext \in Nat /\ uan \in Nat BY <1>t DEF UartTypeOK
  <2>3. Written = uan /\ Written' = 0 BY <2>1 DEF Written, UartNoOp
  <2>4. UartTypeOK' BY <1>t, <2>1, <2>2 DEF UartTypeOK, UartNoOp, UartKinds
  <2>5. TxAll' = TxAll BY <2>1 DEF TxAll
  <2>6. uanext' + Written' = uanext + uan
        /\ uanext' .. (uanext' + Written' - 1) = {}
    BY <2>1, <2>2, <2>3
  <2>7. TxInv' BY <1>t, <2>1, <2>3, <2>5, <2>6 DEF TxInv
  <2>8. RxInv' BY <1>t, <2>1 DEF RxInv, RxAll
  <2> QED BY <2>4, <2>7, <2>8 DEF UartInv
<1>7. CASE UartFlushReturn
  <2>1. /\ uaop.kind = "flush" /\ UART_DEPTH - Len(uatx) = UART_DEPTH
        /\ uaearly' = IF uatx # <<>> THEN uaearly \cup {"flush"} ELSE uaearly
        /\ uaop' = UartNoOp /\ uan' = 0 /\ uapc' = "call"
        /\ UNCHANGED <<uatxs, uarxs>>
    BY <1>7 DEF UartFlushReturn, UartRunning, UartIdle, TxFree
  <2>2. uatx = <<>> BY <1>t, <1>u, <2>1 DEF UartTypeOK
  <2>3. uaearly' = uaearly BY <2>1, <2>2
  <2>4. UartTypeOK' BY <1>t, <2>1 DEF UartTypeOK, UartNoOp, UartKinds
  <2>5. TxInv' BY <1>t, <2>1, <2>3 DEF TxInv, TxAll, Written, UartNoOp
  <2>6. RxInv' BY <1>t, <2>1, <2>3 DEF RxInv, RxAll
  <2> QED BY <2>4, <2>5, <2>6 DEF UartInv
<1>8. CASE UartWaitRx \/ UartWaitTx \/ UartResume \/ UartWakeOther \/ UartIsr
  <2>1. UNCHANGED <<uacall, uatxs, uarxs, uaearly>>
    BY <1>8 DEF UartWaitRx, UartWaitTx, UartPark, UartResume, UartWakeOther, UartIsr
  <2> QED
    BY <1>t, <2>1 DEF UartInv, UartTypeOK, TxInv, RxInv, TxAll, RxAll, Written
<1>9. CASE UartDrop
  <2>1. /\ uanext' = IF uaop.kind = "write" THEN uanext + uaop.len ELSE uanext
        /\ uaop' = UartNoOp /\ uan' = 0 /\ uapc' = "call"
        /\ UNCHANGED <<uatx, uasent, uadone, uarxs, uaearly>>
    BY <1>9 DEF UartDrop, UartIdle
  <2>2. uanext \in Nat /\ uan \in Nat /\ uaop.len \in Nat /\ uan <= uaop.len
        /\ uatx \in Seq(Nat) /\ uasent \in Seq(Nat)
    BY <1>t DEF UartTypeOK
  <2>3. Written' = 0 /\ uanext + Written <= uanext' /\ uanext' \in Nat /\ Written \in Nat
    BY <2>1, <2>2 DEF Written, UartNoOp
  <2>4. UartTypeOK' BY <1>t, <2>1, <2>3 DEF UartTypeOK, UartNoOp, UartKinds
  <2>5. TxAll' = TxAll /\ ToSet(TxAll) \subseteq Nat BY <2>1, <2>2, SMTT(30) DEF TxAll, ToSet
  <2>6. \A b \in ToSet(TxAll) : b < uanext' + Written'
    <3> SUFFICES ASSUME NEW b \in ToSet(TxAll) PROVE b < uanext' + Written'
      OBVIOUS
    <3>1. b \in Nat /\ b < uanext + Written BY <1>t, <2>5 DEF TxInv
    <3>2. PICK m \in Nat : m = uanext + Written BY <2>2, <2>3
    <3>3. PICK n \in Nat : n = uanext' BY <2>3
    <3>4. m <= n /\ b < m BY <2>3, <3>1, <3>2, <3>3
    <3>5. b < n BY <3>1, <3>4
    <3> QED BY <2>3, <3>3, <3>5
  <2>7. uanext' .. (uanext' + Written' - 1) = {}
    <3>1. PICK n \in Nat : n = uanext' BY <2>3
    <3>2. n .. (n + 0 - 1) = {} OBVIOUS
    <3> QED BY <2>3, <3>1, <3>2
  <2>8. TxInv' BY <1>t, <2>1, <2>5, <2>6, <2>7 DEF TxInv
  <2>9. RxInv' BY <1>t, <2>1 DEF RxInv, RxAll
  <2> QED BY <2>4, <2>8, <2>9 DEF UartInv
<1>10. CASE UartTxShift
  <2>1. /\ uatx # <<>> /\ uasent' = Append(uasent, Head(uatx)) /\ uatx' = Tail(uatx)
        /\ UNCHANGED <<uacall, uanext, uadone, uarxs, uaearly>>
    BY <1>10 DEF UartTxShift
  <2>2. TxAll' = TxAll /\ uatx' \in Seq(Nat) /\ uasent' \in Seq(Nat)
    BY <1>t, <2>1, QueueOut DEF UartTypeOK, TxAll
  <2>3. UartTypeOK' BY <1>t, <2>1, <2>2 DEF UartTypeOK
  <2>4. TxInv' BY <1>t, <2>1, <2>2 DEF TxInv, Written
  <2>5. RxInv' BY <1>t, <2>1 DEF RxInv, RxAll
  <2> QED BY <2>3, <2>4, <2>5 DEF UartInv
<1>11. CASE UartRxByte
  <2>1. /\ uain' = uain + 1
        /\ \/ uarx' = Append(uarx, uain') /\ uaover' = uaover
           \/ uarx' = uarx /\ uaover' = uaover \cup {uain'}
        /\ UNCHANGED <<uacall, uatxs, uatook, uaearly>>
    BY <1>11 DEF UartRxByte
  <2>2. uarx \in Seq(Nat) /\ uatook \in Seq(Nat) /\ uain \in Nat
    BY <1>t DEF UartTypeOK
  <2>3. RxAll \in Seq(Nat) /\ 1 .. uain' = (1 .. uain) \cup {uain'}
        /\ uain' \in Nat /\ uain' \notin 1 .. uain
    BY <2>1, <2>2 DEF RxAll
  <2>4. \A x \in ToSet(RxAll) : x < uain'
    <3>1. ToSet(RxAll) \subseteq 1 .. uain BY <1>t DEF RxInv
    <3> QED BY <2>1, <2>2, <3>1
  <2>5. CASE uarx' = Append(uarx, uain') /\ uaover' = uaover
    <3>1. RxAll' = Append(RxAll, uain') BY <2>1, <2>2, <2>3, <2>5, QueueIn DEF RxAll
    <3>2. StrictlyIncreasing(RxAll') /\ ToSet(RxAll') = ToSet(RxAll) \cup {uain'}
      BY <1>t, <2>3, <2>4, <3>1, IncreasingAppend, ToSetAppend DEF RxInv
    <3>3. uarx' \in Seq(Nat) /\ Len(uarx') > 0 BY <2>2, <2>3, <2>5
    <3>4. UartTypeOK' BY <1>t, <2>1, <2>3, <3>3 DEF UartTypeOK
    <3>5. TxInv' BY <1>t, <2>1 DEF TxInv, TxAll, Written
    <3>6. RxInv' BY <1>t, <2>1, <2>3, <2>5, <3>2, <3>3 DEF RxInv
    <3> QED BY <3>4, <3>5, <3>6 DEF UartInv
  <2>6. CASE uarx' = uarx /\ uaover' = uaover \cup {uain'}
    <3>1. RxAll' = RxAll BY <2>1, <2>6 DEF RxAll
    <3>2. UartTypeOK' BY <1>t, <2>1, <2>3, <2>6 DEF UartTypeOK
    <3>3. TxInv' BY <1>t, <2>1 DEF TxInv, TxAll, Written
    <3>4. RxInv' BY <1>t, <2>1, <2>3, <2>6, <3>1 DEF RxInv
    <3> QED BY <3>2, <3>3, <3>4 DEF UartInv
  <2> QED BY <2>1, <2>5, <2>6
<1>12. CASE UNCHANGED uavars
  BY <1>t, <1>12 DEF uavars, UartInv, UartTypeOK, TxInv, RxInv, TxAll, RxAll, Written
<1> QED
  BY <1>1, <1>2, <1>3, <1>4, <1>5, <1>6, <1>7, <1>8, <1>9, <1>10, <1>11, <1>12
     DEF UartNext, UartDriver

\* Both directions of the UART keep their invariant in every behaviour: what
\* the driver handed over, what is in the FIFO and what the line took are one
\* sequence without a gap.
THEOREM UartInvariance == UartSpec => []UartInv
<1>1. UartInit => UartInv
  <2> SUFFICES ASSUME UartInit PROVE UartInv
    OBVIOUS
  <2>1. TxAll = <<>> /\ RxAll = <<>> BY DEF UartInit, TxAll, RxAll
  <2>2. StrictlyIncreasing(<<>>) /\ ToSet(<<>>) = {} BY DEF StrictlyIncreasing, ToSet
  <2>3. UartTypeOK BY DEF UartInit, UartTypeOK, UartNoOp, UartKinds
  <2>4. TxInv BY <2>1, <2>2 DEF UartInit, TxInv, Written, UartNoOp
  <2>5. RxInv BY <2>1, <2>2 DEF UartInit, RxInv
  <2> QED BY <2>3, <2>4, <2>5 DEF UartInv
<1> QED BY <1>1, UartStep, PTL DEF UartSpec

\* For FIFOs of every depth and buffers of every length: what leaves the
\* transmitter is what was written, in order and nothing twice; every byte of
\* a write that returned and a beginning of any other.
THEOREM UartSendsInOrder == UartSpec => []UartTxOrdered
<1>1. UartInv => UartTxOrdered
  <2> SUFFICES ASSUME UartInv PROVE UartTxOrdered
    OBVIOUS
  <2>1. UartTypeOK /\ TxInv BY DEF UartInv
  <2>2. uaop.kind = "write" =>
          ToSet(TxAll) \cap (uanext .. (uanext + uaop.len)) = uanext .. (uanext + uan - 1)
    <3> SUFFICES ASSUME uaop.kind = "write"
                 PROVE  ToSet(TxAll) \cap (uanext .. (uanext + uaop.len))
                          = uanext .. (uanext + uan - 1)
      OBVIOUS
    <3>1. Written = uan BY DEF Written
    <3>2. uan \in Nat /\ uanext \in Nat /\ uaop.len \in Nat /\ uan <= uaop.len
      BY <2>1 DEF UartTypeOK
    <3>3. \A b \in ToSet(TxAll) : b < uanext + uan BY <2>1, <3>1 DEF TxInv
    <3>4. uanext .. (uanext + uan - 1) \subseteq ToSet(TxAll) BY <2>1, <3>1 DEF TxInv
    <3> QED BY <3>2, <3>3, <3>4
  <2> QED BY <2>1, <2>2 DEF TxInv, TxAll, UartTxOrdered
<1> QED BY <1>1, UartInvariance, PTL

\* Readers get every byte that arrived, in order, but for those that found the
\* FIFO full, and no read with room returns without one.
THEOREM UartReadsInOrder == UartSpec => []UartRxOrdered
<1>1. UartInv => UartRxOrdered BY DEF UartInv, RxInv, RxAll, UartRxOrdered
<1> QED BY <1>1, UartInvariance, PTL

=============================================================================
