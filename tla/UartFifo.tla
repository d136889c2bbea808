------------------------------ MODULE UartFifo ------------------------------
(***************************************************************************)
(* Reads, writes and flushes of a UART of mc1322x-hal (uart.rs) over its   *)
(* two hardware FIFOs, blocking and async.  Bytes come in and go out while *)
(* the driver copies; the async driver parks until the RX- or TX-ready     *)
(* interrupt, and a future dropped there leaves its interrupt unmasked.    *)
(* A Uart has one owner, so one call is under way at a time.               *)
(***************************************************************************)
EXTENDS Naturals, Sequences, SequencesExt

CONSTANTS UART_DEPTH,    \* bytes in a FIFO: TX_FIFO_DEPTH, 32
          UartLengths,   \* lengths of the buffers callers pass
          MaxUartBytes   \* bound: bytes received, and bytes callers write

ASSUME UartAssumption ==
    /\ UART_DEPTH \in Nat \ {0} /\ MaxUartBytes \in Nat
    /\ UartLengths \subseteq Nat

VARIABLES
    uaop,      \* the call under way: [kind, async, len], kind "none" if none
    uan,       \* n: bytes it has copied
    uapc,      \* "call" until the FIFO was seen ready, "copy" in read's loop
    uarun,     \* is the task of the driver running (always, when blocking)?
    uawoken,   \* has its waker been called since it parked?
    uawaker,   \* the WakerCells, rx and tx, that hold a waker
    uaarmed,   \* the conditions, rx and tx, that UCON lets interrupt
    uatx,      \* the TX FIFO
    uarx,      \* the RX FIFO
    uasent,    \* history: bytes that left the TX FIFO, in order
    uanext,    \* history: the first byte of the next write
    uadone,    \* history: bytes of the writes that returned
    uain,      \* history: bytes that arrived
    uaover,    \* history: those that found the RX FIFO full
    uatook,    \* history: bytes handed to readers, in order
    uaearly    \* history: kinds of calls that returned too early

uacall == <<uaop, uan, uapc>>
uatask == <<uarun, uawoken, uawaker, uaarmed>>
uatxs  == <<uatx, uasent, uanext, uadone>>
uarxs  == <<uarx, uain, uaover, uatook>>
uavars == <<uacall, uatask, uatxs, uarxs, uaearly>>

UartNoOp == [kind |-> "none", async |-> FALSE, len |-> 0]
-----------------------------------------------------------------------------
(* Uart::new: FIFOs empty, watermarks 1, both interrupts masked. *)
UartInit ==
    /\ uaop = UartNoOp /\ uan = 0 /\ uapc = "call"
    /\ uarun = FALSE /\ uawoken = FALSE /\ uawaker = {} /\ uaarmed = {}
    /\ uatx = <<>> /\ uasent = <<>> /\ uanext = 1 /\ uadone = {}
    /\ uarx = <<>> /\ uain = 0 /\ uaover = {} /\ uatook = <<>>
    /\ uaearly = {}

TxFree == UART_DEPTH - Len(uatx)
RxCount == Len(uarx)

UartCall ==
    /\ uaop = UartNoOp
    /\ uaop' \in [kind : {"read", "write"}, async : BOOLEAN, len : UartLengths]
                 \cup [kind : {"flush"}, async : BOOLEAN, len : {0}]
    /\ uaop'.kind = "write" => uanext + uaop'.len <= MaxUartBytes + 1
    /\ uan' = 0 /\ uapc' = "call" /\ uarun' = TRUE
    /\ UNCHANGED <<uawoken, uawaker, uaarmed, uatxs, uarxs, uaearly>>

(* The call is over. *)
UartIdle == uaop' = UartNoOp /\ uan' = 0 /\ uapc' = "call" /\ uarun' = FALSE

UartRunning(kind) == uaop.kind = kind /\ uarun
-----------------------------------------------------------------------------
(* read: an empty buffer takes nothing, otherwise wait for the first byte. *)
UartReadReady ==
    /\ UartRunning("read") /\ uapc = "call"
    /\ RxCount > 0 \/ uaop.len = 0
    /\ uapc' = "copy"
    /\ UNCHANGED <<uaop, uan, uatask, uatxs, uarxs, uaearly>>

MutReadByteUnchecked ==
    /\ UartRunning("read") /\ uapc = "copy" /\ uan < uaop.len
    /\ uatook' = Append(uatook, IF RxCount > 0 THEN Head(uarx) ELSE 0)
    /\ uarx' = IF RxCount > 0 THEN Tail(uarx) ELSE uarx
    /\ uan' = uan + 1
    /\ UNCHANGED <<uaop, uapc, uatask, uatxs, uain, uaover, uaearly>>

(* read's loop: take a byte while there is room and the FIFO holds one. *)
UartReadByte ==
    /\ UartRunning("read") /\ uapc = "copy"
    /\ uan < uaop.len /\ RxCount > 0
    /\ uatook' = Append(uatook, Head(uarx)) /\ uarx' = Tail(uarx)
    /\ uan' = uan + 1
    /\ UNCHANGED <<uaop, uapc, uatask, uatxs, uain, uaover, uaearly>>

UartReadReturn ==
    /\ UartRunning("read") /\ uapc = "copy"
    /\ uan = uaop.len \/ RxCount = 0
    /\ uaearly' = IF uan = 0 /\ uaop.len > 0 THEN uaearly \cup {"read"} ELSE uaearly
    /\ UartIdle
    /\ UNCHANGED <<uawoken, uawaker, uaarmed, uatxs, uarxs>>

(* write_byte; a byte written to a full FIFO is lost. *)
WriteByte(b) == uatx' = IF TxFree > 0 THEN Append(uatx, b) ELSE uatx

MutWriteChecksOnce ==
    /\ UartRunning("write") /\ uan < uaop.len
    /\ TxFree > 0 \/ uan > 0
    /\ WriteByte(uanext + uan)
    /\ uan' = uan + 1
    /\ UNCHANGED <<uaop, uapc, uatask, uasent, uanext, uadone, uarxs, uaearly>>

(* write: each byte waits for a free slot of its own. *)
UartWriteByte ==
    /\ UartRunning("write") /\ uan < uaop.len
    /\ TxFree > 0
    /\ WriteByte(uanext + uan)
    /\ uan' = uan + 1
    /\ UNCHANGED <<uaop, uapc, uatask, uasent, uanext, uadone, uarxs, uaearly>>

UartWriteReturn ==
    /\ UartRunning("write") /\ uan = uaop.len
    /\ uanext' = uanext + uan
    /\ uadone' = uadone \cup (uanext .. (uanext + uan - 1))
    /\ UartIdle
    /\ UNCHANGED <<uawoken, uawaker, uaarmed, uatx, uasent, uarxs, uaearly>>

(* flush: until the FIFO is empty.  With some room in it the async flush    *)
(* finds wait_tx_ready ready and polls on without a pause.                  *)
UartFlushReturn ==
    /\ UartRunning("flush") /\ TxFree = UART_DEPTH
    /\ uaearly' = IF uatx # <<>> THEN uaearly \cup {"flush"} ELSE uaearly
    /\ UartIdle
    /\ UNCHANGED <<uawoken, uawaker, uaarmed, uatxs, uarxs>>
-----------------------------------------------------------------------------
UartPark(cell) ==
    /\ uaop.async
    /\ uawaker' = uawaker \cup {cell} /\ uaarmed' = uaarmed \cup {cell}
    /\ uarun' = FALSE
    /\ UNCHANGED <<uacall, uawoken, uatxs, uarxs, uaearly>>

(* wait_rx_ready and wait_tx_ready: check, store the waker and unmask, in   *)
(* one critical section.  The blocking driver spins instead.                *)
UartWaitRx ==
    /\ UartRunning("read") /\ uapc = "call" /\ uaop.len > 0 /\ RxCount = 0
    /\ UartPark("rx")

UartWaitTx ==
    /\ UartRunning("flush") \/ (UartRunning("write") /\ uan < uaop.len)
    /\ TxFree = 0
    /\ UartPark("tx")

(* The executor polls the future again; it may have been woken by anything. *)
UartResume ==
    /\ uaop.kind # "none" /\ ~uarun /\ uawoken
    /\ uarun' = TRUE /\ uawoken' = FALSE
    /\ UNCHANGED <<uacall, uawaker, uaarmed, uatxs, uarxs, uaearly>>

UartWakeOther ==
    /\ uaop.kind # "none" /\ ~uarun /\ ~uawoken
    /\ uawoken' = TRUE
    /\ UNCHANGED <<uacall, uarun, uawaker, uaarmed, uatxs, uarxs, uaearly>>

(* A parked future is dropped: what a write has put in the FIFO is sent, its *)
(* other bytes never are; UCON and the waker stay as they are.               *)
UartDrop ==
    /\ uaop.kind # "none" /\ ~uarun
    /\ uanext' = IF uaop.kind = "write" THEN uanext + uaop.len ELSE uanext
    /\ UartIdle
    /\ uawoken' = FALSE
    /\ UNCHANGED <<uawaker, uaarmed, uatx, uasent, uadone, uarxs, uaearly>>

UartAsserted == {c \in {"rx", "tx"} : IF c = "rx" THEN RxCount > 0 ELSE TxFree > 0}

MutIsrOneOfBoth ==
    /\ uaarmed \cap UartAsserted # {}
    /\ uaarmed' = uaarmed \ UartAsserted
    /\ LET c == IF "rx" \in UartAsserted THEN {"rx"} ELSE {"tx"}
       IN  /\ uawaker' = uawaker \ c
           /\ uawoken' = (uawoken \/ (uaop.kind # "none" /\ uawaker \cap c # {}))
    /\ UNCHANGED <<uacall, uarun, uatxs, uarxs, uaearly>>

(* uart_isr_common: mask both conditions that hold, armed or not, and wake  *)
(* both.                                                                    *)
UartIsr ==
    /\ uaarmed \cap UartAsserted # {}
    /\ uaarmed' = uaarmed \ UartAsserted
    /\ uawaker' = uawaker \ UartAsserted
    /\ uawoken' = (uawoken \/ (uaop.kind # "none" /\ uawaker \cap UartAsserted # {}))
    /\ UNCHANGED <<uacall, uarun, uatxs, uarxs, uaearly>>
-----------------------------------------------------------------------------
(* The transmitter takes a byte from its FIFO; a byte comes in. *)
UartTxShift ==
    /\ uatx # <<>>
    /\ uasent' = Append(uasent, Head(uatx)) /\ uatx' = Tail(uatx)
    /\ UNCHANGED <<uacall, uatask, uanext, uadone, uarxs, uaearly>>

UartRxByte ==
    /\ uain < MaxUartBytes /\ uain' = uain + 1
    /\ IF RxCount < UART_DEPTH
       THEN uarx' = Append(uarx, uain') /\ UNCHANGED uaover
       ELSE uaover' = uaover \cup {uain'} /\ UNCHANGED uarx
    /\ UNCHANGED <<uacall, uatask, uatxs, uatook, uaearly>>

UartDriver ==
    \/ UartReadReady \/ UartReadByte \/ UartReadReturn
    \/ UartWriteByte \/ UartWriteReturn \/ UartFlushReturn
    \/ UartWaitRx \/ UartWaitTx \/ UartResume

UartNext ==
    \/ UartCall \/ UartDriver \/ UartWakeOther \/ UartDrop \/ UartIsr
    \/ UartTxShift \/ UartRxByte

(* The CPU runs the driver and pending handlers, the transmitter transmits. *)
UartFairness ==
    /\ WF_uavars(UartDriver) /\ WF_uavars(UartIsr) /\ WF_uavars(UartTxShift)

UartSpec == UartInit /\ [][UartNext]_uavars /\ UartFairness
-----------------------------------------------------------------------------
StrictlyIncreasing(s) == \A k \in 1..(Len(s) - 1) : s[k] < s[k + 1]

(* What leaves the transmitter is what was written: in order, nothing twice, *)
(* every byte of a write that returned, and of a write under way or dropped  *)
(* a beginning.  A flush that returned left nothing in the FIFO.             *)
UartTxOrdered ==
    LET all == uasent \o uatx
    IN  /\ StrictlyIncreasing(all)
        /\ uadone \subseteq ToSet(all)
        /\ uaop.kind = "write" =>
              ToSet(all) \cap (uanext .. (uanext + uaop.len)) = uanext .. (uanext + uan - 1)
        /\ "flush" \notin uaearly

(* Readers get every byte that arrived, in order, but for those that found   *)
(* the FIFO full: none is lost or doubled by a byte that arrives while the   *)
(* loop runs, by a spurious wake or by a read that is dropped.  A read into  *)
(* a buffer with room does not return without one.                           *)
UartRxOrdered ==
    /\ "read" \notin uaearly
    /\ StrictlyIncreasing(uatook \o uarx)
    /\ ToSet(uatook \o uarx) = (1..uain) \ uaover

(* A write or a flush always ends, and a read does once a byte is there,    *)
(* although reads and writes share one handler that masks and wakes for     *)
(* both and dropped futures leave their interrupt armed.                    *)
UartReturns ==
    (uaop.kind # "none" /\ (uaop.kind = "read" => RxCount > 0)) ~> uaop.kind = "none"
=============================================================================
