-------------------------------- MODULE Aes --------------------------------
(***************************************************************************)
(* The AES engine of mc1322x-hal (aes.rs): one task runs block operations  *)
(* on the ASM hardware, blocking on STATUS.DONE or waiting for the ASM     *)
(* interrupt, which clears DONE itself and wakes the stored waker.         *)
(*                                                                         *)
(* A byte is symbolic: a value and the set of keystream bytes it has been  *)
(* XORed with, so XORing the same keystream twice gives the value back.    *)
(* The CBC-MAC accumulator is the sequence of blocks absorbed since CLEAR. *)
(***************************************************************************)
EXTENDS Naturals, Sequences

CONSTANTS BLOCK,      \* bytes of a block: 16
          OtherWakes  \* does the task also wait for something else (select, join)?

ASSUME AesAssumption == BLOCK \in Nat \ {0} /\ OtherWakes \in BOOLEAN

VARIABLES
    mask,    \* CONTROL1.MASK_IRQ
    request, \* the mode and the data written for the current operation
    acc,     \* CBC-MAC accumulator
    result,  \* CTR0_RESULT
    busy,    \* the engine is working
    done,    \* STATUS.DONE
    irq,     \* the ASM interrupt is latched
    waker,   \* WAKER holds the task's waker
    woken,   \* the task is in the run queue
    guard,   \* the operation holds a SleepInhibitGuard
    pc       \* idle, spin (blocking), started, armed (async), ready

regs == <<mask, request, acc, result>>
hw   == <<busy, done, irq>>
wait == <<waker, woken, guard>>
vars == <<regs, hw, wait, pc>>

Byte(v) == [v |-> v, ks |-> {}]
Zero    == Byte("zero")
ZeroBlock == [i \in 1..BLOCK |-> Zero]
-----------------------------------------------------------------------------
Init ==
    /\ mask = TRUE /\ request = [mode |-> "none"] /\ acc = <<>> /\ result = ZeroBlock
    /\ busy = FALSE /\ done = FALSE /\ irq = FALSE
    /\ waker = FALSE /\ woken = FALSE /\ guard = FALSE
    /\ pc = "idle"

(* CONTROL1, the data registers and START. *)
StartOp(req, async) ==
    /\ pc = "idle"
    /\ mask' = ~async /\ request' = req /\ busy' = TRUE
    /\ pc' = IF async THEN "started" ELSE "spin"
    /\ UNCHANGED <<result, done, irq, wait>>

(* ctr_block, ctr_block_async *)
CtrBlock(counter, data, async) ==
    /\ StartOp([mode |-> "ctr", counter |-> counter, data |-> data], async)
    /\ UNCHANGED acc

MutCbcMacBlockNeverClears(block, first, async) ==
    /\ StartOp([mode |-> "cbc", data |-> block], async)
    /\ UNCHANGED acc

(* cbc_mac_block, cbc_mac_block_async: the first block clears the accumulator. *)
CbcMacBlock(block, first, async) ==
    /\ StartOp([mode |-> "cbc", data |-> block], async)
    /\ acc' = IF first THEN <<>> ELSE acc

Xor(block, counter) ==
    [i \in 1..BLOCK |->
        [block[i] EXCEPT !.ks = (@ \ {<<counter, i>>}) \cup ({<<counter, i>>} \ @)]]

(* The engine finishes and latches the interrupt unless it is masked. *)
HwComplete ==
    /\ busy
    /\ busy' = FALSE /\ done' = TRUE /\ irq' = (irq \/ ~mask)
    /\ IF request.mode = "cbc"
       THEN acc' = Append(acc, request.data) /\ UNCHANGED result
       ELSE result' = Xor(request.data, request.counter) /\ UNCHANGED acc
    /\ UNCHANGED <<mask, request, wait, pc>>

(* asm_isr: CLEAR_IRQ, then WAKER.wake(). *)
AsmIsr ==
    /\ irq
    /\ irq' = FALSE /\ done' = FALSE
    /\ waker' = FALSE /\ woken' = (woken \/ waker)
    /\ UNCHANGED <<regs, busy, guard, pc>>

MutPollDoneKeepsDone ==
    /\ done /\ mask' = TRUE
    /\ UNCHANGED <<request, acc, result, hw>>

(* poll_done_status, on completion. *)
PollDone ==
    /\ done
    /\ done' = FALSE /\ irq' = FALSE /\ mask' = TRUE
    /\ UNCHANGED <<request, acc, result, busy>>

(* start_and_wait's loop; finding DONE clear leaves everything unchanged. *)
SpinPoll ==
    /\ pc = "spin" /\ PollDone
    /\ pc' = "ready"
    /\ UNCHANGED wait

(* The first poll of start_and_wait_async's future: one critical section. *)
FirstPoll ==
    /\ pc = "started"
    /\ \/ PollDone /\ pc' = "ready" /\ UNCHANGED wait
       \/ /\ ~done
          /\ guard' = TRUE /\ waker' = TRUE /\ pc' = "armed"
          /\ UNCHANGED <<regs, hw, woken>>

(* Any later poll: ready, whoever woke the task. *)
SecondPoll ==
    /\ pc = "armed" /\ (woken \/ OtherWakes)
    /\ woken' = FALSE /\ guard' = FALSE /\ pc' = "ready"
    /\ UNCHANGED <<regs, hw, waker>>

EngineStep ==
    \/ HwComplete \/ AsmIsr
    \/ SpinPoll \/ FirstPoll \/ SecondPoll
-----------------------------------------------------------------------------
(* An operation's caller goes on to read the result only once the engine    *)
(* has finished that operation, and leaves behind no completion that the    *)
(* next one would mistake for its own and no guard that would keep the chip *)
(* from ever sleeping again.                                                *)
OwnCompletion == pc = "ready" => ~busy /\ ~done /\ ~irq /\ ~guard

(* A completion can not be missed: a task that waits for the engine will    *)
(* be woken by an operation that is still to finish, by the interrupt it    *)
(* has latched or by a wake already delivered.                              *)
CompletionNotMissed == pc = "armed" => busy \/ irq \/ woken
=============================================================================
