------------------------------- MODULE I2cBus -------------------------------
(***************************************************************************)
(* I2C transactions of mc1322x-hal (i2c.rs): a list of reads and writes    *)
(* becomes START, address, data, repeated START and STOP on the bus, byte  *)
(* by byte, in the blocking driver and in the async one, which parks       *)
(* between bytes until the I2C interrupt.                                  *)
(*                                                                         *)
(* The module shifts one byte at a time while the driver runs.  In receive *)
(* mode every read of the data register starts the reception of one byte   *)
(* more, so the driver is always a byte ahead of the one it stores.  The   *)
(* slave acknowledges or not; another master may take the bus during a     *)
(* byte that is transmitted.                                               *)
(***************************************************************************)
EXTENDS Naturals, Sequences, SequencesExt

CONSTANTS I2cPrograms,  \* the transactions: sequences of [read, len]
          MaxI2cDrops   \* bound: async transactions dropped while pending

ASSUME I2cAssumption ==
    /\ MaxI2cDrops \in Nat
    /\ I2cPrograms \subseteq Seq([read : BOOLEAN, len : Nat])

VARIABLES
    i2mode,    \* "blocking" or "async": the trait the caller uses
    i2ops,     \* the operations of the transaction
    i2at,      \* the operation under way
    i2byte,    \* the byte of that operation the driver waits for
    i2pc,      \* where the driver stands
    i2run,     \* is the driver's task running (always, when blocking)?
    i2woken,   \* has its waker been called since it parked?
    i2waker,   \* is there a waker in WAKER?
    i2cr,      \* the bits set in I2CCR, but for MEN
    i2mif, i2mal, i2rxak,   \* bits of I2CSR
    i2mbb,     \* I2CSR.MBB: the bus is busy
    i2shift,   \* the byte being shifted (MCF is clear), or "none"
    i2dr,      \* the byte in the data register: where it is in i2wire
    i2wire,    \* history: what has gone over the bus in this transaction
    i2got,     \* what the driver stored in the callers' buffers
    i2result,  \* what the transaction returned
    i2drops    \* history: transactions dropped

i2call  == <<i2mode, i2ops>>
i2task  == <<i2run, i2woken, i2waker>>
i2sr    == <<i2mif, i2mal, i2rxak>>
i2vars  == <<i2call, i2at, i2byte, i2pc, i2task, i2cr, i2sr, i2mbb, i2shift,
             i2dr, i2wire, i2got, i2result, i2drops>>

I2cWaits == {"addr", "tx", "rx", "tail"}
-----------------------------------------------------------------------------
(* I2c0::new: module enabled, no interrupt armed. *)
I2cInit ==
    /\ i2mode = "blocking" /\ i2ops = <<>> /\ i2at = 0 /\ i2byte = 0
    /\ i2pc = "idle" /\ i2run = FALSE /\ i2woken = FALSE /\ i2waker = FALSE
    /\ i2cr = {} /\ i2mif = FALSE /\ i2mal = FALSE /\ i2rxak = FALSE
    /\ i2mbb = FALSE /\ i2shift = "none" /\ i2dr = 0
    /\ i2wire = <<>> /\ i2got = <<>> /\ i2result = "none" /\ i2drops = 0

(* transaction(): nothing to do for an empty list. *)
I2cCall ==
    /\ i2pc = "idle"
    /\ i2mode' \in {"blocking", "async"} /\ i2ops' \in I2cPrograms
    /\ IF i2ops' = <<>> THEN i2pc' = "done" /\ i2result' = "ok"
                        ELSE i2pc' = "bus" /\ UNCHANGED i2result
    /\ i2at' = 1 /\ i2byte' = 0 /\ i2run' = TRUE
    /\ UNCHANGED <<i2woken, i2waker, i2cr, i2sr, i2mbb, i2shift, i2dr, i2wire,
                   i2got, i2drops>>

(* The caller takes the result; the histories are those of a transaction. *)
I2cReturn ==
    /\ i2pc = "done"
    /\ i2pc' = "idle" /\ i2run' = FALSE
    /\ i2mode' = "blocking" /\ i2ops' = <<>> /\ i2at' = 0 /\ i2byte' = 0
    /\ i2wire' = <<>> /\ i2got' = <<>> /\ i2result' = "none" /\ i2dr' = 0
    /\ UNCHANGED <<i2woken, i2waker, i2cr, i2sr, i2mbb, i2shift, i2drops>>
-----------------------------------------------------------------------------
I2cOp == i2ops[i2at]
IsLast == i2at = Len(i2ops)
SameDirection == i2at > 1 /\ i2ops[i2at - 1].read = I2cOp.read

(* A byte in transmit mode; the status is clear when it starts. *)
Transmit(kind) == i2shift' = kind
(* A read of the data register in receive mode starts the next reception. *)
Receive == i2shift' = "byte"

(* stop: the force-reset sequence releases the bus whatever state it is in  *)
(* and leaves plain MEN; whether its dummy read leaves MIF set is unknown.  *)
Stop ==
    /\ i2cr' = {} /\ i2mbb' = FALSE /\ i2shift' = "none"
    /\ i2mif' \in BOOLEAN
    /\ i2wire' = Append(i2wire, <<"P">>)

Finish(result) ==
    /\ Stop
    /\ i2pc' = "done" /\ i2result' = result
    /\ UNCHANGED <<i2at, i2byte, i2got, i2dr>>

ToOp(k) == i2pc' = "enter" /\ i2at' = k /\ i2byte' = 0
WaitFor(pc, j) == i2pc' = pc /\ i2byte' = j /\ UNCHANGED i2at

(* start and restart: clear_status, then the address byte. *)
Address(event) ==
    /\ i2mif' = FALSE /\ i2mal' = FALSE
    /\ i2wire' = Append(i2wire, <<event>>)
    /\ Transmit("addr")
    /\ WaitFor("addr", 0)
    /\ UNCHANGED <<i2dr, i2got, i2result, i2rxak>>

(* start: poll MBB, then take the bus.  Another master's transaction that    *)
(* is under way here would only make the poll last longer; left out.        *)
I2cStart ==
    /\ i2pc = "bus" /\ i2run /\ ~i2mbb
    /\ i2mbb' = TRUE /\ i2cr' = {"MSTA", "MTX"}
    /\ Address("S")
    /\ UNCHANGED <<i2call, i2task, i2drops>>

(* The first data byte of an operation, right after its address or after   *)
(* the operation before it: nothing to do when it is empty, and a byte to  *)
(* receive is on its way already (continue_receive).                       *)
FirstByte ==
    IF I2cOp.len = 0
    THEN ToOp(i2at + 1) /\ UNCHANGED <<i2shift, i2cr>>
    ELSE /\ WaitFor(IF I2cOp.read THEN "rx" ELSE "tx", 1)
         /\ IF I2cOp.read THEN UNCHANGED i2shift ELSE Transmit("data")
         /\ UNCHANGED i2cr

(* receive_data: out of transmit mode, and a dummy read for the first byte. *)
FirstReceive ==
    /\ i2cr' = i2cr \ {"MTX"}
    /\ Receive
    /\ IF I2cOp.len = 0 THEN ToOp(i2at + 1) ELSE WaitFor("rx", 1)

MutEnterFirstOp ==
    /\ i2pc = "enter" /\ i2run
    /\ \/ /\ i2at > Len(i2ops) /\ Finish("ok")
          /\ UNCHANGED <<i2mal, i2rxak>>
       \/ /\ i2at <= Len(i2ops) /\ i2ops[1].read # I2cOp.read
          /\ i2cr' = i2cr \cup {"MTX"}
          /\ Address("Sr") /\ UNCHANGED i2mbb
       \/ /\ i2at <= Len(i2ops) /\ i2ops[1].read = I2cOp.read
          /\ FirstByte
          /\ UNCHANGED <<i2sr, i2mbb, i2wire, i2dr, i2got, i2result>>
    /\ UNCHANGED <<i2call, i2task, i2drops>>

(* The transaction's loop: STOP after the last operation, a repeated START *)
(* where the direction changes (a byte being received then is cut off).    *)
I2cEnter ==
    /\ i2pc = "enter" /\ i2run
    /\ \/ /\ i2at > Len(i2ops) /\ Finish("ok")
          /\ UNCHANGED <<i2mal, i2rxak>>
       \/ /\ i2at <= Len(i2ops) /\ ~SameDirection
          /\ i2cr' = i2cr \cup {"MTX"}
          /\ Address("Sr") /\ UNCHANGED i2mbb
       \/ /\ i2at <= Len(i2ops) /\ SameDirection
          /\ FirstByte
          /\ UNCHANGED <<i2sr, i2mbb, i2wire, i2dr, i2got, i2result>>
    /\ UNCHANGED <<i2call, i2task, i2drops>>
-----------------------------------------------------------------------------
(* poll_byte_status: the flags it looks at and what it makes of them.      *)
Ready == i2mal \/ (i2mif /\ i2shift = "none")

I2cLost ==
    /\ i2pc \in I2cWaits /\ i2run /\ i2mal
    /\ i2mal' = FALSE /\ Finish("arbitration lost")
    /\ UNCHANGED <<i2call, i2task, i2rxak, i2drops>>

Completed(pc) == i2pc = pc /\ i2run /\ ~i2mal /\ Ready

I2cNack ==
    /\ Completed("addr") \/ Completed("tx")
    /\ i2rxak
    /\ Finish(IF i2pc = "addr" THEN "no ack: address" ELSE "no ack: data")
    /\ UNCHANGED <<i2call, i2task, i2mal, i2rxak, i2drops>>

(* After an acknowledged address. *)
I2cAddressed ==
    /\ Completed("addr") /\ ~i2rxak
    /\ i2mif' = FALSE
    /\ IF I2cOp.read THEN FirstReceive ELSE FirstByte
    /\ UNCHANGED <<i2call, i2task, i2mal, i2rxak, i2mbb, i2dr, i2wire, i2got,
                   i2result, i2drops>>

(* transmit_data: the next byte, or the end of the buffer. *)
I2cTransmitData ==
    /\ Completed("tx") /\ ~i2rxak
    /\ i2mif' = FALSE
    /\ IF i2byte < I2cOp.len
       THEN WaitFor("tx", i2byte + 1) /\ Transmit("data")
       ELSE ToOp(i2at + 1) /\ UNCHANGED i2shift
    /\ UNCHANGED <<i2call, i2task, i2cr, i2mal, i2rxak, i2mbb, i2dr, i2wire,
                   i2got, i2result, i2drops>>

MutNackTailEarly == IF IsLast /\ i2byte + 1 = I2cOp.len
                    THEN i2cr' = i2cr \cup {"TXAK"} ELSE UNCHANGED i2cr

(* nack_tail: acknowledge is turned off before the read that lets the byte *)
(* after the last one come in.                                             *)
NackTail == IF IsLast /\ i2byte = I2cOp.len
            THEN i2cr' = i2cr \cup {"TXAK"} ELSE UNCHANGED i2cr

(* receive_data and continue_receive: store a byte, which starts the next. *)
I2cReceiveData ==
    /\ Completed("rx")
    /\ i2mif' = FALSE
    /\ NackTail
    /\ i2got' = Append(i2got, i2dr)
    /\ Receive
    /\ \/ i2byte < I2cOp.len /\ WaitFor("rx", i2byte + 1)
       \/ i2byte = I2cOp.len /\ IsLast /\ WaitFor("tail", 0)
       \/ i2byte = I2cOp.len /\ ~IsLast /\ ToOp(i2at + 1)
    /\ UNCHANGED <<i2call, i2task, i2mal, i2rxak, i2mbb, i2dr, i2wire,
                   i2result, i2drops>>

(* The trailing byte, not acknowledged and not stored, has been clocked. *)
I2cTail ==
    /\ Completed("tail")
    /\ i2mif' = FALSE
    /\ ToOp(i2at + 1)
    /\ UNCHANGED <<i2call, i2task, i2cr, i2mal, i2rxak, i2mbb, i2shift, i2dr,
                   i2wire, i2got, i2result, i2drops>>
-----------------------------------------------------------------------------
MutParkNotArmed ==
    /\ i2mode = "async" /\ i2pc \in I2cWaits /\ i2run /\ ~Ready
    /\ i2waker' = TRUE /\ i2run' = FALSE
    /\ UNCHANGED <<i2call, i2at, i2byte, i2pc, i2woken, i2sr, i2mbb, i2shift,
                   i2cr, i2dr, i2wire, i2got, i2result, i2drops>>

(* wait_byte_async: store the waker, arm MIEN and park, in one critical     *)
(* section with the check.  wait_byte spins instead.                        *)
I2cPark ==
    /\ i2mode = "async" /\ i2pc \in I2cWaits /\ i2run /\ ~Ready
    /\ i2waker' = TRUE /\ i2cr' = i2cr \cup {"MIEN"}
    /\ i2run' = FALSE
    /\ UNCHANGED <<i2call, i2at, i2byte, i2pc, i2woken, i2sr, i2mbb, i2shift,
                   i2dr, i2wire, i2got, i2result, i2drops>>

(* The executor polls the future again where it stopped. *)
I2cResume ==
    /\ i2pc \in I2cWaits /\ ~i2run /\ i2woken
    /\ i2run' = TRUE /\ i2woken' = FALSE
    /\ UNCHANGED <<i2call, i2at, i2byte, i2pc, i2waker, i2cr, i2sr, i2mbb,
                   i2shift, i2dr, i2wire, i2got, i2result, i2drops>>

(* Some other future of the same task is ready: a spurious wake. *)
I2cWakeOther ==
    /\ i2pc \in I2cWaits /\ ~i2run /\ ~i2woken
    /\ i2woken' = TRUE
    /\ UNCHANGED <<i2call, i2at, i2byte, i2pc, i2run, i2waker, i2cr, i2sr, i2mbb,
                   i2shift, i2dr, i2wire, i2got, i2result, i2drops>>

(* The caller drops the future: nothing stops the byte, frees the bus or    *)
(* disarms the interrupt.                                                   *)
I2cDrop ==
    /\ i2pc \in I2cWaits /\ ~i2run /\ i2drops < MaxI2cDrops
    /\ i2pc' = "idle" /\ i2woken' = FALSE /\ i2drops' = i2drops + 1
    /\ i2mode' = "blocking" /\ i2ops' = <<>> /\ i2at' = 0 /\ i2byte' = 0
    /\ i2wire' = <<>> /\ i2got' = <<>> /\ i2dr' = 0
    /\ UNCHANGED <<i2run, i2waker, i2cr, i2sr, i2mbb, i2shift, i2result>>

(* i2c_isr: disarm, and wake whoever is stored. *)
I2cIsr ==
    /\ "MIEN" \in i2cr /\ i2mif
    /\ i2cr' = i2cr \ {"MIEN"}
    /\ i2waker' = FALSE
    /\ i2woken' = (i2woken \/ (i2waker /\ i2pc \in I2cWaits))
    /\ UNCHANGED <<i2call, i2at, i2byte, i2pc, i2run, i2sr, i2mbb, i2shift,
                   i2dr, i2wire, i2got, i2result, i2drops>>
-----------------------------------------------------------------------------
(* History: an orphan byte of a dropped transaction is not this one's. *)
Record(e) == i2wire' = IF i2pc \in {"idle", "bus"} THEN i2wire ELSE Append(i2wire, e)

(* The I2C module ends a byte: the slave has answered an address or a data  *)
(* byte, or has been answered.                                              *)
I2cShift ==
    /\ i2shift # "none" /\ i2shift' = "none" /\ i2mif' = TRUE
    /\ \/ /\ i2shift = "byte" /\ UNCHANGED i2rxak
          /\ Record(<<"byte", "TXAK" \notin i2cr>>) /\ i2dr' = Len(i2wire')
       \/ /\ i2shift = "addr" /\ i2rxak' \in BOOLEAN /\ UNCHANGED i2dr
          /\ Record(<<"addr", i2pc = "addr" /\ I2cOp.read>>)
       \/ /\ i2shift = "data" /\ i2rxak' \in BOOLEAN /\ UNCHANGED i2dr
          /\ Record(<<"data", i2at, i2byte>>)
    /\ UNCHANGED <<i2call, i2at, i2byte, i2pc, i2task, i2cr, i2mal, i2mbb,
                   i2got, i2result, i2drops>>

(* Another master wins a byte: we are no longer the master. *)
I2cArbitration ==
    /\ i2shift \in {"addr", "data"} /\ i2shift' = "none"
    /\ i2mal' = TRUE /\ i2mif' = TRUE /\ i2cr' = i2cr \ {"MSTA"}
    /\ UNCHANGED <<i2call, i2at, i2byte, i2pc, i2task, i2rxak, i2mbb, i2dr,
                   i2wire, i2got, i2result, i2drops>>

I2cDriver ==
    \/ I2cStart \/ I2cEnter \/ I2cLost \/ I2cNack \/ I2cAddressed
    \/ I2cTransmitData \/ I2cReceiveData \/ I2cTail \/ I2cPark \/ I2cResume

I2cNext ==
    \/ I2cCall \/ I2cReturn \/ I2cDriver
    \/ I2cWakeOther \/ I2cDrop \/ I2cIsr
    \/ I2cShift \/ I2cArbitration

(* The CPU runs the driver and the pending handler, and a byte ends: the    *)
(* slave does not hold SCL for ever.                                        *)
I2cFairness ==
    /\ WF_i2vars(I2cDriver) /\ WF_i2vars(I2cIsr) /\ WF_i2vars(I2cShift)

I2cSpec == I2cInit /\ [][I2cNext]_i2vars /\ I2cFairness
-----------------------------------------------------------------------------
(* What the operations mean on the bus, bytes received left out: START and  *)
(* the address, the bytes of each write in order, a repeated START and the  *)
(* address exactly where the direction changes.                             *)
StartOf(ops, k) ==
    IF k = 1 THEN <<<<"S">>, <<"addr", ops[k].read>>>>
    ELSE IF ops[k].read = ops[k - 1].read THEN <<>>
    ELSE <<<<"Sr">>, <<"addr", ops[k].read>>>>
WriteBytes(k, n) == [j \in 1..n |-> <<"data", k, j>>]
BusPieces(ops) ==
    [k \in 1..Len(ops) |->
        StartOf(ops, k) \o (IF ops[k].read THEN <<>> ELSE WriteBytes(k, ops[k].len))]
OnTheBus(ops) == FlattenSeq(BusPieces(ops))

DrivenPieces(wire) ==
    [n \in 1..Len(wire) |-> IF wire[n][1] = "byte" THEN <<>> ELSE <<wire[n]>>]
Driven == FlattenSeq(DrivenPieces(i2wire))

(* What is driven on the bus is what the operations mean: at every moment a *)
(* beginning of it; all of it, then a STOP, when the transaction succeeds;  *)
(* the part up to the failure, then a STOP, when it does not.  The bus is   *)
(* free again on every return.                                              *)
I2cWire ==
    i2pc # "idle" =>
      /\ i2pc # "done" => IsPrefix(Driven, OnTheBus(i2ops))
      /\ i2pc = "done" /\ i2ops # <<>> =>
           /\ ~i2mbb
           /\ Last(Driven) = <<"P">> /\ IsPrefix(Front(Driven), OnTheBus(i2ops))
           /\ i2result = "ok" => Front(Driven) = OnTheBus(i2ops)

(* The places of the callers' buffers that the operations fill.             *)
ReadPieces(ops) ==
    [k \in 1..Len(ops) |->
        IF ops[k].read THEN [j \in 1..ops[k].len |-> <<k, j>>] ELSE <<>>]

ReceivedAt == {n \in DOMAIN i2wire : i2wire[n][1] = "byte"}

(* The bytes stored are the bytes received after the address, in order and  *)
(* without a gap, one place behind the bus: of each run of bytes at most    *)
(* the last is not stored.  When a transaction that ends in a read returns, *)
(* the buffers are full and exactly the last byte received, which no buffer *)
(* gets, was not acknowledged, so that the slave lets go of SDA for the     *)
(* STOP.  Not so when its final read has length 0 ([Read 2, Read 0]): the   *)
(* code then leaves every byte acknowledged, the trailing one included      *)
(* (receive_data, continue_receive), and so does this formula.              *)
I2cBuffers ==
    i2pc # "idle" =>
      /\ \A k \in 1..(Len(i2got) - 1) : i2got[k] < i2got[k + 1]
      /\ ToSet(i2got) \subseteq ReceivedAt
      /\ \A n \in ReceivedAt : n + 1 \in ReceivedAt => n \in ToSet(i2got)
      /\ i2result = "ok" /\ i2ops # <<>> =>
           LET final == Last(i2ops)
               nacked == {n \in ReceivedAt : ~i2wire[n][2]}
           IN  /\ Len(i2got) = Len(FlattenSeq(ReadPieces(i2ops)))
               /\ nacked = IF final.read /\ final.len > 0
                           THEN {Len(i2wire) - 1} \ ToSet(i2got) ELSE {}

(* Every transaction returns, whatever the slave answers, wherever the      *)
(* interrupt falls and whoever else wakes the task, as long as no earlier   *)
(* one was dropped while it owned the bus.                                  *)
I2cReturns == (i2pc # "idle" /\ i2drops = 0) ~> (i2pc = "done" \/ i2drops > 0)
=============================================================================
