------------------------------- MODULE SpiBus -------------------------------
(***************************************************************************)
(* The SpiBus operations of mc1322x-hal (spi.rs), blocking and async: each *)
(* is a row of one-word transfers, started by the driver, shifted by the   *)
(* SPI module and collected when SPI_INT is seen.  A word goes out for     *)
(* every word that comes in; nothing but their order ties them together.   *)
(* A future dropped between the two leaves its transfer running.           *)
(***************************************************************************)
EXTENDS Naturals, Sequences

CONSTANTS SpiLengths,    \* lengths of the buffers callers pass
          MaxSpiDrops    \* bound: futures dropped while pending

ASSUME SpiAssumption == SpiLengths \subseteq Nat /\ MaxSpiDrops \in Nat

VARIABLES
    spcall,    \* the operation: [kind, async, read, write], lengths of buffers
    sppc,      \* "idle", "start", "enable", "wait", "parked", "done"
    spi,       \* i: words of it that are through
    spshift,   \* has the module a transfer under way?
    spint,     \* SPI_STATUS.SPI_INT
    sprx,      \* SPI_RX_DATA: which of the words on the wire it answers
    spchan,    \* is the ITC's SPI channel enabled?
    spwaker,   \* is there a waker in WAKER?
    spwire,    \* history: the words put on the wire by this operation
    spgot,     \* what the driver stored in the read buffer
    spclean,   \* history: did the operation find the module idle?
    spdrops    \* history: futures dropped

spvars == <<spcall, sppc, spi, spshift, spint, sprx, spchan, spwaker, spwire,
            spgot, spclean, spdrops>>

SpiNoCall == [kind |-> "none", async |-> FALSE, read |-> 0, write |-> 0]
SpiMax(m, n) == IF m >= n THEN m ELSE n

SpiInit ==
    /\ spcall = SpiNoCall /\ sppc = "idle" /\ spi = 0
    /\ spshift = FALSE /\ spint = FALSE /\ sprx = 0
    /\ spchan = FALSE /\ spwaker = FALSE
    /\ spwire = <<>> /\ spgot = <<>> /\ spclean = TRUE /\ spdrops = 0

-----------------------------------------------------------------------------
\* read, write, transfer and transfer_in_place by the lengths of their buffers.
SpiCalls ==
    [kind : {"read", "in place"}, async : BOOLEAN, read : SpiLengths, write : {0}]
    \cup [kind : {"write"}, async : BOOLEAN, read : {0}, write : SpiLengths]
    \cup [kind : {"transfer"}, async : BOOLEAN, read : SpiLengths, write : SpiLengths]

SpiCall ==
    /\ sppc = "idle"
    /\ spcall' \in SpiCalls
    /\ sppc' = "start" /\ spi' = 0
    /\ spclean' = (~spshift /\ ~spint)
    /\ UNCHANGED <<spshift, spint, sprx, spchan, spwaker, spwire, spgot, spdrops>>

SpiWords == SpiMax(spcall.read, spcall.write)

(* The word of transfer k: from the buffer, or 0xFF to have one to read. *)
SpiWord(k) ==
    IF k < spcall.write THEN <<"write", k>>
    ELSE IF spcall.kind = "in place" THEN <<"in place", k>> ELSE <<"0xFF">>

(* Where a poll begins: the async one enables the channel before it checks. *)
SpiPollAt == IF spcall.async THEN "enable" ELSE "wait"

(* start_transfer; a transfer that is still under way goes on as the new    *)
(* one, or is cut off by it: the module is used as it never should be.      *)
SpiStart ==
    /\ sppc = "start" /\ spi < SpiWords
    /\ spwire' = Append(spwire, SpiWord(spi))
    /\ spshift' = TRUE
    /\ sppc' = SpiPollAt
    /\ UNCHANGED <<spcall, spi, spint, sprx, spchan, spwaker, spgot, spclean, spdrops>>

SpiDone ==
    /\ sppc = "start" /\ spi = SpiWords
    /\ sppc' = "done"
    /\ UNCHANGED <<spcall, spi, spshift, spint, sprx, spchan, spwaker, spwire,
                   spgot, spclean, spdrops>>

MutSpiCollectNoAck ==
    /\ sppc = "wait" /\ spint
    /\ UNCHANGED spint
    /\ spgot' = IF spi < spcall.read THEN Append(spgot, sprx) ELSE spgot
    /\ spi' = spi + 1 /\ sppc' = "start"
    /\ UNCHANGED <<spcall, spshift, sprx, spchan, spwaker, spwire, spclean, spdrops>>

(* poll_transfer_status is ready: the word is stored where there is room.   *)
SpiCollect ==
    /\ sppc = "wait" /\ spint
    /\ spint' = FALSE
    /\ spgot' = IF spi < spcall.read THEN Append(spgot, sprx) ELSE spgot
    /\ spi' = spi + 1 /\ sppc' = "start"
    /\ UNCHANGED <<spcall, spshift, sprx, spchan, spwaker, spwire, spclean, spdrops>>

(* The ITC channel is enabled outside the critical section of the check.    *)
SpiEnable ==
    /\ sppc = "enable"
    /\ spchan' = TRUE /\ sppc' = "wait"
    /\ UNCHANGED <<spcall, spi, spshift, spint, sprx, spwaker, spwire, spgot,
                   spclean, spdrops>>

(* Not ready: an async transfer stores its waker and parks. *)
SpiPark ==
    /\ sppc = "wait" /\ spcall.async /\ ~spint
    /\ spwaker' = TRUE
    /\ sppc' = "parked"
    /\ UNCHANGED <<spcall, spi, spshift, spint, sprx, spchan, spwire, spgot,
                   spclean, spdrops>>

(* The task is polled again: spi_isr woke it, or something else did. *)
SpiPoll ==
    /\ sppc = "parked"
    /\ sppc' = SpiPollAt
    /\ UNCHANGED <<spcall, spi, spshift, spint, sprx, spchan, spwaker, spwire,
                   spgot, spclean, spdrops>>

(* spi_isr: the channel off, the waker called, SPI_INT left for the poll.   *)
SpiIsr ==
    /\ spchan /\ spint
    /\ spchan' = FALSE /\ spwaker' = FALSE
    /\ sppc' = IF spwaker /\ sppc = "parked" THEN SpiPollAt ELSE sppc
    /\ UNCHANGED <<spcall, spi, spshift, spint, sprx, spwire, spgot, spclean, spdrops>>

SpiForget == /\ spcall' = SpiNoCall /\ sppc' = "idle" /\ spi' = 0
             /\ spwire' = <<>> /\ spgot' = <<>> /\ spclean' = TRUE

SpiReturn ==
    /\ sppc = "done"
    /\ SpiForget
    /\ sprx' = 0
    /\ UNCHANGED <<spshift, spint, spchan, spwaker, spdrops>>

(* The future is dropped: its transfer, its channel and its waker stay.     *)
SpiDrop ==
    /\ sppc = "parked" /\ spdrops < MaxSpiDrops
    /\ SpiForget
    /\ sprx' = 0
    /\ spdrops' = spdrops + 1
    /\ UNCHANGED <<spshift, spint, spchan, spwaker>>

(* The module has shifted a word out and one in. *)
SpiShift ==
    /\ spshift
    /\ spshift' = FALSE /\ spint' = TRUE /\ sprx' = Len(spwire)
    /\ UNCHANGED <<spcall, sppc, spi, spchan, spwaker, spwire, spgot, spclean, spdrops>>

SpiNext ==
    \/ SpiCall \/ SpiStart \/ SpiDone \/ SpiCollect \/ SpiEnable \/ SpiPark
    \/ SpiPoll \/ SpiIsr \/ SpiReturn \/ SpiDrop \/ SpiShift

SpiSpec == SpiInit /\ [][SpiNext]_spvars

-----------------------------------------------------------------------------
(* What an operation means on the wire: the caller's words in order, 0xFF   *)
(* for each that is only to be read, as many as the longer buffer.          *)
OnTheWire(call) ==
    [k \in 1 .. SpiMax(call.read, call.write) |->
       CASE call.kind = "read" -> <<"0xFF">>
         [] call.kind = "write" -> <<"write", k - 1>>
         [] call.kind = "in place" -> <<"in place", k - 1>>
         [] call.kind = "transfer" /\ k <= call.write -> <<"write", k - 1>>
         [] OTHER -> <<"0xFF">>]

(* An operation that finds the module idle puts exactly its words on the    *)
(* wire and stores in place k what came in with word k, wherever the        *)
(* interrupt and other wake-ups fall; it leaves the module idle for the     *)
(* next one, with no completion and no transfer behind it.                  *)
SpiExchanged ==
    sppc # "idle" /\ spclean =>
      /\ \A k \in DOMAIN spgot : spgot[k] = k
      /\ \A k \in DOMAIN spwire : spwire[k] = OnTheWire(spcall)[k]
      /\ sppc = "done" => /\ spwire = OnTheWire(spcall)
                          /\ Len(spgot) = spcall.read
                          /\ ~spshift /\ ~spint
=============================================================================
