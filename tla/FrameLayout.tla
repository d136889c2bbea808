----------------------------- MODULE FrameLayout -----------------------------
(***************************************************************************)
(* The lengths of a frame on its way from a sender's buffer to a reader's  *)
(* (layout.rs, radio.rs).  The length travels in the buffer itself, as the *)
(* PHR in byte 0, which counts two bytes of FCS the buffer does not hold;  *)
(* it is written by four functions, clamped by four, and read by five.     *)
(*                                                                         *)
(* Only lengths are modelled: the n bytes of a frame are bytes 1 .. n of a *)
(* buffer, so two of them with the same length are the same bytes.         *)
(***************************************************************************)
EXTENDS Naturals, FiniteSetsExt

CONSTANTS FrameLengths,   \* lengths callers and other radios choose
          SliceLengths    \* lengths of the slices callers pass

ASSUME FrameAssumption == /\ FrameLengths \subseteq Nat
                          /\ SliceLengths \subseteq 1 .. 128

VARIABLES
    flat,      \* where the frame is: "none", "buffer", "packet", "taken", "read"
    flsent,    \* history: length of the PSDU the sender asked for
    flbuf,     \* the sender's buffer: its length and its PHR
    flpacket,  \* packet.length, what is on the air
    flrx,      \* the receiver's buffer: its length, its PHR, its new bytes
    flview,    \* the lengths the readers of that buffer see
    flpanic    \* has a slice been out of range?

flvars == <<flat, flsent, flbuf, flpacket, flrx, flview, flpanic>>

MIN_PHR == 2
MAX_PHR == 127
MAX_PSDU == MAX_PHR - 2
U8(n) == n % 256
SatSub(m, n) == IF m >= n THEN m - n ELSE 0
Least(s) == Min(s)

(* set_frame_length, frame_length; psdu_region, psdu_view, data, data_mut and *)
(* RxToken::consume all take the PSDU up to the end of their buffer.         *)
PhrFor(psdu) == U8(psdu + 2)
FrameLength(phr) == SatSub(phr, 2)
Region(size, phr) == Least({FrameLength(phr), SatSub(size, 1)})

(* Mc1322xFrame::new_checked. *)
Checked(size, phr) == phr \in MIN_PHR .. MAX_PHR /\ size >= 1 + (phr - 2)

FrameInit ==
    /\ flat = "none" /\ flsent = 0 /\ flpacket = 0 /\ flview = {} /\ flpanic = FALSE
    /\ flbuf = [size |-> 0, phr |-> 0] /\ flrx = [size |-> 0, phr |-> 0, new |-> 0]

-----------------------------------------------------------------------------
Compose(size, phr, psdu) ==
    /\ flat = "none"
    /\ flat' = "buffer"
    /\ flbuf' = [size |-> size, phr |-> phr] /\ flsent' = psdu
    /\ UNCHANGED <<flpacket, flrx, flview, flpanic>>

(* TxToken::consume: the length is clamped before the closure fills it in.  *)
(* Its buffer is one of the driver's 128 bytes (radio.rs); on a slice too    *)
(* short for the frame, which From<&mut [u8]> would take, consume panics.   *)
ComposeToken ==
    \E n \in FrameLengths : LET len == Least({n, MAX_PSDU})
                            IN  Compose(128, PhrFor(len), len)

(* write_frame: a frame that does not fit is an error and goes nowhere.     *)
ComposeFrame == \E n \in FrameLengths : n <= MAX_PSDU /\ Compose(128, PhrFor(n), n)

(* A caller of its own: set_frame_length within its documented bound, in a   *)
(* slice that holds the frame; or a buffer with any first byte at all, of    *)
(* which the part up to its end is the frame.                               *)
ComposeRaw ==
    \E size \in SliceLengths :
      \/ \E n \in FrameLengths : n <= MAX_PSDU /\ n < size /\ Compose(size, PhrFor(n), n)
      \/ \E phr \in 0 .. 255 :
           Compose(size, phr, Least({FrameLength(phr), MAX_PSDU, size - 1}))

MutTransmitLength == Least({FrameLength(flbuf.phr), MAX_PSDU, flbuf.size})

(* The clamps of prepare_transmit and of the one-call transmit. *)
TransmitLength == Least({FrameLength(flbuf.phr), MAX_PSDU, SatSub(flbuf.size, 1)})

(* queue_transmit. *)
Queue(len) == flat' = "packet" /\ flpacket' = Least({len, MAX_PSDU})

PrepareTransmit ==
    /\ flat = "buffer"
    /\ flpanic' = (1 + TransmitLength > flbuf.size)
    /\ Queue(TransmitLength)
    /\ UNCHANGED <<flsent, flbuf, flrx, flview>>

(* radio-hal's start_transmit: the PSDU alone, of any length. *)
StartTransmit ==
    /\ flat = "none"
    /\ \E n \in FrameLengths : Queue(n) /\ flsent' = Least({n, MAX_PSDU})
    /\ UNCHANGED <<flbuf, flrx, flview, flpanic>>

(* A frame of another radio: the library reports a length of its own.       *)
OnAir ==
    /\ flat = "none"
    /\ \E n \in FrameLengths : flpacket' = U8(n) /\ flsent' = Least({U8(n), MAX_PSDU})
    /\ flat' = "packet"
    /\ UNCHANGED <<flbuf, flrx, flview, flpanic>>

(* copy_received_psdu. *)
Copied(room) == Least({flpacket, MAX_PSDU, room})

(* receive: into bytes 1.. of the prepared buffer, behind them still what an *)
(* older frame left there; the PHR is set last.                             *)
ReceiveFrame ==
    /\ flat = "packet" /\ flat' = "taken"
    /\ flrx' = [size |-> 128, phr |-> U8(Copied(127) + 2), new |-> Copied(127)]
    /\ UNCHANGED <<flsent, flbuf, flpacket, flview, flpanic>>

(* radio-hal's get_received: the PSDU alone, cut to the caller's buffer.     *)
GetReceived ==
    /\ flat = "packet" /\ flat' = "read"
    /\ \E size \in SliceLengths :
         /\ flview' = {Copied(size)}
         /\ flsent' = Least({flsent, size})
         /\ flrx' = [flrx EXCEPT !.size = size, !.new = Copied(size)]
    /\ UNCHANGED <<flbuf, flpacket, flpanic>>

(* The readers of a received buffer: read_frame through psdu_view, and the   *)
(* checked frame or the token of dot15d4.                                   *)
ReadFrame ==
    /\ flat = "taken" /\ flat' = "read"
    /\ flview' = {Region(flrx.size, flrx.phr)}
                 \cup IF Checked(flrx.size, flrx.phr) THEN {FrameLength(flrx.phr)} ELSE {0}
    /\ flpanic' = (1 + Region(flrx.size, flrx.phr) > flrx.size)
    /\ UNCHANGED <<flsent, flbuf, flpacket, flrx>>

FrameAgain ==
    /\ flat = "read"
    /\ flat' = "none" /\ flview' = {} /\ flsent' = 0 /\ flpacket' = 0
    /\ flbuf' = [size |-> 0, phr |-> 0] /\ flrx' = [size |-> 0, phr |-> 0, new |-> 0]
    /\ UNCHANGED flpanic

FrameNext ==
    \/ ComposeToken \/ ComposeFrame \/ ComposeRaw \/ PrepareTransmit
    \/ StartTransmit \/ OnAir \/ ReceiveFrame \/ GetReceived \/ ReadFrame
    \/ FrameAgain

FrameSpec == FrameInit /\ [][FrameNext]_flvars

-----------------------------------------------------------------------------
(* What a reader sees is what the sender asked for, whichever functions they *)
(* use: no byte is lost to a clamp that disagrees with another, none is left *)
(* over from an older frame, every received buffer passes new_checked, and   *)
(* no first byte in any slice takes a function out of its slice.            *)
FrameSurvives ==
    /\ ~flpanic
    /\ flat \in {"packet", "taken"} => Least({flpacket, MAX_PSDU}) = flsent
    /\ flat = "read" => flview = {flsent} /\ flsent <= flrx.new
=============================================================================
