-------------------------------- MODULE Radio --------------------------------
(***************************************************************************)
(* The radio driver of mc1322x-radio (radio.rs): futures and radio-hal     *)
(* calls of one client over the packet pool of libmc1322x, whose interrupt *)
(* handler calls maca_rx_callback and maca_tx_callback.                    *)
(*                                                                         *)
(* Every poll and every call runs in one critical section and is one       *)
(* action.  A call creates a future and makes its task runnable; a pending *)
(* future is polled again whenever its task is, and may be dropped.  A     *)
(* frame is its place in the order of queueing or of arrival.              *)
(***************************************************************************)
EXTENDS Naturals, Sequences

CONSTANTS POOL,     \* packets of libmc1322x
          Channels, \* channel indices, 0..15
          None,     \* the Rust Option's None
          Statuses, \* MACA status codes
          RadioHal, \* the radio-hal feature
          MaxTx,    \* bound: frames queued for transmission
          MaxRx     \* bound: frames received

ASSUME RadioAssumption ==
    /\ POOL \in Nat \ {0} /\ MaxTx \in Nat /\ MaxRx \in Nat
    /\ 0 \in Channels
    /\ None \notin Channels /\ None \notin Nat /\ None \notin [code : Statuses, frame : Nat]
    /\ RadioHal \in BOOLEAN

VARIABLES
    on,           \* maca_on / maca_off
    channel,      \* the MACA's channel register
    free,         \* packets in the free pool
    txq,          \* packets queued for transmission
    rxq,          \* received packets queued by the C library
    rx_buffer,    \* State.rx_buffer is Some
    rx_pending,   \* State.rx_pending
    tx_status,    \* State.tx_status, with the frame it is about
    tx_channel,   \* State.tx_channel
    cancelled,    \* State.cancelled
    waker,        \* State.waker is Some
    tx_in_flight, \* State.tx_in_flight
    fut,          \* the client's future: none, receive, prepare, transmit,
                  \* send (prepare_and_transmit) and its second half sending
    ask,          \* the channel that future was given
    woken,        \* the client's task is in the run queue
    lent,         \* history: the buffer passed to prepare_receive is valid
    owed,         \* history: the frame whose result the client has to collect
    report,       \* history: <<frame asked about, frame reported on>>
    aired,        \* history: <<channel asked for, channel used>>
    sent,         \* history: frames queued so far
    arrived,      \* history: frames received so far
    taken,        \* history: frames taken from the RX queue so far
    abandons      \* does the client cancel, drop futures or ignore results?

maca    == <<on, channel, free, txq, rxq>>
state   == <<rx_buffer, rx_pending, tx_status, tx_channel, cancelled, waker, tx_in_flight>>
client  == <<fut, ask, woken>>
history == <<lent, owed, report, aired, sent, arrived, taken>>
driver  == <<maca, state, client, history>>
vars    == <<driver, abandons>>

Init ==
    /\ on = TRUE /\ channel = 0 /\ free = POOL /\ txq = <<>> /\ rxq = <<>>
    /\ rx_buffer = FALSE /\ rx_pending = 0 /\ tx_status = None /\ tx_channel = None
    /\ cancelled = FALSE /\ waker = FALSE /\ tx_in_flight = FALSE
    /\ fut = "none" /\ ask = None /\ woken = FALSE
    /\ lent = FALSE /\ owed = None /\ report = None /\ aired = None
    /\ sent = 0 /\ arrived = 0 /\ taken = 0
    /\ abandons \in BOOLEAN
-----------------------------------------------------------------------------
(* The callbacks take the stored waker and wake it. *)
WakePending ==
    /\ waker' = FALSE
    /\ woken' = (woken \/ waker)

(* A frame arrives: maca_rx_callback counts it, the C library queues it. *)
MacaRxCallback ==
    /\ on /\ free > 0 /\ arrived < MaxRx
    /\ free' = free - 1 /\ rxq' = Append(rxq, arrived + 1) /\ arrived' = arrived + 1
    /\ rx_pending' = rx_pending + 1
    /\ WakePending
    /\ UNCHANGED <<on, channel, txq, rx_buffer, tx_status, tx_channel, cancelled,
                   tx_in_flight, fut, ask, lent, owed, report, aired, sent, taken>>

(* The oldest queued frame has been sent: maca_tx_callback keeps its status, *)
(* then the C library frees the packet.                                      *)
MacaTxCallback ==
    /\ on /\ txq # <<>>
    /\ free' = free + 1 /\ txq' = Tail(txq)
    /\ \E s \in Statuses : tx_status' = [code |-> s, frame |-> Head(txq).frame]
    /\ aired' = <<Head(txq).channel, channel>>
    /\ WakePending
    /\ UNCHANGED <<on, channel, rxq, rx_buffer, rx_pending, tx_channel, cancelled,
                   tx_in_flight, fut, ask, lent, owed, report, sent, arrived, taken>>
-----------------------------------------------------------------------------
(* set_channel_index: the register is written unless the cache says it is   *)
(* there already.                                                           *)
SetChannelIndex(c) ==
    /\ channel' = IF tx_channel # c THEN c ELSE channel
    /\ tx_channel' = c

(* Nothing the client started is still outstanding. *)
Settled == abandons \/ owed = None

SetChannel(c) ==
    /\ fut = "none" /\ Settled
    /\ SetChannelIndex(c)
    /\ UNCHANGED <<on, free, txq, rxq, rx_buffer, rx_pending, tx_status, cancelled, waker,
                   tx_in_flight, client, history>>

(* disable, and enable, which resets the MACA and with it the channel. *)
ReleaseState ==
    /\ tx_channel' = None /\ cancelled' = FALSE
    /\ rx_buffer' = FALSE /\ lent' = FALSE

Disable ==
    /\ fut = "none" /\ Settled
    /\ on' = FALSE /\ UNCHANGED channel
    /\ ReleaseState
    /\ UNCHANGED <<free, txq, rxq, rx_pending, tx_status, waker, tx_in_flight, client,
                   owed, report, aired, sent, arrived, taken>>

MutEnableKeepsCachedChannel ==
    /\ fut = "none" /\ Settled
    /\ on' = TRUE /\ channel' = 0
    /\ UNCHANGED tx_channel /\ cancelled' = FALSE
    /\ rx_buffer' = FALSE /\ lent' = FALSE
    /\ UNCHANGED <<free, txq, rxq, rx_pending, tx_status, waker, tx_in_flight, client,
                   owed, report, aired, sent, arrived, taken>>

Enable ==
    /\ fut = "none" /\ Settled
    /\ on' = TRUE /\ channel' = 0
    /\ ReleaseState
    /\ UNCHANGED <<free, txq, rxq, rx_pending, tx_status, waker, tx_in_flight, client,
                   owed, report, aired, sent, arrived, taken>>

(* prepare_receive; its future resolves on its first poll. *)
PrepareReceive ==
    /\ fut = "none"
    /\ rx_buffer' = TRUE /\ lent' = TRUE /\ cancelled' = FALSE
    /\ UNCHANGED <<maca, rx_pending, tx_status, tx_channel, waker, tx_in_flight, client,
                   owed, report, aired, sent, arrived, taken>>

(* cancel_current_operation, with or without a future pending. *)
CancelCurrentOperation ==
    /\ abandons
    /\ cancelled' = TRUE /\ tx_status' = None
    /\ WakePending
    /\ UNCHANGED <<maca, rx_buffer, rx_pending, tx_channel, tx_in_flight, fut, ask, history>>
-----------------------------------------------------------------------------
(* The client calls f and its task is about to poll the future. *)
Call(f, c) ==
    /\ fut = "none"
    /\ \/ f = "receive"
       \/ f = "transmit" /\ (abandons \/ (owed # None /\ ~tx_in_flight))
       \/ f \in {"prepare", "send"} /\ Settled /\ sent < MaxTx
    /\ fut' = f /\ ask' = c /\ woken' = TRUE
    /\ UNCHANGED <<maca, state, history>>

(* An executor may poll a task without its waker having been called. *)
SpuriousWake ==
    /\ fut # "none" /\ woken' = TRUE
    /\ UNCHANGED <<maca, state, fut, ask, history>>

Polled(f) == fut = f /\ woken

MutPendingKeepsWaker ==
    /\ woken' = FALSE /\ UNCHANGED <<waker, fut, ask>>

Pending ==
    /\ woken' = FALSE /\ waker' = TRUE /\ UNCHANGED <<fut, ask>>

Resolved ==
    /\ woken' = FALSE /\ fut' = "none" /\ ask' = None

(* pop_receive_packet *)
PopReceivePacket ==
    /\ rx_pending > 0 /\ rxq # <<>>
    /\ rxq' = Tail(rxq) /\ rx_pending' = rx_pending - 1 /\ taken' = taken + 1

MutPollReceiveCancelledKeepsBuffer ==
    /\ Polled("receive")
    /\ cancelled /\ cancelled' = FALSE
    /\ waker' = FALSE /\ UNCHANGED rx_buffer /\ lent' = FALSE
    /\ Resolved
    /\ UNCHANGED <<maca, rx_pending, tx_status, tx_channel, tx_in_flight,
                   owed, report, aired, sent, arrived, taken>>

PollReceiveCancelled ==
    /\ Polled("receive")
    /\ cancelled /\ cancelled' = FALSE
    /\ waker' = FALSE /\ rx_buffer' = FALSE /\ lent' = FALSE
    /\ Resolved
    /\ UNCHANGED <<maca, rx_pending, tx_status, tx_channel, tx_in_flight,
                   owed, report, aired, sent, arrived, taken>>

PollReceivePending ==
    /\ Polled("receive")
    /\ ~cancelled /\ rx_pending = 0
    /\ Pending
    /\ UNCHANGED <<maca, rx_buffer, rx_pending, tx_status, tx_channel, cancelled,
                   tx_in_flight, history>>

MutPollReceiveFrameLeaks ==
    /\ Polled("receive")
    /\ ~cancelled /\ PopReceivePacket
    /\ free' = IF rx_buffer THEN free + 1 ELSE free
    /\ waker' = FALSE /\ rx_buffer' = FALSE /\ lent' = FALSE
    /\ Resolved
    /\ UNCHANGED <<on, channel, txq, tx_status, tx_channel, cancelled, tx_in_flight,
                   owed, report, aired, sent, arrived>>

(* A frame is copied into the buffer, or discarded if none was prepared;    *)
(* either way the packet is freed.                                          *)
PollReceiveFrame ==
    /\ Polled("receive")
    /\ ~cancelled /\ PopReceivePacket
    /\ free' = free + 1
    /\ waker' = FALSE /\ rx_buffer' = FALSE /\ lent' = FALSE
    /\ Resolved
    /\ UNCHANGED <<on, channel, txq, tx_status, tx_channel, cancelled, tx_in_flight,
                   owed, report, aired, sent, arrived>>

(* claim_free_packet and queue_transmit. *)
QueueTransmit(c) ==
    /\ free > 0 /\ sent < MaxTx
    /\ free' = free - 1
    /\ txq' = Append(txq, [frame |-> sent + 1, channel |-> c])
    /\ sent' = sent + 1 /\ owed' = sent + 1

PollPrepareQueues ==
    /\ Polled("prepare")
    /\ cancelled' = FALSE
    /\ QueueTransmit(ask) /\ SetChannelIndex(ask)
    /\ Resolved
    /\ UNCHANGED <<on, rxq, rx_buffer, rx_pending, tx_status, waker, tx_in_flight,
                   lent, report, aired, arrived, taken>>

(* prepare_transmit and prepare_and_transmit with the pool empty. *)
PollNoPacket ==
    /\ Polled("prepare") \/ Polled("send")
    /\ free = 0
    /\ cancelled' = FALSE
    /\ Pending
    /\ UNCHANGED <<maca, rx_buffer, rx_pending, tx_status, tx_channel, tx_in_flight, history>>

(* The result of the last transmission is taken. *)
TakeStatus ==
    /\ tx_status # None
    /\ tx_status' = None
    /\ report' = <<owed, tx_status.frame>> /\ owed' = None

MutPollTransmitKeepsStatus ==
    /\ Polled("transmit") \/ Polled("sending")
    /\ tx_status # None /\ UNCHANGED tx_status
    /\ report' = <<owed, tx_status.frame>> /\ owed' = None
    /\ waker' = FALSE
    /\ Resolved
    /\ UNCHANGED <<maca, rx_buffer, rx_pending, tx_channel, cancelled, tx_in_flight,
                   lent, aired, sent, arrived, taken>>

PollTransmitDone ==
    /\ Polled("transmit") \/ Polled("sending")
    /\ TakeStatus
    /\ waker' = FALSE
    /\ Resolved
    /\ UNCHANGED <<maca, rx_buffer, rx_pending, tx_channel, cancelled, tx_in_flight,
                   lent, aired, sent, arrived, taken>>

PollTransmitCancelled ==
    /\ Polled("transmit") \/ Polled("sending")
    /\ tx_status = None /\ cancelled /\ cancelled' = FALSE
    /\ Resolved /\ owed' = None
    /\ UNCHANGED <<maca, rx_buffer, rx_pending, tx_status, tx_channel, waker, tx_in_flight,
                   lent, report, aired, sent, arrived, taken>>

PollTransmitPending ==
    /\ Polled("transmit") \/ Polled("sending")
    /\ tx_status = None /\ ~cancelled
    /\ Pending
    /\ UNCHANGED <<maca, rx_buffer, rx_pending, tx_status, tx_channel, cancelled, tx_in_flight,
                   history>>

(* prepare_and_transmit queues the frame and, in the same poll, looks for a *)
(* result: one left behind by an earlier frame, or none yet.                *)
PollSendQueues ==
    /\ Polled("send")
    /\ cancelled' = FALSE
    /\ free > 0 /\ sent < MaxTx
    /\ free' = free - 1 /\ SetChannelIndex(ask)
    /\ txq' = Append(txq, [frame |-> sent + 1, channel |-> ask]) /\ sent' = sent + 1
    /\ \/ /\ tx_status # None /\ tx_status' = None
          /\ report' = <<sent + 1, tx_status.frame>> /\ owed' = None
          /\ waker' = FALSE /\ Resolved
       \/ /\ tx_status = None /\ UNCHANGED <<tx_status, report>>
          /\ owed' = sent + 1
          /\ woken' = FALSE /\ waker' = TRUE /\ fut' = "sending" /\ UNCHANGED ask
    /\ UNCHANGED <<on, rxq, rx_buffer, rx_pending, tx_in_flight, lent, aired, arrived, taken>>

(* A pending future is dropped: ReceiveFuture cleans up, the others do not. *)
DropReceive ==
    /\ abandons /\ fut = "receive"
    /\ rx_buffer' = FALSE /\ waker' = FALSE /\ cancelled' = FALSE /\ lent' = FALSE
    /\ Resolved
    /\ UNCHANGED <<maca, rx_pending, tx_status, tx_channel, tx_in_flight,
                   owed, report, aired, sent, arrived, taken>>

DropTransmit ==
    /\ abandons /\ fut \in {"prepare", "transmit", "send", "sending"}
    /\ Resolved
    /\ UNCHANGED <<maca, state, history>>
-----------------------------------------------------------------------------
(* radio-hal: start_transmit, check_transmit, get_received, start_receive. *)
StartTransmit ==
    /\ RadioHal /\ fut = "none" /\ Settled
    /\ QueueTransmit(channel)
    /\ cancelled' = FALSE /\ tx_in_flight' = TRUE
    /\ UNCHANGED <<on, channel, rxq, rx_buffer, rx_pending, tx_status, tx_channel, waker,
                   client, lent, report, aired, arrived, taken>>

(* start_transmit with the pool empty: Err(Busy), the cancellation cleared. *)
StartTransmitBusy ==
    /\ RadioHal /\ fut = "none" /\ Settled
    /\ free = 0
    /\ cancelled' = FALSE
    /\ UNCHANGED <<maca, rx_buffer, rx_pending, tx_status, tx_channel, waker, tx_in_flight,
                   client, history>>

MutCheckTransmitStaysBusy ==
    /\ RadioHal /\ fut = "none" /\ (abandons \/ tx_in_flight)
    /\ TakeStatus
    /\ UNCHANGED <<maca, rx_buffer, rx_pending, tx_channel, cancelled, waker, tx_in_flight, client,
                   lent, aired, sent, arrived, taken>>

CheckTransmit ==
    /\ RadioHal /\ fut = "none" /\ (abandons \/ tx_in_flight)
    /\ TakeStatus
    /\ tx_in_flight' = FALSE
    /\ UNCHANGED <<maca, rx_buffer, rx_pending, tx_channel, cancelled, waker, client,
                   lent, aired, sent, arrived, taken>>

MutGetReceivedMiscounts ==
    /\ RadioHal /\ fut = "none"
    /\ rx_pending > 0 /\ rxq # <<>>
    /\ rxq' = Tail(rxq) /\ taken' = taken + 1
    /\ free' = free + 1
    /\ UNCHANGED <<on, channel, txq, rx_buffer, rx_pending, tx_status, tx_channel, cancelled, waker,
                   tx_in_flight, client, lent, owed, report, aired, sent, arrived>>

GetReceived ==
    /\ RadioHal /\ fut = "none"
    /\ PopReceivePacket
    /\ free' = free + 1
    /\ UNCHANGED <<on, channel, txq, rx_buffer, tx_status, tx_channel, cancelled, waker,
                   tx_in_flight, client, lent, owed, report, aired, sent, arrived>>

StartReceive ==
    /\ RadioHal /\ fut = "none"
    /\ cancelled' = FALSE
    /\ UNCHANGED <<maca, rx_buffer, rx_pending, tx_status, tx_channel, waker, tx_in_flight,
                   client, history>>
-----------------------------------------------------------------------------
Poll ==
    \/ PollReceiveCancelled \/ PollReceivePending \/ PollReceiveFrame
    \/ PollPrepareQueues \/ PollNoPacket \/ PollSendQueues
    \/ PollTransmitDone \/ PollTransmitCancelled \/ PollTransmitPending

Step ==
    \/ MacaRxCallback \/ MacaTxCallback
    \/ \E c \in Channels : SetChannel(c)
    \/ Enable \/ Disable \/ PrepareReceive \/ CancelCurrentOperation
    \/ \E f \in {"receive", "transmit"} : Call(f, None)
    \/ \E f \in {"prepare", "send"}, c \in Channels : Call(f, c)
    \/ Poll \/ SpuriousWake
    \/ DropReceive \/ DropTransmit
    \/ StartTransmit \/ StartTransmitBusy \/ CheckTransmit
    \/ GetReceived \/ StartReceive

Next == Step /\ UNCHANGED abandons

Spec == Init /\ [][Next]_vars

(* The executor polls a task that was woken; the MACA sends what is queued. *)
FairSpec == Spec /\ WF_driver(Poll) /\ WF_driver(MacaTxCallback)
-----------------------------------------------------------------------------
Futures == {"none", "receive", "prepare", "transmit", "send", "sending"}
Packet  == [frame : Nat, channel : Channels]
Status  == [code : Statuses, frame : Nat]

MacaTypeOK ==
    /\ on \in BOOLEAN /\ channel \in Channels
    /\ free \in 0..POOL /\ txq \in Seq(Packet) /\ rxq \in Seq(Nat)

StateTypeOK ==
    /\ rx_buffer \in BOOLEAN /\ rx_pending \in 0..POOL
    /\ tx_status \in Status \cup {None} /\ tx_channel \in Channels \cup {None}
    /\ cancelled \in BOOLEAN /\ waker \in BOOLEAN /\ tx_in_flight \in BOOLEAN

ClientTypeOK ==
    /\ fut \in Futures /\ ask \in Channels \cup {None} /\ woken \in BOOLEAN
    /\ fut \in {"prepare", "send"} => ask \in Channels

HistoryTypeOK ==
    /\ lent \in BOOLEAN /\ owed \in Nat \cup {None}
    /\ report \in ((Nat \cup {None}) \X Nat) \cup {None}
    /\ aired \in (Channels \X Channels) \cup {None}
    /\ sent \in Nat /\ arrived \in Nat /\ taken \in Nat

(* Counters stay within the pool, a future that queues a frame knows its    *)
(* channel, Options are None or a value.                                    *)
TypeOK ==
    MacaTypeOK /\ StateTypeOK /\ ClientTypeOK /\ HistoryTypeOK /\ abandons \in BOOLEAN

(* The pool loses no packet: each is free, queued for the MACA or waiting   *)
(* to be received, whichever way each operation ended.                      *)
PoolConserved == free + Len(txq) + Len(rxq) = POOL

(* Received frames are collected in order, none is lost or seen twice, and  *)
(* rx_pending counts exactly the ones still queued, which pop_receive_packet *)
(* relies on.                                                               *)
FramesAccounted ==
    /\ \A i \in 1..Len(rxq) : rxq[i] = taken + i
    /\ arrived = taken + Len(rxq)
    /\ rx_pending = Len(rxq)

(* A pending future never misses the event it waits for (a frame, a status, *)
(* a free packet, a cancellation): until one happens the waker is stored,   *)
(* and once one has happened the task is runnable.                          *)
WakeNotLost ==
    fut # "none" /\ ~woken =>
        /\ waker
        /\ fut = "receive" => rx_pending = 0 /\ ~cancelled
        /\ fut \in {"transmit", "sending"} => tx_status = None /\ ~cancelled
        /\ fut \in {"prepare", "send"} => free = 0

(* The driver keeps no pointer to a receive buffer outside the time the     *)
(* caller of prepare_receive has promised it valid.                         *)
BufferValid == rx_buffer => lent

(* transmit reports on the frame that prepare_transmit queued, and so do    *)
(* prepare_and_transmit and check_transmit.                                 *)
ReportsOwnFrame == report # None => report[1] = report[2]

(* Every frame is sent on the channel it was queued for. *)
FrameOnItsChannel == aired # None => aired[1] = aired[2]

(* To a client that collects every result before it starts over, the result *)
(* reported is its own frame's, ...                                         *)
OwnReports == ~abandons => ReportsOwnFrame

(* ... every frame goes out on the channel it was queued for, although the  *)
(* channel is set when it is queued and used when it is sent, ...           *)
OwnChannels == ~abandons => FrameOnItsChannel

(* ... radio-hal's is_busy never sticks: a transmission it reports in       *)
(* flight is queued or has a result to collect, ...                         *)
BusyEnds == ~abandons => (tx_in_flight => txq # <<>> \/ tx_status # None)

(* ... and a future resolves once what it waits for comes: a transmission   *)
(* always ends, a reception needs a frame.                                  *)
FuturesResolve ==
    /\ ~abandons /\ fut \in {"transmit", "sending"} /\ on ~> fut = "none"
    /\ ~abandons /\ fut = "receive" /\ rx_pending > 0 ~> fut = "none"
=============================================================================
