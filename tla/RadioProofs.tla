----------------------------- MODULE RadioProofs -----------------------------
(***************************************************************************)
(* Proofs about Radio, for every pool size, set of channels and client.    *)
(* FramesAccounted and PoolConserved need each other's view of the queues, *)
(* the last three theorems need Disciplined, which says how a client that    *)
(* collects every result keeps at most one frame outstanding.              *)
(***************************************************************************)
EXTENDS Radio, SequenceTheorems, TLAPS

(* The cached channel is the one the register holds. *)
CacheCoherent == tx_channel # None => tx_channel = channel

(* Frame n is queued for the channel that is programmed, or it was sent and *)
(* its status is waiting.                                                   *)
QueuedAs(n) ==
    Len(txq) = 1 /\ txq[1].frame = n /\ txq[1].channel = channel /\ tx_status = None
FinishedAs(n) ==
    txq = <<>> /\ tx_status # None /\ tx_status.frame = n

Disciplined ==
    ~abandons =>
        /\ ~cancelled
        /\ owed = None => /\ txq = <<>> /\ tx_status = None
                          /\ fut \notin {"transmit", "sending"} /\ ~tx_in_flight
        /\ owed # None => QueuedAs(owed) \/ FinishedAs(owed)
        /\ fut \in {"prepare", "send"} => owed = None
        /\ fut \in {"transmit", "sending"} => ~tx_in_flight
        /\ ReportsOwnFrame /\ FrameOnItsChannel

IInv ==
    /\ TypeOK /\ PoolConserved /\ FramesAccounted
    /\ WakeNotLost /\ BufferValid
    /\ CacheCoherent /\ Disciplined
-----------------------------------------------------------------------------
(* Step, grouped: interrupt callbacks, calls, polls and drops, radio-hal. *)
Calls ==
    \/ \E c \in Channels : SetChannel(c)
    \/ Enable \/ Disable \/ PrepareReceive \/ CancelCurrentOperation
    \/ \E f \in {"receive", "transmit"} : Call(f, None)
    \/ \E f \in {"prepare", "send"}, c \in Channels : Call(f, c)
Drops == SpuriousWake \/ DropReceive \/ DropTransmit

(* The actions that move no packet. *)
Still ==
    \/ Calls \/ Drops
    \/ PollReceiveCancelled \/ PollReceivePending \/ PollNoPacket
    \/ PollTransmitDone \/ PollTransmitCancelled \/ PollTransmitPending
    \/ CheckTransmit \/ StartReceive

(* start_transmit that fails does what start_receive does. *)
LEMMA BusyStart == StartTransmitBusy => StartReceive
  BY DEF StartTransmitBusy, StartReceive

(* Step is one of the actions that move a packet, or Still. *)
LEMMA StepCases ==
  Step <=> \/ MacaRxCallback \/ MacaTxCallback
           \/ PollReceiveFrame \/ GetReceived
           \/ PollPrepareQueues \/ PollSendQueues \/ StartTransmit
           \/ Still
  BY BusyStart DEF Step, Poll, Still, Calls, Drops

(* What appending to a sequence and taking its tail do to its elements. *)
LEMMA AppendFacts ==
  ASSUME NEW S, NEW s \in Seq(S), NEW e \in S
  PROVE  /\ Append(s, e) \in Seq(S) /\ Len(Append(s, e)) = Len(s) + 1
         /\ \A i \in 1..Len(s) : Append(s, e)[i] = s[i]
         /\ Append(s, e)[Len(s) + 1] = e /\ Len(s) \in Nat
  BY SMT

(* The same for the head and tail of a sequence that is not empty. *)
LEMMA TailFacts ==
  ASSUME NEW S, NEW s \in Seq(S), s # <<>>
  PROVE  /\ Head(s) \in S /\ Head(s) = s[1]
         /\ Tail(s) \in Seq(S) /\ Len(Tail(s)) = Len(s) - 1
         /\ \A i \in 1 .. Len(s) - 1 : Tail(s)[i] = s[i + 1]
         /\ Len(s) \in Nat /\ Len(s) > 0
  BY HeadTailProperties, EmptySeq, SMT

(* The actions of Still leave the packets and their counters alone. *)
LEMMA StillFrame ==
  ASSUME Still
  PROVE  UNCHANGED <<free, txq, rxq, rx_pending, arrived, taken, sent, aired>>
  BY DEF Still, Calls, Drops, SetChannel, Enable, Disable, PrepareReceive,
         CancelCurrentOperation, Call, SpuriousWake, DropReceive, DropTransmit,
         PollReceiveCancelled, PollReceivePending, PollNoPacket, PollTransmitDone,
         PollTransmitCancelled, PollTransmitPending, CheckTransmit, StartReceive,
         maca, state, client, history

(* A frame queued for transmission takes a packet out of the pool. *)
Queues(c) ==
    /\ free > 0 /\ free' = free - 1 /\ c \in Channels
    /\ txq' = Append(txq, [frame |-> sent + 1, channel |-> c]) /\ sent' = sent + 1
    /\ UNCHANGED <<rxq, rx_pending, arrived, taken, aired>>

(* Exactly the actions that queue a frame, each for a channel it knows. *)
LEMMA QueueingActions ==
  ASSUME TypeOK, PollPrepareQueues \/ PollSendQueues \/ StartTransmit
  PROVE  \E c \in Channels : Queues(c)
<1>1. CASE PollPrepareQueues
  <2>1. ask \in Channels
    BY <1>1 DEF PollPrepareQueues, Polled, TypeOK, ClientTypeOK
  <2>2. Queues(ask)
    BY <1>1, <2>1 DEF PollPrepareQueues, QueueTransmit, Queues
  <2> QED BY <2>1, <2>2
<1>2. CASE PollSendQueues
  <2>1. ask \in Channels
    BY <1>2 DEF PollSendQueues, Polled, TypeOK, ClientTypeOK
  <2>2. Queues(ask)
    BY <1>2, <2>1 DEF PollSendQueues, Queues
  <2> QED BY <2>1, <2>2
<1>3. CASE StartTransmit
  <2>1. channel \in Channels /\ Queues(channel)
    BY <1>3 DEF StartTransmit, QueueTransmit, Queues, TypeOK, MacaTypeOK
  <2> QED BY <2>1
<1> QED BY <1>1, <1>2, <1>3

(* A received frame taken gives its packet back to the pool. *)
Takes ==
    /\ rx_pending > 0 /\ rxq # <<>>
    /\ rxq' = Tail(rxq) /\ rx_pending' = rx_pending - 1 /\ taken' = taken + 1
    /\ free' = free + 1
    /\ UNCHANGED <<txq, arrived, sent, aired>>

(* Exactly the actions that collect a received frame. *)
LEMMA TakingActions ==
  ASSUME PollReceiveFrame \/ GetReceived
  PROVE  Takes
  BY DEF PollReceiveFrame, GetReceived, PopReceivePacket, Takes
-----------------------------------------------------------------------------
(* The packets: their types, the pool and the order of received frames. *)
PacketTypeOK ==
    /\ free \in Nat /\ txq \in Seq(Packet) /\ rxq \in Seq(Nat) /\ rx_pending \in Nat
    /\ arrived \in Nat /\ taken \in Nat /\ sent \in Nat

Packets == PacketTypeOK /\ PoolConserved /\ FramesAccounted

(* Every step keeps the packets accounted for. *)
LEMMA PacketsStep ==
  ASSUME TypeOK, PoolConserved, FramesAccounted, Step
  PROVE  Packets'
<1>0. PacketTypeOK
  BY RadioAssumption DEF TypeOK, MacaTypeOK, StateTypeOK, HistoryTypeOK, PacketTypeOK,
                         RadioAssumption
<1> USE DEF Packets, PacketTypeOK, PoolConserved, FramesAccounted
<1>1. CASE MacaRxCallback
  <2>1. /\ free > 0 /\ free' = free - 1 /\ arrived' = arrived + 1 /\ rx_pending' = rx_pending + 1
        /\ rxq' = Append(rxq, arrived + 1) /\ UNCHANGED <<txq, taken, sent>>
    BY <1>1 DEF MacaRxCallback
  <2>2. rxq' \in Seq(Nat) /\ Len(rxq') = Len(rxq) + 1 /\ Len(rxq) \in Nat
    BY <1>0, <2>1, AppendFacts
  <2>3. \A i \in 1..Len(rxq') : rxq'[i] = taken' + i
    <3>1. \A i \in 1..Len(rxq) : rxq'[i] = rxq[i]
      BY <1>0, <2>1, AppendFacts
    <3>2. rxq'[Len(rxq) + 1] = arrived + 1
      BY <1>0, <2>1, AppendFacts
    <3>3. rxq'[Len(rxq) + 1] = taken + (Len(rxq) + 1)
      BY <1>0, <2>2, <3>2
    <3>4. \A i \in 1 .. Len(rxq) + 1 : i \in 1..Len(rxq) \/ i = Len(rxq) + 1
      BY <2>2
    <3>5. taken' = taken
      BY <2>1
    <3> QED BY <2>2, <3>1, <3>3, <3>4, <3>5
  <2>4. Len(txq) \in Nat
    BY <1>0
  <2> QED BY <1>0, <2>1, <2>2, <2>3, <2>4
<1>2. CASE MacaTxCallback
  <2>1. /\ txq # <<>> /\ txq' = Tail(txq) /\ free' = free + 1
        /\ UNCHANGED <<rxq, rx_pending, arrived, taken, sent>>
    BY <1>2 DEF MacaTxCallback
  <2>2. txq' \in Seq(Packet) /\ Len(txq') = Len(txq) - 1 /\ Len(txq) \in Nat /\ Len(txq) > 0
    BY <1>0, <2>1, TailFacts
  <2>3. Len(rxq) \in Nat
    BY <1>0
  <2> QED BY <1>0, <2>1, <2>2, <2>3
<1>3. CASE PollReceiveFrame \/ GetReceived
  <2>1. Takes
    BY <1>3, TakingActions
  <2>2. rxq' \in Seq(Nat) /\ Len(rxq') = Len(rxq) - 1 /\ Len(rxq) \in Nat /\ Len(rxq) > 0
    BY <1>0, <2>1, TailFacts DEF Takes
  <2>3. \A i \in 1 .. Len(rxq') : rxq'[i] = rxq[i + 1]
    BY <1>0, <2>1, <2>2, TailFacts DEF Takes
  <2>4. \A i \in 1 .. Len(rxq') : rxq'[i] = taken' + i
    BY <1>0, <2>1, <2>2, <2>3 DEF Takes
  <2>5. Len(txq) \in Nat
    BY <1>0
  <2> QED BY <1>0, <2>1, <2>2, <2>4, <2>5 DEF Takes
<1>4. CASE PollPrepareQueues \/ PollSendQueues \/ StartTransmit
  <2>1. PICK c \in Channels : Queues(c)
    BY <1>4, QueueingActions
  <2>2. [frame |-> sent + 1, channel |-> c] \in Packet
    BY <1>0 DEF Packet
  <2>3. txq' \in Seq(Packet) /\ Len(txq') = Len(txq) + 1 /\ Len(txq) \in Nat
    BY <1>0, <2>1, <2>2, AppendFacts DEF Queues
  <2>4. Len(rxq) \in Nat
    BY <1>0
  <2> QED BY <1>0, <2>1, <2>3, <2>4 DEF Queues
<1>5. CASE Still
  BY <1>0, <1>5, StillFrame
<1> QED BY <1>1, <1>2, <1>3, <1>4, <1>5, StepCases

(* The bounds of TypeOK follow from the pool's conservation. *)
LEMMA PacketBounds ==
  ASSUME Packets
  PROVE  free \in 0..POOL /\ rx_pending \in 0..POOL
<1>1. Len(txq) \in Nat /\ Len(rxq) \in Nat
  BY DEF Packets, PacketTypeOK
<1> QED BY <1>1 DEF Packets, PacketTypeOK, PoolConserved, FramesAccounted
-----------------------------------------------------------------------------
(* The client's view: its future and the State it waits on. *)
LEMMA ClientTypeStep ==
  ASSUME TypeOK, Step
  PROVE  ClientTypeOK'
<1> USE RadioAssumption
    DEF RadioAssumption, TypeOK, ClientTypeOK, StateTypeOK, Futures,
        maca, state, client, history, Polled, Pending, Resolved
<1>1. CASE MacaRxCallback \/ MacaTxCallback
  BY <1>1 DEF MacaRxCallback, MacaTxCallback, WakePending
<1>2. CASE Calls \/ Drops
  BY <1>2 DEF Calls, Drops, SetChannel, Enable, Disable, PrepareReceive,
              CancelCurrentOperation, WakePending, Call, SpuriousWake, DropReceive, DropTransmit
<1>3. CASE Poll
  BY <1>3 DEF Poll, PollReceiveCancelled, PollReceivePending, PollReceiveFrame,
              PollPrepareQueues, PollNoPacket, PollSendQueues, PollTransmitDone,
              PollTransmitCancelled, PollTransmitPending
<1>4. CASE StartTransmit \/ CheckTransmit \/ GetReceived \/ StartReceive
  BY <1>4 DEF StartTransmit, CheckTransmit, GetReceived, StartReceive
<1> QED BY <1>1, <1>2, <1>3, <1>4, BusyStart DEF Step, Calls, Drops

(* Enable resets the register and the cache together; both move together. *)
LEMMA ChannelStep ==
  ASSUME TypeOK, CacheCoherent, Step
  PROVE  /\ CacheCoherent'
         /\ on' \in BOOLEAN /\ channel' \in Channels /\ tx_channel' \in Channels \cup {None}
<1> USE RadioAssumption
    DEF RadioAssumption, TypeOK, MacaTypeOK, StateTypeOK, ClientTypeOK, CacheCoherent,
        maca, state, client, history, Polled, SetChannelIndex
<1>1. CASE MacaRxCallback \/ MacaTxCallback
  BY <1>1 DEF MacaRxCallback, MacaTxCallback
<1>2. CASE Calls \/ Drops
  BY <1>2 DEF Calls, Drops, SetChannel, Enable, Disable, ReleaseState, PrepareReceive,
              CancelCurrentOperation, Call, SpuriousWake, DropReceive, DropTransmit
<1>3. CASE Poll
  BY <1>3 DEF Poll, PollReceiveCancelled, PollReceivePending, PollReceiveFrame,
              PollPrepareQueues, PollNoPacket, PollSendQueues, PollTransmitDone,
              PollTransmitCancelled, PollTransmitPending
<1>4. CASE StartTransmit \/ CheckTransmit \/ GetReceived \/ StartReceive
  BY <1>4 DEF StartTransmit, CheckTransmit, GetReceived, StartReceive
<1> QED BY <1>1, <1>2, <1>3, <1>4, BusyStart DEF Step, Calls, Drops

(* A status is reported for the frame at the head of the queue. *)
LEMMA TxCallbackFacts ==
  ASSUME TypeOK, MacaTxCallback
  PROVE  /\ tx_status' \in Status /\ tx_status'.frame = txq[1].frame
         /\ aired' = <<txq[1].channel, channel>> /\ txq[1] \in Packet
         /\ txq # <<>> /\ txq' = Tail(txq) /\ channel' = channel
         /\ UNCHANGED <<fut, owed, cancelled, tx_in_flight, report>>
<1>1. txq \in Seq(Packet) /\ txq # <<>>
  BY DEF MacaTxCallback, TypeOK, MacaTypeOK
<1>2. Head(txq) \in Packet /\ Head(txq) = txq[1]
  BY <1>1, TailFacts
<1>3. PICK s \in Statuses : tx_status' = [code |-> s, frame |-> Head(txq).frame]
  BY DEF MacaTxCallback
<1>4. Head(txq).frame \in Nat
  BY <1>2 DEF Packet
<1>5. tx_status' \in Status /\ tx_status'.frame = txq[1].frame
  BY <1>2, <1>3, <1>4 DEF Status
<1> QED BY <1>1, <1>2, <1>5 DEF MacaTxCallback

(* The rest of State and of the histories. *)
OtherTypeOK ==
    /\ rx_buffer \in BOOLEAN /\ tx_status \in Status \cup {None}
    /\ cancelled \in BOOLEAN /\ waker \in BOOLEAN /\ tx_in_flight \in BOOLEAN
    /\ lent \in BOOLEAN /\ owed \in Nat \cup {None}
    /\ report \in ((Nat \cup {None}) \X Nat) \cup {None}
    /\ aired \in (Channels \X Channels) \cup {None}

(* Every step keeps their types. *)
LEMMA OtherTypeStep ==
  ASSUME TypeOK, Step
  PROVE  OtherTypeOK'
<1>0. OtherTypeOK /\ sent \in Nat
  BY DEF TypeOK, StateTypeOK, HistoryTypeOK, OtherTypeOK
<1>s. tx_status # None => tx_status.frame \in Nat
  BY <1>0 DEF OtherTypeOK, Status
<1>n. sent + 1 \in Nat
  BY <1>0
<1> USE <1>0, <1>s, <1>n DEF OtherTypeOK, maca, state, client, history
<1>1. CASE MacaRxCallback
  BY <1>1 DEF MacaRxCallback, WakePending
<1>2. CASE MacaTxCallback
  <2>1. aired' \in Channels \X Channels
    BY <1>2, TxCallbackFacts DEF Packet, TypeOK, MacaTypeOK
  <2>2. tx_status' \in Status
    BY <1>2, TxCallbackFacts
  <2> QED BY <1>2, <2>1, <2>2 DEF MacaTxCallback, WakePending
<1>3. CASE Calls \/ Drops
  BY <1>3, ZenonT(40) DEF Calls, Drops, SetChannel, Enable, Disable, ReleaseState, PrepareReceive, WakePending,
              CancelCurrentOperation, Call, SpuriousWake, DropReceive, DropTransmit
<1>4. CASE PollReceiveCancelled \/ PollReceivePending \/ PollReceiveFrame
  BY <1>4 DEF PollReceiveCancelled, PollReceivePending, PollReceiveFrame, Pending
<1>5. CASE PollPrepareQueues \/ PollNoPacket
  BY <1>5 DEF PollPrepareQueues, QueueTransmit, PollNoPacket, Pending
<1>6. CASE PollSendQueues
  <2>1. report' \in ((Nat \cup {None}) \X Nat) \cup {None}
    <3>1. CASE tx_status # None /\ report' = <<sent + 1, tx_status.frame>>
      BY <3>1
    <3>2. CASE UNCHANGED report
      BY <3>2
    <3> QED BY <1>6, <3>1, <3>2 DEF PollSendQueues
  <2>2. owed' \in Nat \cup {None} /\ tx_status' \in Status \cup {None} /\ waker' \in BOOLEAN
    BY <1>6 DEF PollSendQueues
  <2> QED BY <1>6, <2>1, <2>2 DEF PollSendQueues
<1>7. CASE TakeStatus /\ (PollTransmitDone \/ CheckTransmit)
  <2>1. report' \in (Nat \cup {None}) \X Nat
    BY <1>7 DEF TakeStatus
  <2>2. owed' = None /\ tx_status' = None
    BY <1>7 DEF TakeStatus
  <2> QED BY <1>7, <2>1, <2>2 DEF PollTransmitDone, CheckTransmit
<1>8. CASE PollTransmitCancelled \/ PollTransmitPending
  BY <1>8 DEF PollTransmitCancelled, PollTransmitPending, Pending
<1>9. CASE StartTransmit \/ GetReceived \/ StartReceive
  BY <1>9 DEF StartTransmit, QueueTransmit, GetReceived, StartReceive
<1> QED BY <1>1, <1>2, <1>3, <1>4, <1>5, <1>6, <1>7, <1>8, <1>9, BusyStart
        DEF Step, Poll, Calls, Drops, PollTransmitDone, CheckTransmit

(* Every step keeps the type invariant. *)
LEMMA TypeStep ==
  ASSUME IInv, Next
  PROVE  TypeOK'
<1>1. Packets' /\ ClientTypeOK' /\ OtherTypeOK'
  BY PacketsStep, ClientTypeStep, OtherTypeStep DEF IInv, Next
<1>2. on' \in BOOLEAN /\ channel' \in Channels /\ tx_channel' \in Channels \cup {None}
  BY ChannelStep DEF IInv, Next
<1>3. free' \in 0..POOL /\ rx_pending' \in 0..POOL
  <2>1. Len(txq') \in Nat /\ Len(rxq') \in Nat
    BY <1>1 DEF Packets, PacketTypeOK
  <2>2. free' \in Nat /\ rx_pending' \in Nat BY <1>1 DEF Packets, PacketTypeOK
  <2>3. free' + Len(txq') + Len(rxq') = POOL /\ rx_pending' = Len(rxq')
    BY <1>1 DEF Packets, PoolConserved, FramesAccounted
  <2> QED BY <2>1, <2>2, <2>3
<1>4. abandons' \in BOOLEAN
  BY DEF IInv, TypeOK, Next
<1> QED BY <1>1, <1>2, <1>3, <1>4
        DEF TypeOK, MacaTypeOK, StateTypeOK, HistoryTypeOK, Packets, PacketTypeOK, OtherTypeOK
-----------------------------------------------------------------------------
(* A poll that stays pending stores the waker, every event wakes it. *)
LEMMA WakeStep ==
  ASSUME TypeOK, WakeNotLost, Step
  PROVE  WakeNotLost'
<1> USE RadioAssumption
    DEF RadioAssumption, TypeOK, ClientTypeOK, StateTypeOK, Futures, WakeNotLost,
        maca, state, client, history, Polled, Pending, Resolved
<1>1. CASE MacaRxCallback \/ MacaTxCallback
  BY <1>1 DEF MacaRxCallback, MacaTxCallback, WakePending
<1>2. CASE Calls \/ Drops
  BY <1>2 DEF Calls, Drops, SetChannel, Enable, Disable, PrepareReceive,
              CancelCurrentOperation, WakePending, Call, SpuriousWake, DropReceive, DropTransmit
<1>3. CASE Poll
  BY <1>3 DEF Poll, PollReceiveCancelled, PollReceivePending, PollReceiveFrame,
              PollPrepareQueues, PollNoPacket, PollSendQueues, PollTransmitDone,
              PollTransmitCancelled, PollTransmitPending
<1>4. CASE StartTransmit \/ CheckTransmit \/ GetReceived \/ StartReceive
  BY <1>4 DEF StartTransmit, CheckTransmit, GetReceived, StartReceive
<1> QED BY <1>1, <1>2, <1>3, <1>4, BusyStart DEF Step, Calls, Drops

(* Every operation that ends the loan of the buffer clears the pointer. *)
LEMMA BufferStep ==
  ASSUME BufferValid, Step
  PROVE  BufferValid'
<1> USE DEF BufferValid, maca, state, client, history
<1>1. CASE MacaRxCallback \/ MacaTxCallback
  BY <1>1 DEF MacaRxCallback, MacaTxCallback
<1>2. CASE Calls \/ Drops
  BY <1>2 DEF Calls, Drops, SetChannel, Enable, Disable, ReleaseState, PrepareReceive,
              CancelCurrentOperation, Call, SpuriousWake, DropReceive, DropTransmit
<1>3. CASE Poll
  BY <1>3 DEF Poll, PollReceiveCancelled, PollReceivePending, PollReceiveFrame,
              PollPrepareQueues, PollNoPacket, PollSendQueues, PollTransmitDone,
              PollTransmitCancelled, PollTransmitPending
<1>4. CASE StartTransmit \/ CheckTransmit \/ GetReceived \/ StartReceive
  BY <1>4 DEF StartTransmit, CheckTransmit, GetReceived, StartReceive
<1> QED BY <1>1, <1>2, <1>3, <1>4, BusyStart DEF Step, Calls, Drops

(* A frame is queued only when the client owes nothing; it is then the only *)
(* one outstanding, for the channel that the same step programs.            *)
LEMMA QueuedAlone ==
  ASSUME TypeOK, NEW c \in Channels, Queues(c), txq = <<>>, tx_status = None,
         owed' = sent + 1, channel' = c, tx_status' = None
  PROVE  QueuedAs(owed)' /\ owed' # None
<1>1. [frame |-> sent + 1, channel |-> c] \in Packet /\ sent + 1 \in Nat
  BY DEF TypeOK, HistoryTypeOK, Packet
<1>2. txq \in Seq(Packet) /\ Len(txq) = 0
  BY DEF TypeOK, MacaTypeOK
<1>3. Len(txq') = 1 /\ txq'[1] = [frame |-> sent + 1, channel |-> c]
  BY <1>1, <1>2, AppendFacts DEF Queues
<1> QED BY <1>1, <1>3, RadioAssumption DEF QueuedAs, RadioAssumption

(* A client that collects every result has one frame outstanding at most. *)
LEMMA DisciplinedStep ==
  ASSUME TypeOK, CacheCoherent, Disciplined, Step, ~abandons
  PROVE  Disciplined'
<1>0. /\ ~cancelled /\ ReportsOwnFrame /\ FrameOnItsChannel
      /\ owed = None => /\ txq = <<>> /\ tx_status = None
                        /\ fut \notin {"transmit", "sending"} /\ ~tx_in_flight
      /\ owed # None => QueuedAs(owed) \/ FinishedAs(owed)
      /\ fut \in {"prepare", "send"} => owed = None
      /\ fut \in {"transmit", "sending"} => ~tx_in_flight
  BY DEF Disciplined
<1> USE <1>0 DEF maca, state, client, history
<1>1. CASE MacaRxCallback
  BY <1>1 DEF MacaRxCallback, Disciplined, QueuedAs, FinishedAs, ReportsOwnFrame,
              FrameOnItsChannel
<1>2. CASE MacaTxCallback
  <2>1. owed # None /\ QueuedAs(owed)
    BY <1>2, TxCallbackFacts DEF QueuedAs, FinishedAs
  <2>2. txq' = <<>>
    <3>1. txq \in Seq(Packet) /\ txq # <<>> /\ Len(txq) = 1
      BY <1>2, <2>1, TxCallbackFacts DEF TypeOK, MacaTypeOK, QueuedAs
    <3>2. Tail(txq) \in Seq(Packet) /\ Len(Tail(txq)) = 0
      BY <3>1, TailFacts
    <3> QED BY <3>2, EmptySeq, TxCallbackFacts, <1>2
  <2>3. FinishedAs(owed)'
    BY <1>2, <2>1, <2>2, TxCallbackFacts, RadioAssumption
    DEF QueuedAs, FinishedAs, RadioAssumption, Status
  <2>4. aired' = <<channel, channel>>
    BY <1>2, <2>1, TxCallbackFacts DEF QueuedAs
  <2>5. UNCHANGED <<fut, owed, cancelled, tx_in_flight, report>>
    BY <1>2, TxCallbackFacts
  <2> QED BY <2>1, <2>3, <2>4, <2>5 DEF Disciplined, ReportsOwnFrame, FrameOnItsChannel
<1>3. CASE Calls \/ Drops
  BY <1>3 DEF Calls, Drops, SetChannel, SetChannelIndex, Settled, Enable, Disable, ReleaseState,
              PrepareReceive, CancelCurrentOperation, Call, SpuriousWake, DropReceive,
              DropTransmit, Disciplined, QueuedAs, FinishedAs, ReportsOwnFrame, FrameOnItsChannel
<1>4. CASE PollReceiveCancelled \/ PollReceivePending \/ PollReceiveFrame \/ PollNoPacket
           \/ PollTransmitCancelled \/ PollTransmitPending
  BY <1>4 DEF PollReceiveCancelled, PollReceivePending, PollReceiveFrame, PollNoPacket,
              PollTransmitCancelled, PollTransmitPending, Polled, Pending, Resolved,
              Disciplined, QueuedAs, FinishedAs, ReportsOwnFrame, FrameOnItsChannel
<1>5. CASE PollPrepareQueues
  <2>1. /\ ask \in Channels /\ owed = None
        /\ owed' = sent + 1 /\ channel' = ask /\ UNCHANGED <<tx_status, report, aired>>
        /\ Queues(ask)
    BY <1>5, RadioAssumption
    DEF RadioAssumption, PollPrepareQueues, Polled, QueueTransmit, Queues, SetChannelIndex,
        TypeOK, ClientTypeOK, CacheCoherent
  <2>2. QueuedAs(owed)' /\ owed' # None
    BY <2>1, QueuedAlone
  <2>3. ~cancelled' /\ fut' = "none" /\ UNCHANGED <<report, aired>>
    BY <1>5 DEF PollPrepareQueues, Resolved
  <2> QED BY <2>2, <2>3 DEF Disciplined, ReportsOwnFrame, FrameOnItsChannel
<1>6. CASE PollSendQueues
  <2>1. /\ ask \in Channels /\ owed = None
        /\ owed' = sent + 1 /\ channel' = ask /\ UNCHANGED <<tx_status, report, aired>>
        /\ fut' = "sending" /\ Queues(ask)
    BY <1>6, RadioAssumption
    DEF RadioAssumption, PollSendQueues, Polled, Queues, SetChannelIndex, TypeOK, ClientTypeOK,
        CacheCoherent
  <2>2. QueuedAs(owed)' /\ owed' # None
    BY <2>1, QueuedAlone
  <2>3. ~cancelled' /\ ~tx_in_flight' /\ fut' = "sending" /\ UNCHANGED <<report, aired>>
    BY <1>6, <2>1 DEF PollSendQueues
  <2> QED BY <2>2, <2>3 DEF Disciplined, ReportsOwnFrame, FrameOnItsChannel
<1>7. CASE TakeStatus /\ (PollTransmitDone \/ CheckTransmit)
  <2>1. owed # None /\ FinishedAs(owed)
    BY <1>7 DEF TakeStatus, QueuedAs
  <2>2. report' = <<owed, owed>> /\ owed' = None /\ tx_status' = None
    BY <1>7, <2>1 DEF TakeStatus, FinishedAs
  <2>3. fut' = "none" /\ ~tx_in_flight' /\ UNCHANGED <<txq, cancelled, aired>>
    <3>1. CASE PollTransmitDone
      <4>1. fut \in {"transmit", "sending"}
        BY <3>1 DEF PollTransmitDone, Polled
      <4>2. ~tx_in_flight
        BY <4>1
      <4> QED BY <3>1, <4>2 DEF PollTransmitDone, Resolved
    <3>2. CASE CheckTransmit
      BY <3>2 DEF CheckTransmit
    <3> QED BY <1>7, <3>1, <3>2
  <2> QED BY <2>1, <2>2, <2>3
          DEF Disciplined, FinishedAs, ReportsOwnFrame, FrameOnItsChannel
<1>8. CASE StartTransmit
  <2>1. /\ channel \in Channels /\ owed = None
        /\ owed' = sent + 1 /\ channel' = channel /\ UNCHANGED <<tx_status, report, aired>>
        /\ Queues(channel)
    BY <1>8 DEF StartTransmit, Settled, QueueTransmit, Queues, TypeOK, MacaTypeOK
  <2>2. QueuedAs(owed)' /\ owed' # None
    BY <2>1, QueuedAlone
  <2> QED BY <1>8, <2>1, <2>2
          DEF StartTransmit, Disciplined, ReportsOwnFrame, FrameOnItsChannel
<1>9. CASE GetReceived \/ StartReceive
  BY <1>9 DEF GetReceived, PopReceivePacket, StartReceive, Disciplined, QueuedAs, FinishedAs,
              ReportsOwnFrame, FrameOnItsChannel
<1> QED BY <1>1, <1>2, <1>3, <1>4, <1>5, <1>6, <1>7, <1>8, <1>9, BusyStart
        DEF Step, Poll, Calls, Drops, PollTransmitDone, CheckTransmit
-----------------------------------------------------------------------------
(* The inductive invariant holds initially, and every step preserves it. *)
LEMMA InitInv == Init => IInv
<1> SUFFICES ASSUME Init PROVE IInv
  OBVIOUS
<1>1. MacaTypeOK /\ StateTypeOK
  <2>1. POOL \in 0..POOL /\ 0 \in 0..POOL
    BY RadioAssumption DEF RadioAssumption
  <2>2. <<>> \in Seq(Packet) /\ <<>> \in Seq(Nat)
    OBVIOUS
  <2> QED BY <2>1, <2>2, RadioAssumption DEF RadioAssumption, Init, MacaTypeOK, StateTypeOK
<1>2. ClientTypeOK /\ HistoryTypeOK
  BY RadioAssumption DEF RadioAssumption, Init, ClientTypeOK, HistoryTypeOK, Futures
<1>3. PoolConserved /\ FramesAccounted
  BY RadioAssumption DEF RadioAssumption, Init, PoolConserved, FramesAccounted
<1>4. WakeNotLost /\ BufferValid /\ CacheCoherent
  BY DEF Init, WakeNotLost, BufferValid, CacheCoherent
<1>5. Disciplined
  BY DEF Init, Disciplined, ReportsOwnFrame, FrameOnItsChannel
<1> QED BY <1>1, <1>2, <1>3, <1>4, <1>5 DEF IInv, TypeOK, Init

(* Every step of Next, and a stutter, preserves the inductive invariant. *)
LEMMA StepInv ==
  ASSUME IInv, [Next]_vars
  PROVE  IInv'
<1>1. CASE Next
  <2>1. TypeOK'
    BY <1>1, TypeStep
  <2>2. PoolConserved' /\ FramesAccounted'
    BY <1>1, PacketsStep DEF IInv, Packets, Next
  <2>3. WakeNotLost' /\ BufferValid' /\ CacheCoherent'
    BY <1>1, WakeStep, BufferStep, ChannelStep DEF IInv, Next
  <2>4. Disciplined'
    <3>1. CASE abandons
      BY <1>1, <3>1 DEF Disciplined, Next
    <3>2. CASE ~abandons
      BY <1>1, <3>2, DisciplinedStep DEF IInv, Next
    <3> QED BY <3>1, <3>2
  <2> QED BY <2>1, <2>2, <2>3, <2>4 DEF IInv
<1>2. CASE UNCHANGED vars
  <2> USE <1>2 DEF vars, driver, maca, state, client, history
  <2>1. TypeOK'
    BY DEF IInv, TypeOK, MacaTypeOK, StateTypeOK, ClientTypeOK, HistoryTypeOK
  <2>2. PoolConserved' /\ FramesAccounted' /\ WakeNotLost' /\ BufferValid' /\ CacheCoherent'
    BY DEF IInv, PoolConserved, FramesAccounted, WakeNotLost, BufferValid, CacheCoherent
  <2>3. Disciplined'
    BY DEF IInv, Disciplined, QueuedAs, FinishedAs, ReportsOwnFrame, FrameOnItsChannel
  <2> QED BY <2>1, <2>2, <2>3 DEF IInv
<1> QED BY <1>1, <1>2

(* IInv holds in every reachable state; the theorems below are its parts. *)
THEOREM Invariance == Spec => []IInv
  BY InitInv, StepInv, PTL DEF Spec

(* Counters stay within the pool and every Option is None or a value. *)
THEOREM TypeCorrect == Spec => []TypeOK
<1>1. IInv => TypeOK
  BY DEF IInv
<1> QED BY <1>1, Invariance, PTL

(* Whatever the client cancels, drops or ignores, no packet leaks. *)
THEOREM PoolIsConserved == Spec => []PoolConserved
<1>1. IInv => PoolConserved
  BY DEF IInv
<1> QED BY <1>1, Invariance, PTL

(* Received frames are collected in order and each exactly once. *)
THEOREM FramesAreAccounted == Spec => []FramesAccounted
<1>1. IInv => FramesAccounted
  BY DEF IInv
<1> QED BY <1>1, Invariance, PTL

(* No wake-up is lost between a poll and the interrupt it waits for. *)
THEOREM WakesAreNotLost == Spec => []WakeNotLost
<1>1. IInv => WakeNotLost
  BY DEF IInv
<1> QED BY <1>1, Invariance, PTL

(* The driver never keeps a receive buffer its caller has taken back. *)
THEOREM BufferStaysValid == Spec => []BufferValid
<1>1. IInv => BufferValid
  BY DEF IInv
<1> QED BY <1>1, Invariance, PTL

(* A client that collects every result gets the result of its own frame. *)
THEOREM ReportsAreOwn == Spec => []OwnReports
<1>1. IInv => OwnReports
  BY DEF IInv, Disciplined, OwnReports
<1> QED BY <1>1, Invariance, PTL

(* For such a client every frame goes out on the channel it was queued for. *)
THEOREM FramesOnTheirChannel == Spec => []OwnChannels
<1>1. IInv => OwnChannels
  BY DEF IInv, Disciplined, OwnChannels
<1> QED BY <1>1, Invariance, PTL

(* For such a client radio-hal's is_busy never sticks. *)
THEOREM BusyAlwaysEnds == Spec => []BusyEnds
<1>1. ASSUME IInv, ~abandons, tx_in_flight
      PROVE  txq # <<>> \/ tx_status # None
  <2>1. txq \in Seq(Packet)
    BY <1>1 DEF IInv, TypeOK, MacaTypeOK
  <2>2. QueuedAs(owed) \/ FinishedAs(owed)
    BY <1>1 DEF IInv, Disciplined
  <2>3. QueuedAs(owed) => txq # <<>>
    BY <2>1 DEF QueuedAs
  <2> QED BY <2>2, <2>3 DEF FinishedAs
<1>2. IInv => BusyEnds
  BY <1>1 DEF BusyEnds
<1> QED BY <1>2, Invariance, PTL
=============================================================================
