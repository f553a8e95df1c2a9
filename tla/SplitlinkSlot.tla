---------------------------- MODULE SplitlinkSlot ----------------------------
(***************************************************************************)
(* One slot of the SplitLink sync protocol, from the tx_slot of one half   *)
(* through the Bluetooth transport to the rx_slot of the other half        *)
(* (splitlink_sync_ykb_protocol.c, splitlink_bt.h).  Every slot of the     *)
(* protocol is an instance: the transfer id is the slot id, the length of  *)
(* the payload is the size of a C type, so two transfers of one slot carry *)
(* the same header fields.                                                 *)
(*                                                                         *)
(* A payload is abstracted to a tag per byte: the data the byte was copied *)
(* from.  With MaxPayload = 1 a "byte" stands for the part of the payload  *)
(* that one packet carries.                                                *)
(*                                                                         *)
(* Handlers that run on the system workqueue of a half are atomic with     *)
(* respect to one another.  Packets arrive on the Bluetooth receive thread *)
(* between any two steps.                                                  *)
(***************************************************************************)
EXTENDS YkbProtocol, WorkQueue

CONSTANTS
    Data,         \* tags of the payloads
    Blank,        \* the tag of zeroed memory
    TotalLen,     \* size of the slot's payload
    OutOfOrder,   \* CONFIG_SPLITLINK_OUT_OF_ORDER_TRACK
    RxDepth,      \* CONFIG_SPLITLINK_BT_RX_QUEUE_DEPTH
    WireDepth,    \* ATT buffers: a send beyond them fails with -ENOMEM
    MaxDrops      \* bound: how often the connection is lost

ASSUME SlotAssumption ==
    /\ TotalLen \in 1 .. U16 - 1
    /\ {RxDepth, WireDepth} \subseteq Nat \ {0}
    /\ MaxDrops \in Nat
    /\ OutOfOrder \in BOOLEAN
    /\ Blank \in Data

SlotId     == 2
None       == << >>                           \* no payload, no packet
Offsets    == 0 .. TotalLen - 1
Whole(d)   == [i \in Offsets |-> d]           \* a payload of one piece
Fresh(buffer) ==                              \* CONFIG_SPLITLINK_BITMAP_LENGTH
    RxInit(buffer, TotalLen, OutOfOrder, IF OutOfOrder THEN 32 ELSE 0)
Payloads   == [Offsets -> Data]

VARIABLES
    link,        \* the transport can carry packets (connected, conn, handles)
    drops,       \* connections lost so far
    notices,     \* connect/disconnect works queued on the sender
    connected,   \* the sync layer's atomic of the sender
    txState,     \* state of the tx_slot
    tx,          \* its ykb_protocol context
    pkt,         \* pending_packet once built, or None (pending_packet_ready)
    txWork,      \* its delayable work is scheduled
    wire,        \* packets on the air, oldest first
    rxq,         \* rx_msgq of the receiver
    wq,          \* works queued on the receiver's system workqueue
    draining,    \* splitlink_bt_rx_work_handler is in its loop
    rxState,     \* state of the rx_slot
    rx,          \* its ykb_protocol context
    delivered    \* what the receiving subsystem was last handed

linkVars == <<link, drops, notices, connected>>
txVars   == <<txState, tx, pkt, txWork>>
rxVars   == <<rxq, wq, draining, rxState, rx, delivered>>
slotVars == <<linkVars, txVars, wire, rxVars>>

SlotInit ==
    /\ link = FALSE /\ drops = 0 /\ notices = <<>> /\ connected = FALSE
    /\ txState = "EMPTY" /\ tx = TxInit(Whole(Blank), TotalLen, SlotId)
    /\ pkt = None /\ txWork = FALSE
    /\ wire = <<>> /\ rxq = <<>> /\ wq = <<>> /\ draining = FALSE
    /\ rxState = "EMPTY"
    /\ rx = Fresh(Whole(Blank))
    /\ delivered = Whole(Blank)

-----------------------------------------------------------------------------
(* The connection.  Reconnecting takes the peer a pause of 200 ms before   *)
(* it advertises, then a connection and a discovery: by then both halves   *)
(* have run every work that was queued when the old connection went.       *)

Settled ==
    notices = <<>> /\ ~txWork /\ rxq = <<>> /\ wq = <<>> /\ ~draining

LinkUp ==
    /\ ~link /\ Settled
    /\ link' = TRUE
    /\ notices' = Submit(notices, "connect")
    /\ UNCHANGED <<drops, connected, txVars, wire, rxVars>>

\* Packets on the air are lost; rx_msgq and the slots are left as they are.
LinkDown ==
    /\ link /\ drops < MaxDrops
    /\ link' = FALSE
    /\ drops' = drops + 1
    /\ notices' = Submit(notices, "disconnect")
    /\ wire' = <<>>
    /\ UNCHANGED <<connected, txVars, rxVars>>

DisconnectWork ==
    /\ notices # <<>> /\ Head(notices) = "disconnect"
    /\ notices' = Tail(notices)
    /\ connected' = FALSE
    /\ UNCHANGED <<link, drops, txVars, wire, rxVars>>

-----------------------------------------------------------------------------
(* The sender *)

BeginTransfer(data) ==
    /\ tx' = TxInit(data, TotalLen, SlotId)
    /\ pkt' = None
    /\ txState' = "TRANSCEIVING"
    /\ txWork' = TRUE

\* tx_slot_begin_transfer_or_log_busy, by a caller that finds the two sides
\* connected: a busy slot drops the payload.
SendOrDrop(data) ==
    IF txState = "EMPTY" THEN BeginTransfer(data) ELSE UNCHANGED txVars

\* The transfer is over, its context is ctx.  At the label out a payload that
\* waits for the slot starts at once; next is that payload, or None.
SlotEmptied(ctx, next) ==
    IF next # None THEN BeginTransfer(next)
    ELSE txState' = "EMPTY" /\ tx' = ctx /\ pkt' = None /\ txWork' = FALSE

\* The packet tx_slot_work_handler sends, and the context once it is built.
HasPacket == pkt # None \/ TxHasMore(tx)
Built     == IF pkt = None THEN TxPacket(tx) ELSE pkt
BuiltCtx  == IF pkt = None THEN TxAfterPacket(tx) ELSE tx

\* The step of the work is the last one of its transfer.
TransferEnds ==
    \/ ~HasPacket
    \/ ~link
    \/ Len(wire) < WireDepth /\ ~TxHasMore(BuiltCtx)

TxWorkSend(next) ==
    /\ txWork /\ HasPacket /\ link /\ Len(wire) < WireDepth
    /\ wire' = Append(wire, Built)
    /\ IF TxHasMore(BuiltCtx)
       THEN tx' = BuiltCtx /\ pkt' = None /\ UNCHANGED <<txState, txWork>>
       ELSE SlotEmptied(BuiltCtx, next)
    /\ UNCHANGED <<linkVars, rxVars>>

\* Faulty variant: the work is not scheduled again.
TxWorkGivesUp ==
    /\ txWork /\ HasPacket /\ link /\ Len(wire) = WireDepth
    /\ pkt' = Built /\ tx' = BuiltCtx /\ txWork' = FALSE
    /\ UNCHANGED <<linkVars, txState, wire, rxVars>>

\* -ENOMEM, -EAGAIN: the built packet is kept, the work runs again in 5 ms.
TxWorkNoBuffer ==
    /\ txWork /\ HasPacket /\ link /\ Len(wire) = WireDepth
    /\ pkt' = Built /\ tx' = BuiltCtx
    /\ UNCHANGED <<linkVars, txState, txWork, wire, rxVars>>

\* Any other error (-ENOTCONN) ends the transfer.
TxWorkError(next) ==
    /\ txWork /\ HasPacket /\ ~link
    /\ SlotEmptied(BuiltCtx, next)
    /\ UNCHANGED <<linkVars, wire, rxVars>>

\* Nothing is left to send: another context began the same transfer.
TxWorkDone(next) ==
    /\ txWork /\ ~HasPacket
    /\ SlotEmptied(tx, next)
    /\ UNCHANGED <<linkVars, wire, rxVars>>

TxWork(next) ==
    TxWorkSend(next) \/ TxWorkNoBuffer \/ TxWorkError(next) \/ TxWorkDone(next)

-----------------------------------------------------------------------------
(* The receiver *)

\* splitlink_bt_queue_rx: what does not fit is dropped, nobody sends it again.
Arrive ==
    /\ wire # <<>>
    /\ wire' = Tail(wire)
    /\ IF Len(rxq) < RxDepth
       THEN rxq' = Append(rxq, Head(wire)) /\ wq' = Submit(wq, "rx")
       ELSE UNCHANGED <<rxq, wq>>
    /\ UNCHANGED <<linkVars, txVars, draining, rxState, rx, delivered>>

RxWorkStart ==
    /\ ~draining /\ wq # <<>> /\ Head(wq) = "rx"
    /\ draining' = TRUE
    /\ wq' = Tail(wq)
    /\ UNCHANGED <<linkVars, txVars, wire, rxq, rxState, rx, delivered>>

\* Faulty variant: an error leaves the slot and its context as they are.
KeepOnError(p) ==
    LET push == RxPushPacket(IF rxState = "EMPTY" THEN Fresh(rx.buffer) ELSE rx, p)
    IN IF rxState = "READY" THEN UNCHANGED <<rxState, rx, wq>>
       ELSE IF push.res = "COMPLETE"
            THEN rxState' = "READY" /\ rx' = push.rx /\ wq' = Submit(wq, "slot")
       ELSE rxState' = "RECEIVING" /\ rx' = push.rx /\ UNCHANGED wq

\* splitlink_sync_protocol_on_receive for the packet at the head of rx_msgq.
OnReceive(p) ==
    LET push == RxPushPacket(IF rxState = "EMPTY" THEN Fresh(rx.buffer) ELSE rx, p)
    IN IF rxState = "READY" THEN UNCHANGED <<rxState, rx, wq>>
       ELSE IF push.res \in RxErrors
            THEN rxState' = "EMPTY" /\ rx' = RxReset(push.rx) /\ UNCHANGED wq
       ELSE IF push.res = "COMPLETE"
            THEN rxState' = "READY" /\ rx' = push.rx /\ wq' = Submit(wq, "slot")
       ELSE rxState' = "RECEIVING" /\ rx' = push.rx /\ UNCHANGED wq

RxWorkPop ==
    /\ draining /\ rxq # <<>>
    /\ rxq' = Tail(rxq)
    /\ OnReceive(Head(rxq))
    /\ UNCHANGED <<linkVars, txVars, wire, draining, delivered>>

RxWorkEnd ==
    /\ draining /\ rxq = <<>>
    /\ draining' = FALSE
    /\ UNCHANGED <<linkVars, txVars, wire, rxq, wq, rxState, rx, delivered>>

\* Faulty variant: the slot stays READY.
SlotStaysReady ==
    /\ ~draining /\ wq # <<>> /\ Head(wq) = "slot"
    /\ wq' = Tail(wq)
    /\ delivered' = rx.buffer
    /\ rx' = RxReset(rx)
    /\ UNCHANGED <<linkVars, txVars, wire, rxq, draining, rxState>>

\* rx_slot_work_handler.  PROCESSING is never seen by on_receive: both run on
\* the system workqueue.
RxSlotWork ==
    /\ ~draining /\ wq # <<>> /\ Head(wq) = "slot"
    /\ wq' = Tail(wq)
    /\ delivered' = rx.buffer
    /\ rxState' = "EMPTY"
    /\ rx' = RxReset(rx)
    /\ UNCHANGED <<linkVars, txVars, wire, rxq, draining>>

Receiver == RxWorkStart \/ RxWorkPop \/ RxWorkEnd \/ RxSlotWork

-----------------------------------------------------------------------------
SlotTypeOK ==
    /\ link \in BOOLEAN /\ connected \in BOOLEAN /\ drops \in 0 .. MaxDrops
    /\ \A i \in DOMAIN notices : notices[i] \in {"connect", "disconnect"}
    /\ txState \in {"EMPTY", "TRANSCEIVING"}
    /\ txWork \in BOOLEAN
    /\ pkt # None => pkt.packet_idx \in Offsets
    /\ tx.data \in Payloads
    /\ Len(wire) \in 0 .. WireDepth /\ Len(rxq) \in 0 .. RxDepth
    /\ Len(wq) \in 0 .. 2 /\ draining \in BOOLEAN
    /\ rxState \in {"EMPTY", "RECEIVING", "READY"}
    /\ rx.received_count \in 0 .. TotalLen
    /\ delivered \in Payloads

(* A slot that is busy always has its work scheduled; otherwise it would   *)
(* refuse payloads for good (tx_slot_work_handler and                      *)
(* tx_slot_begin_transfer together).                                       *)
BusySlotIsScheduled == txState = "TRANSCEIVING" => txWork

(* A completed rx_slot is handed over: READY always has its work queued,   *)
(* or later packets would be skipped for good.                             *)
ReadySlotIsQueued ==
    rxState = "READY" <=> \E i \in DOMAIN wq : wq[i] = "slot"

(* No part of what was delivered ever goes back to an older version (where *)
(* the tags are versions), across losses, reconnections and transfers that *)
(* were only half received (rx_slot_work_handler).                         *)
PartsGoForward == \A i \in Offsets : delivered'[i] >= delivered[i]
PartsNeverGoBack == [][PartsGoForward]_delivered

(* No slot wedges: what is to be sent or handed over has its work.         *)
SlotsAreServed == BusySlotIsScheduled /\ ReadySlotIsQueued
=============================================================================
