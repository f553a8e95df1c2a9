-------------------------- MODULE SplitlinkSyncProofs --------------------------
(***************************************************************************)
(* The slots of the sync protocol.  No key change is forgotten on the      *)
(* slave, for any number of keys, any packet size and queue depth and any  *)
(* loss of the connection; and neither end of the settings slot can get    *)
(* stuck: a busy transmitter and a completed receiver always have their    *)
(* work queued, also when FN shortcuts begin transfers from the kb_handler *)
(* thread.  Both rest on facts about one slot: what the transmit work does *)
(* to it, and what the receiver does to its workqueue.                     *)
(*                                                                         *)
(* What the receiver is handed never goes back to an older version, in any *)
(* part.  The invariant puts the places a part passes through in order:    *)
(* the keys, the scan frame, the array, the payload that waits, the        *)
(* transmit slot, the packets on the air, those in rx_msgq, the receive    *)
(* buffer, and what was delivered.  No part is newer at one of them than   *)
(* at the one before, although transfers are cut off, packets are lost and *)
(* the buffer mixes the parts of several transfers.                        *)
(*                                                                         *)
(* The scripts arrive: while nothing is lost, refused or skipped, what is  *)
(* in the script slot is a stream of whole scripts, and the newest script  *)
(* of every slot is marked, asked for, in that stream, received, announced *)
(* by a manifest or there, with nothing older behind it.                   *)
(*                                                                         *)
(* Settings, values and scripts are modules of their own; the proofs about *)
(* one use the assumptions of that module and those of the slot only.      *)
(***************************************************************************)
EXTENDS SplitlinkSettings, SplitlinkValues, ScriptSync, YkbProtocolProofs,
        NaturalsInduction, WellFoundedInduction, SequenceTheorems, TLAPS

TxContexts ==
    [data : Payloads, total_len : {TotalLen}, offset : Int,
     transfer_id : {SlotId}, packet_count : Int, next_packet_idx : Int]

(* The length of a payload fits the uint16_t that carries it.              *)
LEMMA LengthFits == TotalLen \in 0 .. U16 - 1 /\ TotalLen \in Nat
<1>1. TotalLen \in 1 .. U16 - 1
  BY SlotAssumption
<1>2. U16 - 1 \in Int
  BY DEF U16
<1> DEFINE last == U16 - 1
<1> HIDE DEF last
<1>3. TotalLen \in 1 .. last /\ last \in Int
  BY <1>1, <1>2 DEF last
<1>4. TotalLen \in 0 .. last /\ TotalLen \in Nat
  BY <1>3
<1> QED
  BY <1>4 DEF last

(* Appending to the two shortest queues (k_work_submit).                   *)
LEMMA ShortAppend ==
    ASSUME NEW x, NEW y
    PROVE  Append(<< >>, x) = <<x>> /\ Append(<<x>>, y) = <<x, y>>
<1> DEFINE S == {x, y}
           s == <<x>>
           t == <<x, y>>
<1>1. /\ s \in Seq(S) /\ t \in Seq(S) /\ y \in S
      /\ Len(s) = 1 /\ Len(t) = 2 /\ s[1] = x /\ t[1] = x /\ t[2] = y
  OBVIOUS
<1>2. Append(s, y) = t
  <2> HIDE DEF S, s, t
  <2>1. Append(s, y) \in Seq(S) /\ Len(Append(s, y)) = Len(s) + 1
    BY <1>1, AppendProperties
  <2>2. /\ \A i \in 1 .. Len(s) : Append(s, y)[i] = s[i]
        /\ Append(s, y)[Len(s) + 1] = y
    BY <1>1, AppendProperties
  <2>3. Append(s, y)[1] = t[1] /\ Append(s, y)[2] = t[2]
    BY <1>1, <2>2
  <2>4. 1 .. Len(t) = {1, 2}
    BY <1>1
  <2> QED
    BY <1>1, <2>1, <2>3, <2>4, SeqEqual
<1>3. Append(<< >>, x) = <<x>>
  OBVIOUS
<1> QED
  BY <1>2, <1>3

(* A payload is never mistaken for the absence of one: pending_*_ready and *)
(* pending_packet_ready are separate from the data they speak of.          *)
LEMMA PayloadIsSomething == \A d \in Payloads : d # None
<1> TAKE d \in Payloads
<1>2. 0 \in DOMAIN d /\ 0 \notin DOMAIN None
  BY SlotAssumption DEF Payloads, Offsets, None
<1> QED
  BY <1>2

(* A new transfer starts from a whole context (ykb_protocol_tx_init).      *)
LEMMA TxInitType ==
    ASSUME NEW d \in Payloads
    PROVE  /\ TxInit(d, TotalLen, SlotId) \in TxContexts
           /\ TxInit(d, TotalLen, SlotId).data = d
<1>1. CalcPacketCount(TotalLen) \in Int
  BY SlotAssumption, MaxPayloadAssumption DEF CalcPacketCount, U16
<1> QED
  BY <1>1 DEF TxInit, TxContexts

(* Building a packet keeps the payload (ykb_protocol_tx_build_packet).     *)
LEMMA TxAfterPacketType ==
    ASSUME NEW c \in TxContexts
    PROVE  /\ TxAfterPacket(c) \in TxContexts
           /\ TxAfterPacket(c).data = c.data
<1> DEFINE n == PayloadLenForIndex(c.total_len, c.next_packet_idx, c.packet_count)
<1>1. n \in Int
  BY SlotAssumption, MaxPayloadAssumption DEF PayloadLenForIndex, TxContexts, U16
<1>2. /\ (c.offset + n) % U16 \in Int
      /\ (c.next_packet_idx + 1) % U16 \in Int
  <2> HIDE DEF n
  <2> QED
    BY <1>1 DEF TxContexts, U16
<1>3. TxAfterPacket(c) = [c EXCEPT !.offset = (@ + n) % U16,
                                   !.next_packet_idx = (@ + 1) % U16]
  BY DEF TxAfterPacket
<1> HIDE DEF n
<1> QED
  BY <1>2, <1>3 DEF TxContexts

(* One run of tx_slot_work_handler either ends the transfer, whatever the  *)
(* reason, and leaves through the label out, or leaves the slot busy.      *)
LEMMA TxWorkEffect ==
    ASSUME NEW next, tx \in TxContexts, TxWork(next)
    PROVE  /\ txWork
           /\ UNCHANGED <<linkVars, rxVars>>
           /\ \E ctx \in TxContexts :
                /\ ctx.data = tx.data
                /\ \/ TransferEnds /\ SlotEmptied(ctx, next)
                   \/ /\ ~TransferEnds
                      /\ tx' = ctx /\ txState' = txState /\ txWork' = txWork
<1>1. BuiltCtx \in TxContexts /\ BuiltCtx.data = tx.data
  BY TxAfterPacketType DEF BuiltCtx
<1>2. CASE TxWorkSend(next)
  BY <1>1, <1>2 DEF TxWorkSend, TransferEnds
<1>3. CASE TxWorkNoBuffer
  BY <1>1, <1>3, SlotAssumption DEF TxWorkNoBuffer, TransferEnds, linkVars
<1>4. CASE TxWorkError(next)
  BY <1>1, <1>4 DEF TxWorkError, TransferEnds
<1>5. CASE TxWorkDone(next)
  BY <1>5 DEF TxWorkDone, TransferEnds
<1> QED
  BY <1>2, <1>3, <1>4, <1>5 DEF TxWork

(* A transfer that ends leaves the slot idle, or busy with what waited.    *)
LEMMA SlotEmptiedEffect ==
    ASSUME NEW ctx \in TxContexts, NEW next, SlotEmptied(ctx, next),
           next = None \/ next \in Payloads
    PROVE  /\ tx' \in TxContexts
           /\ txState' = "TRANSCEIVING" => txWork'
           /\ txState' \in {"EMPTY", "TRANSCEIVING"} /\ txWork' \in BOOLEAN
           /\ next = None => txState' = "EMPTY"
           /\ next # None => txState' = "TRANSCEIVING" /\ tx'.data = next
  BY TxInitType DEF SlotEmptied, BeginTransfer
-----------------------------------------------------------------------------
(* The workqueue of the receiver *)

Queued(queue, work) == \E i \in DOMAIN queue : queue[i] = work

\* Every work is queued at most once.
WorkQueue(queue) ==
    /\ queue \in Seq({"rx", "slot"})
    /\ \A i, j \in 1 .. Len(queue) : queue[i] = queue[j] => i = j

(* k_work_submit queues the work, once, and leaves the others alone.       *)
LEMMA SubmitQueues ==
    ASSUME NEW queue, WorkQueue(queue), NEW work \in {"rx", "slot"}
    PROVE  /\ WorkQueue(Submit(queue, work))
           /\ Queued(Submit(queue, work), work)
           /\ \A other : other # work =>
                 (Queued(Submit(queue, work), other) <=> Queued(queue, other))
<1> DEFINE W == {"rx", "slot"}
           q == Append(queue, work)
<1>1. queue \in Seq(W) /\ Len(queue) \in Nat /\ DOMAIN queue = 1 .. Len(queue)
  BY DEF WorkQueue
<1>2. CASE Queued(queue, work)
  BY <1>2 DEF Submit, Queued
<1>3. CASE ~Queued(queue, work)
  <2>1. Submit(queue, work) = q
    BY <1>3 DEF Submit, Queued
  <2>2. /\ q \in Seq(W) /\ Len(q) = Len(queue) + 1 /\ DOMAIN q = 1 .. Len(q)
        /\ \A i \in 1 .. Len(queue) : q[i] = queue[i]
        /\ q[Len(queue) + 1] = work
    BY <1>1, AppendProperties
  <2> HIDE DEF q, W
  <2>3. \A i \in DOMAIN q : i = Len(queue) + 1 \/ i \in DOMAIN queue
    BY <1>1, <2>2
  <2>4. \A i \in DOMAIN queue : queue[i] # work
    BY <1>3 DEF Queued
  <2>5. \A i, j \in 1 .. Len(q) : q[i] = q[j] => i = j
    BY <1>1, <2>2, <2>3, <2>4 DEF WorkQueue
  <2>6. Queued(q, work)
    BY <1>1, <2>2 DEF Queued
  <2>7. ASSUME NEW other, other # work
        PROVE  Queued(q, other) <=> Queued(queue, other)
    BY <1>1, <2>2, <2>3, <2>7 DEF Queued
  <2> QED
    BY <2>1, <2>2, <2>5, <2>6, <2>7 DEF WorkQueue, W
<1> QED
  BY <1>2, <1>3

(* Running the work at the head takes it, and only it, off the queue.      *)
LEMMA RunDequeues ==
    ASSUME NEW queue, WorkQueue(queue), queue # << >>
    PROVE  /\ WorkQueue(Tail(queue))
           /\ ~Queued(Tail(queue), Head(queue))
           /\ \A other : other # Head(queue) =>
                 (Queued(Tail(queue), other) <=> Queued(queue, other))
<1> DEFINE q == Tail(queue)
<1>1. /\ queue \in Seq({"rx", "slot"}) /\ Len(queue) \in Nat \ {0}
      /\ DOMAIN queue = 1 .. Len(queue)
      /\ Head(queue) = queue[1]
  BY DEF WorkQueue
<1>2. /\ q \in Seq({"rx", "slot"}) /\ Len(q) = Len(queue) - 1
      /\ DOMAIN q = 1 .. Len(q)
      /\ \A i \in 1 .. Len(q) : q[i] = queue[i + 1]
  BY <1>1, HeadTailProperties
<1> HIDE DEF q
<1>3. \A i \in 1 .. Len(q) : i + 1 \in 1 .. Len(queue) /\ i + 1 # 1
  BY <1>1, <1>2
<1>4. WorkQueue(q)
  <2>1. ASSUME NEW i \in 1 .. Len(q), NEW j \in 1 .. Len(q), q[i] = q[j]
        PROVE  i = j
    <3>1. i + 1 = j + 1
      BY <1>1, <1>2, <1>3, <2>1 DEF WorkQueue
    <3> QED
      BY <1>1, <1>2, <3>1
  <2> QED
    BY <1>2, <2>1 DEF WorkQueue
<1>5. ~Queued(q, Head(queue))
  BY <1>1, <1>2, <1>3 DEF Queued, WorkQueue
<1>6. ASSUME NEW other, other # Head(queue)
      PROVE  Queued(q, other) <=> Queued(queue, other)
  <2>1. ASSUME NEW i \in DOMAIN queue, queue[i] = other
        PROVE  i - 1 \in DOMAIN q /\ q[i - 1] = other
    <3>1. i # 1 /\ i - 1 \in 1 .. Len(q) /\ (i - 1) + 1 = i
      BY <1>1, <1>2, <1>6, <2>1
    <3> QED
      BY <1>2, <2>1, <3>1
  <2> QED
    BY <1>1, <1>2, <1>3, <2>1 DEF Queued
<1> QED
  BY <1>4, <1>5, <1>6 DEF q

\* The receiver's part of an invariant of every instance.
ReadyInv ==
    /\ WorkQueue(wq)
    /\ ReadySlotIsQueued

(* The Bluetooth receive thread and the works of the receiver keep a       *)
(* completed slot and its queued work together (rx_slot_work_handler,      *)
(* splitlink_sync_protocol_on_receive).                                    *)
LEMMA ReceiverKeepsReady == ReadyInv /\ (Arrive \/ Receiver) => ReadyInv'
<1> SUFFICES ASSUME ReadyInv, Arrive \/ Receiver PROVE ReadyInv'
  OBVIOUS
<1>0. WorkQueue(wq) /\ (rxState = "READY" <=> Queued(wq, "slot"))
  BY DEF ReadyInv, ReadySlotIsQueued, Queued
<1> SUFFICES WorkQueue(wq') /\ (rxState' = "READY" <=> Queued(wq', "slot"))
  BY DEF ReadyInv, ReadySlotIsQueued, WorkQueue, Queued
<1>1. CASE Arrive
  <2>1. rxState' = rxState /\ (wq' = wq \/ wq' = Submit(wq, "rx"))
    BY <1>1 DEF Arrive
  <2> QED
    BY <1>0, <2>1, SubmitQueues
<1>2. CASE RxWorkStart
  <2>1. wq # << >> /\ Head(wq) = "rx" /\ wq' = Tail(wq) /\ rxState' = rxState
    BY <1>2 DEF RxWorkStart
  <2> QED
    BY <1>0, <2>1, RunDequeues
<1>3. CASE RxWorkPop
  <2>1. \/ rxState' = rxState /\ wq' = wq
        \/ rxState # "READY" /\ rxState' # "READY" /\ wq' = wq
        \/ rxState' = "READY" /\ wq' = Submit(wq, "slot")
    BY <1>3 DEF RxWorkPop, OnReceive
  <2> QED
    BY <1>0, <2>1, SubmitQueues
<1>4. CASE RxWorkEnd
  BY <1>0, <1>4 DEF RxWorkEnd
<1>5. CASE RxSlotWork
  <2>1. /\ wq # << >> /\ Head(wq) = "slot" /\ wq' = Tail(wq)
        /\ rxState' = "EMPTY"
    BY <1>5 DEF RxSlotWork
  <2> QED
    BY <1>0, <2>1, RunDequeues
<1> QED
  BY <1>1, <1>2, <1>3, <1>4, <1>5 DEF Receiver

-----------------------------------------------------------------------------
(* The settings slot *)

SenderInv ==
    /\ tx \in TxContexts
    /\ current \in Data
    /\ beginning = None \/ beginning \in Payloads
    /\ BusySlotIsScheduled

(* The settings of every version are a payload.                            *)
LEMMA SettingsArePayloads == \A d \in Data : Whole(d) \in Payloads
  BY DEF Whole, Payloads

(* Whatever begins or drops a transfer of the settings leaves the work     *)
(* scheduled with the slot busy (tx_slot_begin_transfer_or_log_busy).      *)
LEMMA SendOrDropKeepsInv ==
    ASSUME SenderInv, NEW d \in Data, SendOrDrop(Whole(d))
    PROVE  tx' \in TxContexts /\ BusySlotIsScheduled'
<1>1. CASE txState = "EMPTY"
  BY <1>1, SettingsArePayloads, TxInitType
     DEF SendOrDrop, BeginTransfer, BusySlotIsScheduled
<1>2. CASE txState # "EMPTY"
  BY <1>2 DEF SendOrDrop, SenderInv, txVars, BusySlotIsScheduled
<1> QED
  BY <1>1, <1>2

(* The sender of the initial state is idle.                                *)
LEMMA SenderInit == Init => SenderInv
<1> SUFFICES ASSUME Init PROVE SenderInv
  OBVIOUS
<1>1. tx \in TxContexts
  BY SettingsArePayloads, TxInitType, SlotAssumption DEF Init, SlotInit
<1> QED
  BY <1>1, SettingsAssumption DEF Init, SlotInit, SenderInv, BusySlotIsScheduled

(* Every step keeps the sender's part.                                     *)
LEMMA SenderStep == SenderInv /\ [Next]_vars => SenderInv'
<1> SUFFICES ASSUME SenderInv, [Next]_vars PROVE SenderInv'
  OBVIOUS
<1>1. CASE ApplySettings
  <2>1. current' \in Data /\ beginning' = beginning
    BY <1>1, SettingsAssumption DEF ApplySettings, SenderInv
  <2>2. CASE connected
    BY <1>1, <2>1, <2>2, SendOrDropKeepsInv DEF ApplySettings, SenderInv
  <2>3. CASE ~connected
    BY <1>1, <2>1, <2>3 DEF ApplySettings, SenderInv, txVars, BusySlotIsScheduled
  <2> QED
    BY <2>2, <2>3
<1>2. CASE FnApplySettings
  <2>1. current' \in Data /\ Whole(current') \in Payloads
    BY <1>2, SettingsAssumption, SettingsArePayloads DEF FnApplySettings, SenderInv
  <2>2. tx.data \in Payloads
    BY DEF SenderInv, TxContexts
  <2>3. tx' \in TxContexts /\ (beginning' = None \/ beginning' \in Payloads)
    BY <1>2, <2>1, <2>2, TxInitType DEF FnApplySettings, SenderInv
  <2> QED
    BY <1>2, <2>1, <2>3 DEF FnApplySettings, SenderInv, BusySlotIsScheduled
<1>3. CASE FnFinishBegin
  <2>1. tx' \in TxContexts
    BY <1>3 DEF FnFinishBegin, SenderInv, TxContexts
  <2> QED
    BY <1>3, <2>1 DEF FnFinishBegin, SenderInv, BusySlotIsScheduled
<1>4. CASE ConnectWork
  BY <1>4, SendOrDropKeepsInv DEF ConnectWork, SenderInv, settVars
<1>5. CASE TxWork(None) /\ UNCHANGED settVars
  <2>1. PICK ctx \in TxContexts :
          \/ TransferEnds /\ SlotEmptied(ctx, None)
          \/ tx' = ctx /\ txState' = txState /\ txWork' = txWork
    BY <1>5, TxWorkEffect DEF SenderInv
  <2>2. tx' \in TxContexts /\ BusySlotIsScheduled'
    BY <2>1, SlotEmptiedEffect DEF SenderInv, BusySlotIsScheduled
  <2> QED
    BY <1>5, <2>2 DEF SenderInv, settVars
<1>6. CASE \/ UNCHANGED vars
           \/ /\ LinkUp \/ LinkDown \/ DisconnectWork \/ Arrive \/ Receiver
              /\ UNCHANGED settVars
  <2>1. UNCHANGED <<txVars, settVars>>
    BY <1>6 DEF vars, slotVars, LinkUp, LinkDown, DisconnectWork, Arrive,
                Receiver, RxWorkStart, RxWorkPop, RxWorkEnd, RxSlotWork
  <2> QED
    BY <2>1 DEF SenderInv, BusySlotIsScheduled, txVars, settVars
<1> QED
  BY <1>1, <1>2, <1>3, <1>4, <1>5, <1>6 DEF Next, Slot

(* Every step keeps the receiver's part: the sender never touches it.      *)
LEMMA ReadyStep == ReadyInv /\ SenderInv /\ [Next]_vars => ReadyInv'
<1> SUFFICES ASSUME ReadyInv, SenderInv, [Next]_vars PROVE ReadyInv'
  OBVIOUS
<1>1. CASE (Arrive \/ Receiver) /\ UNCHANGED settVars
  BY <1>1, ReceiverKeepsReady
<1>2. CASE \/ UNCHANGED vars
           \/ ApplySettings \/ FnApplySettings \/ FnFinishBegin \/ ConnectWork
           \/ /\ LinkUp \/ LinkDown \/ DisconnectWork \/ TxWork(None)
              /\ UNCHANGED settVars
  <2>1. UNCHANGED rxVars
    BY <1>2, TxWorkEffect
       DEF vars, slotVars, ApplySettings, FnApplySettings, FnFinishBegin,
           ConnectWork, LinkUp, LinkDown, DisconnectWork, SenderInv
  <2> QED
    BY <2>1 DEF ReadyInv, ReadySlotIsQueued, WorkQueue, rxVars
<1> QED
  BY <1>1, <1>2 DEF Next, Slot

(* The receiver of the initial state has nothing queued.                   *)
LEMMA ReadyInit == Init => ReadyInv
  BY DEF Init, SlotInit, ReadyInv, ReadySlotIsQueued, WorkQueue

-----------------------------------------------------------------------------
(* The settings slot never refuses settings for good: while it is busy its *)
(* work is scheduled (tx_slot_work_handler, tx_slot_begin_transfer).       *)
LEMMA BusySlotsAreScheduled == Spec => []BusySlotIsScheduled
<1>1. SenderInv => BusySlotIsScheduled
  BY DEF SenderInv
<1> QED
  BY <1>1, SenderInit, SenderStep, PTL DEF Spec

(* The slave never keeps a completed transfer, for which it would skip all *)
(* later packets, without the work that hands it over (rx_slot_work_       *)
(* handler, splitlink_sync_protocol_on_receive).                           *)
LEMMA ReadySlotsAreQueued == Spec => []ReadySlotIsQueued
<1>1. ReadyInv => ReadySlotIsQueued
  BY DEF ReadyInv
<1> QED
  BY <1>1, SenderInit, SenderStep, ReadyInit, ReadyStep, PTL DEF Spec

(* Neither half of the settings slot ever wedges.                          *)
THEOREM SlotsNeverWedge == Spec => []SlotsAreServed
<1>1. BusySlotIsScheduled /\ ReadySlotIsQueued <=> SlotsAreServed
  BY DEF SlotsAreServed
<1> QED
  BY <1>1, BusySlotsAreScheduled, ReadySlotsAreQueued, PTL

-----------------------------------------------------------------------------
(* The values slot *)

(* The invariant.  NoLostUpdate speaks of a connected slave only; that a   *)
(* slot which is busy when the slave connects cannot hold an old payload   *)
(* needs the order of the connect and disconnect works.                    *)

LocalTypes ==
    /\ tx \in TxContexts
    /\ {keys, frame, values} \subseteq Payloads
    /\ copied \in 0 .. TotalLen
    /\ pending = None \/ pending \in Payloads
    /\ {sendPending, sendScheduled, txWork} \subseteq BOOLEAN
    /\ txState \in {"EMPTY", "TRANSCEIVING"}

\* send_values_pending tells whether the work is queued.
FlagMatchesWork == sendPending = sendScheduled

\* Which works can be queued, and what is known of the slot meanwhile.
NoticesInOrder ==
    \/ notices = << >> /\ link /\ connected
    \/ notices = << >> /\ ~link /\ ~connected
    \/ /\ notices = <<"connect">> /\ link
       /\ ~connected /\ txState = "EMPTY"
    \/ /\ notices = <<"connect", "disconnect">> /\ ~link
       /\ ~connected /\ txState = "EMPTY"
    \/ notices = <<"disconnect">> /\ ~link /\ connected

ValuesInv ==
    /\ LocalTypes
    /\ FlagMatchesWork
    /\ NoticesInOrder
    /\ BusySlotIsScheduled
    /\ WaitsOnlyWhileBusy
    /\ NoLostUpdate

-----------------------------------------------------------------------------
(* The slave starts with nothing to send and no connection.                *)
LEMMA ValuesStart == ValuesInit => ValuesInv
<1> SUFFICES ASSUME ValuesInit PROVE ValuesInv
  OBVIOUS
<1>1. Whole(Blank) \in Payloads /\ Whole(0) \in Payloads
  BY SlotAssumption, ValuesAssumption DEF Whole, Payloads
<1>2. LocalTypes
  <2>1. tx \in TxContexts
    BY <1>1, TxInitType DEF ValuesInit, SlotInit
  <2>2. TotalLen \in 0 .. TotalLen
    BY SlotAssumption
  <2> QED
    BY <1>1, <2>1, <2>2 DEF ValuesInit, SlotInit, LocalTypes
<1>3. NoticesInOrder /\ NoLostUpdate
  BY DEF ValuesInit, SlotInit, NoticesInOrder, NoLostUpdate
<1>4. FlagMatchesWork /\ BusySlotIsScheduled /\ WaitsOnlyWhileBusy
  BY DEF ValuesInit, SlotInit, FlagMatchesWork, BusySlotIsScheduled,
         WaitsOnlyWhileBusy
<1> QED
  BY <1>2, <1>3, <1>4 DEF ValuesInv

(* The steps of the keys and of the thread that copies a scan frame.       *)
LEMMA ScanKeepsInv == ValuesInv /\ (KeyMoves \/ Scan) => ValuesInv'
<1> SUFFICES ASSUME ValuesInv, KeyMoves \/ Scan PROVE ValuesInv'
  OBVIOUS
<1> USE DEF ValuesInv, LocalTypes, FlagMatchesWork, NoticesInOrder,
            BusySlotIsScheduled, WaitsOnlyWhileBusy, NoLostUpdate, LastGiven,
            slotVars, linkVars, txVars, rxVars
<1>1. CASE KeyMoves
  <2>1. keys' \in Payloads
    BY <1>1, ValuesAssumption DEF KeyMoves, Payloads
  <2> QED
    BY <1>1, <2>1 DEF KeyMoves
<1>2. CASE ScanFrame
  BY <1>2, SlotAssumption DEF ScanFrame
<1>3. CASE CopyPart
  <2>1. values' \in Payloads /\ copied' \in 0 .. TotalLen /\ copied' # TotalLen
    BY <1>3, SlotAssumption DEF CopyPart, Payloads, Offsets
  <2> QED
    BY <1>3, <2>1 DEF CopyPart
<1>4. CASE FinishCopy
  <2>1. values' \in Payloads /\ copied' \in 0 .. TotalLen
    BY <1>4, SlotAssumption DEF FinishCopy, Payloads, Offsets
  <2>2. sendPending' = TRUE /\ sendScheduled' = TRUE
    BY <1>4 DEF FinishCopy
  <2> QED
    BY <1>4, <2>1, <2>2 DEF FinishCopy
<1> QED
  BY <1>1, <1>2, <1>3, <1>4 DEF Scan

(* send_values_work_handler gives the whole array to the slot or to what   *)
(* waits for it.                                                           *)
LEMMA SendKeepsInv == ValuesInv /\ SendValuesWork => ValuesInv'
<1> SUFFICES ASSUME ValuesInv, SendValuesWork PROVE ValuesInv'
  OBVIOUS
<1> USE DEF ValuesInv, LocalTypes, FlagMatchesWork, NoticesInOrder,
            BusySlotIsScheduled, WaitsOnlyWhileBusy, NoLostUpdate, LastGiven,
            SendValuesWork, SendValues, linkVars, txVars
<1>0. values # None
  BY PayloadIsSomething
<1>1. CASE ~connected
  BY <1>1
<1>2. CASE connected /\ txState = "EMPTY"
  BY <1>2, TxInitType DEF BeginTransfer
<1>3. CASE connected /\ txState # "EMPTY"
  BY <1>0, <1>3
<1> QED
  BY <1>1, <1>2, <1>3

(* The transmit work: the payload that waits becomes the one being sent.   *)
LEMMA TransmitKeepsInv ==
    ValuesInv /\ TakesPending(TxWork(pending)) => ValuesInv'
<1> SUFFICES ASSUME ValuesInv, TakesPending(TxWork(pending)) PROVE ValuesInv'
  OBVIOUS
<1> USE DEF ValuesInv, LocalTypes, FlagMatchesWork, NoticesInOrder,
            BusySlotIsScheduled, WaitsOnlyWhileBusy, NoLostUpdate, LastGiven,
            TakesPending, linkVars, scanVars
<1>1. PICK ctx \in TxContexts :
        /\ ctx.data = tx.data
        /\ \/ TransferEnds /\ SlotEmptied(ctx, pending)
           \/ ~TransferEnds /\ tx' = ctx /\ txState' = txState /\ txWork' = txWork
  BY TxWorkEffect
<1>2. txWork /\ UNCHANGED linkVars
  BY TxWorkEffect
<1>3. CASE TransferEnds
  <2>1. SlotEmptied(ctx, pending) /\ pending' = None
    BY <1>1, <1>3
  <2>2. /\ tx' \in TxContexts
        /\ txState' = "TRANSCEIVING" => txWork'
        /\ txState' \in {"EMPTY", "TRANSCEIVING"} /\ txWork' \in BOOLEAN
        /\ pending = None => txState' = "EMPTY"
        /\ pending # None => txState' = "TRANSCEIVING" /\ tx'.data = pending
    BY <2>1, SlotEmptiedEffect
  <2>3. pending # None => txState = "TRANSCEIVING"
    OBVIOUS
  <2> QED
    BY <1>2, <2>1, <2>2, <2>3
<1>4. CASE ~TransferEnds
  BY <1>1, <1>2, <1>4
<1> QED
  BY <1>3, <1>4

(* Connections: a slot is idle when the slave connects, because connecting *)
(* again waits for the transmit work that ends the old transfer.           *)
LEMMA LinkKeepsInv ==
    ASSUME ValuesInv,
           \/ SlaveConnectWork
           \/ (LinkUp \/ LinkDown \/ DisconnectWork) /\ UNCHANGED slaveVars
    PROVE  ValuesInv'
<1> USE DEF ValuesInv, LocalTypes, FlagMatchesWork, NoticesInOrder,
            BusySlotIsScheduled, WaitsOnlyWhileBusy, NoLostUpdate, LastGiven,
            slaveVars, scanVars, linkVars, txVars
<1>1. CASE SlaveConnectWork
  <2>1. notices' = Tail(notices) /\ UNCHANGED <<link, txVars, slaveVars>> /\ connected'
    BY <1>1 DEF SlaveConnectWork
  <2>2. \/ notices = <<"connect">> /\ link /\ txState = "EMPTY"
        \/ notices = <<"connect", "disconnect">> /\ ~link /\ txState = "EMPTY"
    BY <1>1 DEF SlaveConnectWork
  <2>3. Tail(<<"connect">>) = << >> /\ Tail(<<"connect", "disconnect">>) = <<"disconnect">>
    OBVIOUS
  <2>4. NoticesInOrder'
    BY <2>1, <2>2, <2>3
  <2> QED
    BY <2>1, <2>2, <2>4
<1>2. CASE LinkUp /\ UNCHANGED slaveVars
  <2>1. notices = << >> /\ ~link /\ ~connected /\ txState = "EMPTY"
    BY <1>2 DEF LinkUp, Settled
  <2>2. notices' = <<"connect">>
    BY <1>2, <2>1 DEF LinkUp, Submit
  <2> QED
    BY <1>2, <2>1, <2>2 DEF LinkUp
<1>3. CASE LinkDown /\ UNCHANGED slaveVars
  <2>1. \/ notices = << >> /\ connected
        \/ notices = <<"connect">> /\ ~connected /\ txState = "EMPTY"
    BY <1>3 DEF LinkDown
  <2>2. notices' = Append(notices, "disconnect")
    <3>1. \A i \in DOMAIN notices : notices[i] # "disconnect"
      BY <2>1
    <3> QED
      BY <1>3, <3>1 DEF LinkDown, Submit
  <2>3. \/ notices = << >> /\ notices' = <<"disconnect">>
        \/ notices = <<"connect">> /\ notices' = <<"connect", "disconnect">>
    BY <2>1, <2>2, ShortAppend
  <2> QED
    BY <1>3, <2>1, <2>3 DEF LinkDown
<1>4. CASE DisconnectWork /\ UNCHANGED slaveVars
  <2>1. notices = <<"disconnect">> /\ ~link /\ notices' = << >>
    BY <1>4 DEF DisconnectWork
  <2> QED
    BY <1>4, <2>1 DEF DisconnectWork
<1> QED
  BY <1>1, <1>2, <1>3, <1>4

(* The receiver is another program: it touches nothing of the slave.       *)
LEMMA ReceiverKeepsInv ==
    ValuesInv /\ (Arrive \/ Receiver) /\ UNCHANGED slaveVars => ValuesInv'
<1> SUFFICES ASSUME ValuesInv, Arrive \/ Receiver, UNCHANGED slaveVars
             PROVE  ValuesInv'
  OBVIOUS
<1>1. UNCHANGED <<linkVars, txVars, slaveVars>>
  BY DEF Arrive, Receiver, RxWorkStart, RxWorkPop, RxWorkEnd, RxSlotWork
<1> QED
  BY <1>1 DEF ValuesInv, LocalTypes, FlagMatchesWork, NoticesInOrder,
              BusySlotIsScheduled, WaitsOnlyWhileBusy, NoLostUpdate, LastGiven,
              slaveVars, scanVars, linkVars, txVars

(* Every step of the system keeps the invariant.                           *)
LEMMA ValuesStep == ValuesInv /\ [ValuesNext]_valuesVars => ValuesInv'
<1> SUFFICES ASSUME ValuesInv, [ValuesNext]_valuesVars PROVE ValuesInv'
  OBVIOUS
<1>1. CASE UNCHANGED valuesVars
  BY <1>1 DEF valuesVars, ValuesInv, LocalTypes, FlagMatchesWork, NoticesInOrder,
              BusySlotIsScheduled, WaitsOnlyWhileBusy, NoLostUpdate, LastGiven,
              slotVars, slaveVars, scanVars, linkVars, txVars
<1>2. CASE KeyMoves \/ Scan
  BY <1>2, ScanKeepsInv
<1>3. CASE SendValuesWork
  BY <1>3, SendKeepsInv
<1>4. CASE TakesPending(TxWork(pending))
  BY <1>4, TransmitKeepsInv
<1>5. CASE \/ SlaveConnectWork
           \/ (LinkUp \/ LinkDown \/ DisconnectWork) /\ UNCHANGED slaveVars
  BY <1>5, LinkKeepsInv
<1>6. CASE (Arrive \/ Receiver) /\ UNCHANGED slaveVars
  BY <1>6, ReceiverKeepsInv
<1> QED
  BY <1>1, <1>2, <1>3, <1>4, <1>5, <1>6 DEF ValuesNext, SlaveSlot

-----------------------------------------------------------------------------
(* Whatever the array of the slave holds that the transmitter has not been *)
(* given is on its way, in every behaviour (splitlink_sync_slave_update_   *)
(* values, splitlink_sync_send_values and tx_slot_work_handler).           *)
LEMMA UpdatesAreNotLost == ValuesSpec => []NoLostUpdate
<1>1. ValuesInv => NoLostUpdate
  BY DEF ValuesInv
<1> QED
  BY <1>1, ValuesStart, ValuesStep, PTL DEF ValuesSpec

(* Values wait only while the slot is busy, so that the end of a transfer  *)
(* finds them (pending_values_tx_ready).                                   *)
LEMMA ValuesWaitOnlyWhileBusy == ValuesSpec => []WaitsOnlyWhileBusy
<1>1. ValuesInv => WaitsOnlyWhileBusy
  BY DEF ValuesInv
<1> QED
  BY <1>1, ValuesStart, ValuesStep, PTL DEF ValuesSpec

(* No scan frame is left behind, in the array or waiting for the slot.     *)
THEOREM ScansAreNotLost == ValuesSpec => []NewestIsKept
<1>1. NoLostUpdate /\ WaitsOnlyWhileBusy <=> NewestIsKept
  BY DEF NewestIsKept
<1> QED
  BY <1>1, UpdatesAreNotLost, ValuesWaitOnlyWhileBusy, PTL

-----------------------------------------------------------------------------
(* What is on its way from the transmit slot to the subsystem *)

Count == CalcPacketCount(TotalLen)
Pieces == UNION {[0 .. n - 1 -> Data] : n \in Nat}

\* The packets of this slot: pieces of a payload, where they belong.
Packets ==
    {p \in [version : {TRUE}, type : {"DATA"}, transfer_id : {SlotId},
            start : BOOLEAN, end : BOOLEAN, packet_idx : 0 .. Count - 1,
            packet_count : {Count}, total_len : {TotalLen}, payload : Pieces,
            intact : {TRUE}] :
        DOMAIN p.payload = 0 .. Length(TotalLen, p.packet_idx) - 1}

Covers(p, i) == i \in Chunk(TotalLen, p.packet_idx)
Value(p, i) == p.payload[i - PacketOffset(p.packet_idx)]

(* A slot sends payloads of its size, and what it built is a piece of the  *)
(* one it sends; packets on the way are pieces of payloads; the receiver's *)
(* buffer and what was delivered are as large as a payload.                *)
PieceOf(p, data) ==
    p \in Packets /\ \A i \in Offsets : Covers(p, i) => Value(p, i) = data[i]

Sending ==
    /\ tx.data \in Payloads /\ Sends(tx, TotalLen, tx.data) /\ tx.transfer_id = SlotId
    /\ pkt # None => PieceOf(pkt, tx.data)

SlotInv ==
    /\ Sending
    /\ wire \in Seq(Packets) /\ rxq \in Seq(Packets)
    /\ RxContext(rx) /\ rx.capacity = TotalLen /\ rx.buffer \in Payloads
    /\ delivered \in Payloads

(* A packet writes within the payload, and what it writes is data.         *)
LEMMA PacketFacts ==
    ASSUME NEW p \in Packets
    PROVE  /\ PacketOffset(p.packet_idx) \in Nat /\ Length(TotalLen, p.packet_idx) \in Nat
           /\ \A i \in Int : Covers(p, i) => i \in Offsets /\ Value(p, i) \in Data
           /\ p.total_len = TotalLen /\ p.packet_count = Count
           /\ p.packet_idx \in 0 .. Count - 1
<1> DEFINE k == p.packet_idx
           n == Length(TotalLen, k)
           o == PacketOffset(k)
<1>1. /\ p.total_len = TotalLen /\ p.packet_count = Count /\ k \in 0 .. Count - 1
      /\ p.payload \in Pieces /\ DOMAIN p.payload = 0 .. n - 1
  BY DEF Packets
<1>0. TotalLen \in 0 .. U16 - 1
  BY LengthFits
<1>2. /\ o \in Nat /\ n \in Nat /\ o + n <= TotalLen
  <2> HIDE DEF k
  <2> QED
    BY <1>0, <1>1, ChunkFacts DEF Count
<1>3. p.payload \in [0 .. n - 1 -> Data]
  BY <1>1 DEF Pieces
<1> HIDE DEF k, n, o
<1>4. ASSUME NEW i \in Int, i \in o .. o + n - 1
      PROVE  i \in Offsets /\ p.payload[i - o] \in Data
  <2>1. i - o \in 0 .. n - 1 /\ i \in 0 .. TotalLen - 1
    BY <1>2, <1>4, SlotAssumption
  <2> QED
    BY <1>3, <2>1 DEF Offsets
<1> QED
  BY <1>1, <1>2, <1>4 DEF Covers, Chunk, Value, k, n, o

(* The packet a context builds is a piece of its payload.                  *)
LEMMA BuiltPacket ==
    ASSUME tx.data \in Payloads, Sends(tx, TotalLen, tx.data), tx.transfer_id = SlotId,
           TxHasMore(tx)
    PROVE  /\ PieceOf(TxPacket(tx), tx.data)
           /\ Sends(TxAfterPacket(tx), TotalLen, tx.data)
           /\ TxAfterPacket(tx).transfer_id = SlotId
           /\ TxAfterPacket(tx).data = tx.data
<1> DEFINE p == TxPacket(tx)
           k == tx.next_packet_idx
           n == PayloadLenForIndex(tx.total_len, k, tx.packet_count)
           o == PacketOffset(k)
<1>0. TotalLen \in 0 .. U16 - 1
  BY LengthFits
<1>1. /\ PartOf(p, TotalLen, tx.data) /\ p.packet_idx = k
      /\ Sends(TxAfterPacket(tx), TotalLen, tx.data)
      /\ TxAfterPacket(tx).transfer_id = SlotId
  BY <1>0, SendingGoesOn
<1>2. TxAfterPacket(tx).data = tx.data
  BY <1>1 DEF Sends
<1>3. tx.total_len = TotalLen /\ tx.packet_count = Count /\ tx.offset = o /\ k \in 0 .. Count - 1
  <2>1. Count \in Nat
    BY <1>0, CountFacts DEF Count
  <2> QED
    BY <2>1 DEF Sends, TxHasMore, Count
<1>4. n = Length(TotalLen, k)
  BY <1>3 DEF Length, Count
<1>5. o \in Nat /\ n \in Nat /\ o + n <= TotalLen
  BY <1>0, <1>3, <1>4, ChunkFacts DEF Count
<1> DEFINE payload == [i \in 0 .. n - 1 |-> tx.data[o + i]]
<1>6. p = [version |-> TRUE, type |-> "DATA", transfer_id |-> SlotId,
           start |-> k = 0, end |-> k = Count - 1, packet_idx |-> k, packet_count |-> Count,
           total_len |-> TotalLen, payload |-> payload, intact |-> TRUE]
  BY <1>3 DEF TxPacket
<1>7. payload \in Pieces /\ DOMAIN payload = 0 .. n - 1
  <2> HIDE DEF n, o
  <2>1. \A i \in 0 .. n - 1 : tx.data[o + i] \in Data
    BY <1>5, SlotAssumption DEF Payloads, Offsets
  <2> QED
    BY <1>5, <2>1 DEF Pieces
<1> HIDE DEF p, k, n, o, payload
<1>8. p \in Packets
  BY <1>3, <1>4, <1>6, <1>7 DEF Packets
<1>9. ASSUME NEW i \in Offsets, Covers(p, i) PROVE Value(p, i) = tx.data[i]
  <2>1. i \in o .. o + n - 1
    BY <1>4, <1>6, <1>9 DEF Covers, Chunk, o
  <2>2. i - o \in 0 .. n - 1 /\ o + (i - o) = i
    BY <1>5, <2>1
  <2>3. p.payload[i - o] = tx.data[i]
    BY <1>6, <2>2 DEF payload
  <2> QED
    BY <1>6, <2>3 DEF Value, o
<1> QED
  BY <1>1, <1>2, <1>8, <1>9 DEF PieceOf, p

(* A byte of the buffer changes only to what the packet carries for it     *)
(* (ykb_protocol_rx_push_packet).                                          *)
LEMMA PushWrites ==
    ASSUME NEW r, RxContext(r), r.capacity = TotalLen, r.buffer \in Payloads,
           NEW p \in Packets
    PROVE  LET s == RxPushPacket(r, p).rx
           IN  /\ RxContext(s) /\ s.capacity = TotalLen /\ s.buffer \in Payloads
               /\ \A i \in Offsets : \/ s.buffer[i] = r.buffer[i]
                                     \/ Covers(p, i) /\ s.buffer[i] = Value(p, i)
<1> DEFINE b == IF r.active THEN r ELSE RxBeginTransfer(r, p)
           n == PayloadLenForIndex(b.total_len, p.packet_idx, b.packet_count)
           stored == RxStore(b, p, n)
           s == RxPushPacket(r, p).rx
           Written(t) == /\ RxContext(t) /\ t.capacity = TotalLen /\ t.buffer \in Payloads
                         /\ \A i \in Offsets : \/ t.buffer[i] = r.buffer[i]
                                               \/ Covers(p, i) /\ t.buffer[i] = Value(p, i)
<1>1. Written(r)
  OBVIOUS
<1>2. CASE Refusal(r, p) # "none"
  <2>1. s = r
    BY <1>2 DEF RxPushPacket
  <2> QED
    BY <1>1, <2>1
<1>3. CASE Refusal(r, p) = "none"
  <2>1. b.total_len = TotalLen /\ b.packet_count = Count
    <3>1. CASE r.active
      BY <1>3, <3>1, PacketFacts DEF Refusal, SameTransfer, HeaderError
    <3>2. CASE ~r.active
      <4>1. /\ DOMAIN RxReset(r) = RxFields
        BY DEF RxReset, RxContext
      <4>2. b.total_len = p.total_len /\ b.packet_count = p.packet_count
        BY <3>2, <4>1 DEF RxBeginTransfer, RxFields
      <4> QED
        BY <4>2, PacketFacts
    <3> QED
      BY <3>1, <3>2
  <2>2. RxContext(b) /\ b.buffer = r.buffer /\ b.capacity = TotalLen
    <3>1. CASE ~r.active
      <4>1. /\ DOMAIN RxReset(r) = RxFields
            /\ RxReset(r).buffer = r.buffer /\ RxReset(r).capacity = r.capacity
        BY DEF RxReset, RxContext, RxFields
      <4>2. DOMAIN b = RxFields /\ b.buffer = r.buffer /\ b.capacity = r.capacity
        BY <3>1, <4>1 DEF RxBeginTransfer, RxFields
      <4> QED
        BY <4>2 DEF RxContext
    <3> QED
      BY <3>1
  <2>3. Written(b)
    BY <2>2
  <2>4. n = Length(TotalLen, p.packet_idx)
    BY <2>1 DEF Length, Count
  <2>5. Written(stored)
    <3> HIDE DEF b, n
    <3> DEFINE o == PacketOffset(p.packet_idx)
    <3>0. \E f : stored.buffer = [i \in DOMAIN b.buffer |-> f[i]]
      <4> DEFINE f == [i \in DOMAIN b.buffer |-> IF i \in o .. o + n - 1
                                                THEN p.payload[i - o] ELSE b.buffer[i]]
      <4>1. stored.buffer = f
        BY <2>2 DEF RxStore, RxContext, RxFields
      <4>2. f = [i \in DOMAIN b.buffer |-> f[i]]
        OBVIOUS
      <4> QED
        BY <4>1, <4>2
    <3>1. StoreEffect(stored, b, p, n)
      BY <2>2, StoreFields
    <3> HIDE DEF stored
    <3>2. RxContext(stored) /\ stored.capacity = TotalLen
      BY <2>2, <3>1 DEF StoreEffect
    <3>4. ASSUME NEW i \in Offsets
          PROVE  \/ stored.buffer[i] = r.buffer[i]
                 \/ Covers(p, i) /\ stored.buffer[i] = Value(p, i)
      <4>1. i \in DOMAIN b.buffer
        BY <2>2 DEF Payloads
      <4> QED
        BY <2>2, <2>4, <3>1, <4>1 DEF StoreEffect, Covers, Chunk, Value
    <3>5. \A i \in Offsets : stored.buffer[i] \in Data
      <4> TAKE i \in Offsets
      <4>1. i \in Int /\ r.buffer[i] \in Data
        BY SlotAssumption DEF Offsets, Payloads
      <4>2. Covers(p, i) => Value(p, i) \in Data
        BY <4>1, PacketFacts
      <4> HIDE DEF stored
      <4> QED
        BY <3>4, <4>1, <4>2
    <3>6. stored.buffer \in Payloads
      BY <2>2, <3>0, <3>5 DEF Payloads
    <3> QED
      BY <3>2, <3>4, <3>6
  <2>6. s \in {r, b, stored, [stored EXCEPT !.complete = TRUE]}
    BY <1>3 DEF RxPushPacket
  <2>7. Written([stored EXCEPT !.complete = TRUE])
    <3> HIDE DEF stored
    <3>1. RxContext(stored)
      BY <2>5
    <3> DEFINE f == [stored EXCEPT !.complete = TRUE]
    <3>2. RxContext(f) /\ f.buffer = stored.buffer /\ f.capacity = stored.capacity
      BY <3>1 DEF RxContext, RxFields
    <3> HIDE DEF f
    <3> QED
      BY <2>5, <3>2 DEF f
  <2> QED
    <3> HIDE DEF s, b, stored, Written
    <3>1. Written(s)
      BY <1>1, <2>3, <2>5, <2>6, <2>7
    <3> QED
      BY <3>1 DEF Written, s
<1> QED
  BY <1>2, <1>3

(* What the receiver does to the context of its slot keeps the buffer, but  *)
(* for what a packet writes (on_receive, rx_slot_work_handler).            *)
LEMMA ReceivedContext ==
    ASSUME SlotInv, NEW p \in Packets, OnReceive(p)
    PROVE  /\ RxContext(rx') /\ rx'.capacity = TotalLen /\ rx'.buffer \in Payloads
           /\ \A i \in Offsets : \/ rx'.buffer[i] = rx.buffer[i]
                                 \/ Covers(p, i) /\ rx'.buffer[i] = Value(p, i)
<1> DEFINE r == IF rxState = "EMPTY" THEN Fresh(rx.buffer) ELSE rx
           s == RxPushPacket(r, p).rx
           Written(t) == /\ RxContext(t) /\ t.capacity = TotalLen /\ t.buffer \in Payloads
                         /\ \A i \in Offsets : \/ t.buffer[i] = rx.buffer[i]
                                               \/ Covers(p, i) /\ t.buffer[i] = Value(p, i)
<1>1. Written(rx)
  BY DEF SlotInv
<1>2. RxContext(r) /\ r.capacity = TotalLen /\ r.buffer = rx.buffer /\ rx.buffer \in Payloads
  <2>1. RxContext(Fresh(rx.buffer)) /\ Fresh(rx.buffer).capacity = TotalLen
        /\ Fresh(rx.buffer).buffer = rx.buffer
    <3>1. DOMAIN rx.buffer = 0 .. TotalLen - 1
      BY DEF SlotInv, Payloads, Offsets
    <3>2. TotalLen \in Nat
      BY SlotAssumption
    <3> DEFINE bits == IF OutOfOrder THEN 32 ELSE 0
    <3>3. Fresh(rx.buffer) = RxInit(rx.buffer, TotalLen, OutOfOrder, bits)
      BY DEF Fresh
    <3> HIDE DEF bits
    <3> QED
      BY <3>1, <3>2, <3>3 DEF RxInit, RxContext, RxFields
  <2> QED
    BY <2>1 DEF SlotInv
<1> HIDE DEF r
<1>3. Written(s)
  BY <1>2, PushWrites
<1> HIDE DEF s
<1>4. RxContext(RxReset(s)) /\ RxReset(s).buffer = s.buffer /\ RxReset(s).capacity = s.capacity
  BY <1>3, ResetContext
<1>5. Written(RxReset(s))
  BY <1>3, <1>4
<1>6. rx' \in {rx, s, RxReset(s)}
  BY DEF OnReceive, r, s
<1> HIDE DEF Written
<1>7. Written(rx')
  BY <1>1, <1>3, <1>5, <1>6
<1> QED
  BY <1>7 DEF Written

(* A payload that the slot begins to send (tx_slot_begin_transfer).        *)
LEMMA BeginEffect ==
    ASSUME NEW data \in Payloads, BeginTransfer(data)
    PROVE  Sending' /\ tx'.data = data /\ txState' = "TRANSCEIVING" /\ txWork'
<1>0. TotalLen \in 0 .. U16 - 1
  BY LengthFits
<1>1. tx' = TxInit(data, TotalLen, SlotId) /\ pkt' = None
  BY DEF BeginTransfer
<1>2. Sends(tx', TotalLen, data) /\ tx'.transfer_id = SlotId
  BY <1>0, <1>1, SendingStarts
<1>3. tx'.data = data
  BY <1>2 DEF Sends
<1> QED
  BY <1>1, <1>2, <1>3 DEF Sending, BeginTransfer

(* One run of tx_slot_work_handler, which may take along what waits: what  *)
(* it sends is a piece of the payload.                                     *)
LEMMA TransmitEffect ==
    ASSUME Sending, NEW next, TxWork(next), next # None => next \in Payloads
    PROVE  /\ Sending' /\ UNCHANGED <<linkVars, rxVars>> /\ txWork
           /\ wire' = wire \/ \E p : wire' = Append(wire, p) /\ PieceOf(p, tx.data)
           /\ \/ /\ ~TransferEnds
                 /\ tx'.data = tx.data /\ txState' = txState /\ txWork' = txWork
              \/ /\ TransferEnds /\ next = None
                 /\ tx'.data = tx.data /\ txState' = "EMPTY" /\ txWork' = FALSE
              \/ /\ TransferEnds /\ next # None
                 /\ tx'.data = next /\ txState' = "TRANSCEIVING" /\ txWork'
<1> DEFINE Good(c) == c.data = tx.data /\ Sends(c, TotalLen, tx.data) /\ c.transfer_id = SlotId
<1>1. Good(tx) /\ (pkt # None => PieceOf(pkt, tx.data)) /\ tx.data \in Payloads
  BY DEF Sending
<1>2. ASSUME HasPacket PROVE PieceOf(Built, tx.data) /\ Good(BuiltCtx)
  <2>1. CASE pkt # None
    BY <1>1, <2>1 DEF Built, BuiltCtx
  <2>2. CASE pkt = None
    <3>1. TxHasMore(tx) /\ Built = TxPacket(tx) /\ BuiltCtx = TxAfterPacket(tx)
      BY <1>2, <2>2 DEF HasPacket, Built, BuiltCtx
    <3> QED
      BY <1>1, <3>1, BuiltPacket
  <2> QED
    BY <2>1, <2>2
<1>4. ASSUME NEW c, Good(c), SlotEmptied(c, next), TransferEnds
      PROVE  /\ Sending'
             /\ \/ /\ TransferEnds /\ next = None
                   /\ tx'.data = tx.data /\ txState' = "EMPTY" /\ txWork' = FALSE
                \/ /\ TransferEnds /\ next # None
                   /\ tx'.data = next /\ txState' = "TRANSCEIVING" /\ txWork'
  <2>1. CASE next = None
    BY <1>1, <1>4, <2>1 DEF SlotEmptied, Sending
  <2>2. CASE next # None
    BY <1>4, <2>2, BeginEffect DEF SlotEmptied
  <2> QED
    BY <2>1, <2>2
<1>5. UNCHANGED <<linkVars, rxVars>> /\ txWork
  BY DEF TxWork, TxWorkSend, TxWorkNoBuffer, TxWorkError, TxWorkDone
<1>6. CASE TxWorkSend(next)
  <2>1. HasPacket /\ wire' = Append(wire, Built) /\ PieceOf(Built, tx.data) /\ Good(BuiltCtx)
        /\ link /\ Len(wire) < WireDepth
    BY <1>2, <1>6 DEF TxWorkSend
  <2>2. CASE TxHasMore(BuiltCtx)
    <3>1. tx' = BuiltCtx /\ pkt' = None /\ txState' = txState /\ txWork' = txWork
          /\ ~TransferEnds
      BY <1>6, <2>1, <2>2 DEF TxWorkSend, TransferEnds
    <3> QED
      BY <1>1, <1>5, <2>1, <3>1 DEF Sending
  <2>3. CASE ~TxHasMore(BuiltCtx)
    <3>1. SlotEmptied(BuiltCtx, next) /\ TransferEnds
      BY <1>6, <2>1, <2>3 DEF TxWorkSend, TransferEnds
    <3> QED
      BY <1>4, <1>5, <2>1, <3>1
  <2> QED
    BY <2>2, <2>3
<1>7. CASE TxWorkNoBuffer
  <2>1. /\ PieceOf(Built, tx.data) /\ Good(BuiltCtx) /\ pkt' = Built /\ tx' = BuiltCtx
        /\ wire' = wire /\ txState' = txState /\ txWork' = txWork
        /\ HasPacket /\ link /\ Len(wire) = WireDepth
    BY <1>2, <1>7 DEF TxWorkNoBuffer
  <2>2. ~TransferEnds
    BY <2>1, SlotAssumption DEF TransferEnds
  <2> QED
    BY <1>1, <1>5, <2>1, <2>2 DEF Sending
<1>8. CASE TxWorkError(next) \/ TxWorkDone(next)
  <2>1. PICK c : Good(c) /\ SlotEmptied(c, next) /\ wire' = wire
    BY <1>1, <1>2, <1>8 DEF TxWorkError, TxWorkDone
  <2>2. TransferEnds
    BY <1>8 DEF TxWorkError, TxWorkDone, TransferEnds
  <2> QED
    BY <1>4, <1>5, <2>1, <2>2
<1> QED
  BY <1>6, <1>7, <1>8 DEF TxWork

(* What a queue of packets is made of when it has lost its head.           *)
LEMMA TailOfPackets ==
    ASSUME NEW s \in Seq(Packets), s # <<>>
    PROVE  /\ Head(s) \in Packets /\ Tail(s) \in Seq(Packets)
           /\ 1 \in 1 .. Len(s) /\ Head(s) = s[1]
           /\ \A m \in 1 .. Len(Tail(s)) :
                m + 1 \in 1 .. Len(s) /\ Tail(s)[m] = s[m + 1] /\ Tail(s)[m] \in Packets
<1>1. /\ Len(s) \in Nat /\ Len(s) # 0 /\ Len(Tail(s)) = Len(s) - 1
      /\ Tail(s) \in Seq(Packets) /\ Head(s) = s[1]
      /\ \A m \in 1 .. Len(Tail(s)) : Tail(s)[m] = s[m + 1]
  BY HeadTailProperties, EmptySeq, LenProperties
<1>2. \A m \in 1 .. Len(Tail(s)) : m + 1 \in 1 .. Len(s) /\ s[m + 1] \in Packets
  BY <1>1, ElementOfSeq
<1>3. Head(s) \in Packets /\ 1 \in 1 .. Len(s)
  BY <1>1, ElementOfSeq
<1> QED
  BY <1>1, <1>2, <1>3

\* What a step of the receiver does to what is on the way.
PacketArrives ==
    /\ wire # << >> /\ wire' = Tail(wire)
    /\ rxq' = rxq \/ rxq' = Append(rxq, Head(wire))
    /\ UNCHANGED <<rx, delivered>>

PacketIsTaken ==
    /\ rxq # << >> /\ rxq' = Tail(rxq) /\ UNCHANGED <<wire, delivered>>
    /\ rx'.buffer \in Payloads
    /\ \A i \in Offsets : \/ rx'.buffer[i] = rx.buffer[i]
                          \/ Covers(Head(rxq), i) /\ rx'.buffer[i] = Value(Head(rxq), i)

BufferIsHanded ==
    UNCHANGED <<wire, rxq>> /\ rx'.buffer = rx.buffer /\ delivered' \in {delivered, rx.buffer}

(* The receiver moves packets, and writes them into its buffer             *)
(* (splitlink_bt_queue_rx, on_receive, rx_slot_work_handler).              *)
LEMMA ReceiverEffect ==
    ASSUME SlotInv, Arrive \/ Receiver
    PROVE  SlotInv' /\ UNCHANGED txVars /\ (PacketArrives \/ PacketIsTaken \/ BufferIsHanded)
<1>1. /\ wire \in Seq(Packets) /\ rxq \in Seq(Packets) /\ UNCHANGED txVars
  BY DEF SlotInv, Arrive, Receiver, RxWorkStart, RxWorkPop, RxWorkEnd, RxSlotWork
<1>2. CASE Arrive
  <2>1. PacketArrives
    BY <1>2 DEF Arrive, PacketArrives
  <2>2. wire' \in Seq(Packets) /\ rxq' \in Seq(Packets)
    <3>1. Head(wire) \in Packets /\ Tail(wire) \in Seq(Packets)
      BY <1>1, <2>1, TailOfPackets DEF PacketArrives
    <3>2. Append(rxq, Head(wire)) \in Seq(Packets)
      BY <1>1, <3>1, AppendProperties
    <3> QED
      BY <1>1, <2>1, <3>1, <3>2 DEF PacketArrives
  <2> QED
    BY <1>1, <2>1, <2>2 DEF SlotInv, Sending, txVars, PacketArrives
<1>3. CASE RxWorkPop
  <2>1. /\ rxq # << >> /\ rxq' = Tail(rxq) /\ OnReceive(Head(rxq)) /\ UNCHANGED <<wire, delivered>>
    BY <1>3 DEF RxWorkPop
  <2>2. Head(rxq) \in Packets /\ rxq' \in Seq(Packets)
    BY <1>1, <2>1, TailOfPackets
  <2>3. /\ RxContext(rx') /\ rx'.capacity = TotalLen /\ rx'.buffer \in Payloads
        /\ \A i \in Offsets : \/ rx'.buffer[i] = rx.buffer[i]
                              \/ Covers(Head(rxq), i) /\ rx'.buffer[i] = Value(Head(rxq), i)
    BY <2>1, <2>2, ReceivedContext
  <2> QED
    BY <1>1, <2>1, <2>2, <2>3 DEF SlotInv, Sending, txVars, PacketIsTaken
<1>4. CASE RxWorkStart \/ RxWorkEnd
  BY <1>1, <1>4 DEF RxWorkStart, RxWorkEnd, SlotInv, Sending, txVars, BufferIsHanded
<1>5. CASE RxSlotWork
  <2>1. /\ UNCHANGED <<wire, rxq>> /\ rx' = RxReset(rx) /\ delivered' = rx.buffer
    BY <1>5 DEF RxSlotWork
  <2>2. /\ RxContext(rx') /\ rx'.buffer = rx.buffer /\ rx'.capacity = TotalLen
    BY <2>1, ResetContext DEF SlotInv
  <2> QED
    BY <1>1, <2>1, <2>2 DEF SlotInv, Sending, txVars, BufferIsHanded
<1> QED
  BY <1>2, <1>3, <1>4, <1>5 DEF Receiver

-----------------------------------------------------------------------------
(* The order in which parts of a payload are overtaken *)

Precedes(p, q) ==
    \A i \in Offsets : Covers(p, i) /\ Covers(q, i) => Value(p, i) <= Value(q, i)

InOrder(s) == \A m, n \in 1 .. Len(s) : m < n => Precedes(s[m], s[n])

\* Neither older than what was received nor newer than what is sent.
Between(received, p, sent) ==
    \A i \in Offsets : Covers(p, i) =>
        received[i] <= Value(p, i) /\ Value(p, i) <= sent[i]

(* Each part is at no place on its way newer than at the place before.     *)
OrderInv ==
    /\ SlotInv
    /\ \A i \in Offsets : delivered[i] <= rx.buffer[i] /\ rx.buffer[i] <= tx.data[i]
    /\ \A m \in 1 .. Len(rxq) : Between(rx.buffer, rxq[m], tx.data)
    /\ \A n \in 1 .. Len(wire) : Between(rx.buffer, wire[n], tx.data)
    /\ InOrder(rxq) /\ InOrder(wire)
    /\ \A m \in 1 .. Len(rxq), n \in 1 .. Len(wire) : Precedes(rxq[m], wire[n])

(* A queue that loses its head, or gets one more packet, stays in order.   *)
LEMMA TailFacts ==
    ASSUME NEW s \in Seq(Packets), s # <<>>
    PROVE  /\ Head(s) \in Packets /\ Tail(s) \in Seq(Packets)
           /\ 1 \in 1 .. Len(s) /\ Head(s) = s[1]
           /\ \A m \in 1 .. Len(Tail(s)) :
                m + 1 \in 1 .. Len(s) /\ Tail(s)[m] = s[m + 1] /\ Tail(s)[m] \in Packets
           /\ InOrder(s) => /\ InOrder(Tail(s))
                            /\ \A m \in 1 .. Len(Tail(s)) : Precedes(Head(s), Tail(s)[m])
<1>1. /\ Head(s) \in Packets /\ Tail(s) \in Seq(Packets)
      /\ 1 \in 1 .. Len(s) /\ Head(s) = s[1]
      /\ \A m \in 1 .. Len(Tail(s)) :
           m + 1 \in 1 .. Len(s) /\ Tail(s)[m] = s[m + 1] /\ Tail(s)[m] \in Packets
  BY TailOfPackets
<1>2. ASSUME InOrder(s)
      PROVE  /\ InOrder(Tail(s))
             /\ \A m \in 1 .. Len(Tail(s)) : Precedes(Head(s), Tail(s)[m])
  <2>1. ASSUME NEW m \in 1 .. Len(Tail(s)), NEW n \in 1 .. Len(Tail(s)), m < n
        PROVE  Precedes(Tail(s)[m], Tail(s)[n])
    <3>1. m + 1 \in 1 .. Len(s) /\ n + 1 \in 1 .. Len(s) /\ m + 1 < n + 1
      BY <1>1, <2>1
    <3> QED
      BY <1>1, <1>2, <3>1 DEF InOrder
  <2>2. ASSUME NEW m \in 1 .. Len(Tail(s)) PROVE Precedes(Head(s), Tail(s)[m])
    <3>1. m + 1 \in 1 .. Len(s) /\ 1 < m + 1
      BY <1>1
    <3> QED
      BY <1>1, <1>2, <3>1 DEF InOrder
  <2> QED
    BY <2>1, <2>2 DEF InOrder
<1> QED
  BY <1>1, <1>2

(* (splitlink_bt_queue_rx appends, the drain loop takes the head.)         *)
LEMMA AppendFacts ==
    ASSUME NEW s \in Seq(Packets), NEW p \in Packets
    PROVE  /\ Append(s, p) \in Seq(Packets)
           /\ \A m \in 1 .. Len(Append(s, p)) :
                 (m \in 1 .. Len(s) /\ Append(s, p)[m] = s[m]) \/ Append(s, p)[m] = p
           /\ InOrder(s) /\ (\A m \in 1 .. Len(s) : Precedes(s[m], p)) => InOrder(Append(s, p))
<1> DEFINE t == Append(s, p)
<1>1. /\ t \in Seq(Packets) /\ Len(t) = Len(s) + 1 /\ Len(s) \in Nat
      /\ \A m \in 1 .. Len(s) : t[m] = s[m]
      /\ t[Len(s) + 1] = p
  BY AppendProperties, LenProperties
<1> HIDE DEF t
<1>2. \A m \in 1 .. Len(t) : m \in 1 .. Len(s) \/ m = Len(s) + 1
  BY <1>1
<1>3. ASSUME InOrder(s), \A m \in 1 .. Len(s) : Precedes(s[m], p),
             NEW m \in 1 .. Len(t), NEW n \in 1 .. Len(t), m < n
      PROVE  Precedes(t[m], t[n])
  <2>1. m \in 1 .. Len(s)
    BY <1>1, <1>3
  <2>2. CASE n \in 1 .. Len(s)
    BY <1>1, <1>3, <2>1, <2>2 DEF InOrder
  <2>3. CASE n = Len(s) + 1
    BY <1>1, <1>3, <2>1, <2>3
  <2> QED
    BY <1>2, <2>2, <2>3
<1> QED
  BY <1>1, <1>2, <1>3 DEF InOrder, t

(* A slot that is given newer data, or goes on with those it has.          *)
LEMMA NewerDataKeepOrder ==
    ASSUME Data \subseteq Int, OrderInv,
           Sending', \A i \in Offsets : tx.data[i] <= tx'.data[i],
           UNCHANGED rxVars,
           \/ wire' \in {wire, << >>}
           \/ \E p : wire' = Append(wire, p) /\ PieceOf(p, tx.data)
    PROVE  OrderInv'
<1> USE DEF OrderInv
<1>1. \A i \in Offsets : tx.data[i] \in Int /\ tx'.data[i] \in Int /\ rx.buffer[i] \in Int
  BY DEF SlotInv, Sending, Payloads
<1>2. \A p \in Packets, i \in Offsets : Covers(p, i) => Value(p, i) \in Int
  <2> TAKE p \in Packets, i \in Offsets
  <2>1. i \in Int
    BY SlotAssumption DEF Offsets
  <2> QED
    BY <2>1, PacketFacts
<1>3. /\ rxq' = rxq /\ rx' = rx /\ delivered' = delivered
      /\ rxq \in Seq(Packets) /\ wire \in Seq(Packets)
  BY DEF rxVars, SlotInv
<1>4. \A p \in Packets : Between(rx.buffer, p, tx.data) => Between(rx'.buffer, p, tx'.data)
  BY <1>1, <1>2, <1>3 DEF Between, Covers, Value
<1>5. /\ \A m \in 1 .. Len(rxq) : rxq[m] \in Packets
      /\ \A m \in 1 .. Len(wire) : wire[m] \in Packets
  BY <1>3, ElementOfSeq
<1>6. \A i \in Offsets : delivered'[i] <= rx'.buffer[i] /\ rx'.buffer[i] <= tx'.data[i]
  BY <1>1, <1>3
<1>7. \A m \in 1 .. Len(rxq') : Between(rx'.buffer, rxq'[m], tx'.data)
  BY <1>3, <1>4, <1>5
<1>8. CASE wire' = wire
  <2>1. SlotInv'
    BY <1>3, <1>8 DEF SlotInv
  <2>2. \A m \in 1 .. Len(wire') : Between(rx'.buffer, wire'[m], tx'.data)
    BY <1>4, <1>5, <1>8
  <2> QED
    BY <1>3, <1>6, <1>7, <1>8, <2>1, <2>2
<1>9. CASE wire' = << >>
  <2>1. << >> \in Seq(Packets) /\ 1 .. Len(<< >>) = {}
    OBVIOUS
  <2>2. SlotInv'
    BY <1>3, <1>9, <2>1 DEF SlotInv
  <2> QED
    BY <1>3, <1>6, <1>7, <1>9, <2>1, <2>2 DEF InOrder
<1>10. ASSUME NEW p, wire' = Append(wire, p),
              PieceOf(p, tx.data)
       PROVE  OrderInv'
  <2>1. Between(rx.buffer, p, tx.data)
    BY <1>1, <1>10 DEF Between, PieceOf
  <2>2. \A q \in Packets : Between(rx.buffer, q, tx.data) => Precedes(q, p)
    BY <1>10 DEF Between, Precedes, PieceOf
  <2>3. /\ wire' \in Seq(Packets) /\ InOrder(wire')
        /\ \A m \in 1 .. Len(wire') : (m \in 1 .. Len(wire) /\ wire'[m] = wire[m]) \/ wire'[m] = p
    BY <1>3, <1>5, <1>10, <2>2, AppendFacts DEF PieceOf
  <2>4. SlotInv'
    BY <1>3, <2>3 DEF SlotInv
  <2>5. \A m \in 1 .. Len(wire') : Between(rx'.buffer, wire'[m], tx'.data)
    BY <1>4, <1>5, <1>10, <2>1, <2>3 DEF PieceOf
  <2>6. \A m \in 1 .. Len(rxq'), n \in 1 .. Len(wire') : Precedes(rxq'[m], wire'[n])
    BY <1>3, <1>5, <2>2, <2>3
  <2> QED
    BY <1>3, <1>6, <1>7, <2>3, <2>4, <2>5, <2>6
<1> QED
  BY <1>8, <1>9, <1>10

(* A payload that the slot begins to send, no older than the last one.     *)
LEMMA BeginKeepsOrder ==
    ASSUME Data \subseteq Int, OrderInv, NEW data \in Payloads, BeginTransfer(data),
           \A i \in Offsets : tx.data[i] <= data[i], UNCHANGED <<wire, rxVars>>
    PROVE  OrderInv'
  BY BeginEffect, NewerDataKeepOrder DEF rxVars

(* The transmit work, with something newer or nothing waiting for the slot. *)
LEMMA TransmitKeepsOrder ==
    ASSUME Data \subseteq Int, OrderInv, NEW next, TxWork(next),
           next # None => next \in Payloads /\ \A i \in Offsets : tx.data[i] <= next[i]
    PROVE  OrderInv' /\ (tx'.data = tx.data \/ (next # None /\ tx'.data = next))
<1>1. Sending /\ \A i \in Offsets : tx.data[i] \in Int
  BY DEF OrderInv, SlotInv, Sending, Payloads
<1>2. /\ Sending' /\ UNCHANGED rxVars
      /\ wire' = wire \/ \E p : wire' = Append(wire, p) /\ PieceOf(p, tx.data)
      /\ tx'.data = tx.data \/ (next # None /\ tx'.data = next)
  BY <1>1, TransmitEffect
<1>3. \A i \in Offsets : tx.data[i] <= tx'.data[i]
  BY <1>1, <1>2
<1> QED
  BY <1>2, <1>3, NewerDataKeepOrder

(* The receiver: packets arrive, are put together and are handed over.     *)
LEMMA ReceiverKeepsOrder ==
    ASSUME Data \subseteq Int, OrderInv, Arrive \/ Receiver
    PROVE  OrderInv' /\ PartsGoForward
<1>1. /\ SlotInv' /\ tx' = tx
      /\ PacketArrives \/ PacketIsTaken \/ BufferIsHanded
  BY ReceiverEffect DEF OrderInv, txVars
<1>2. /\ wire \in Seq(Packets) /\ rxq \in Seq(Packets)
      /\ \A m \in 1 .. Len(rxq) : rxq[m] \in Packets
      /\ \A m \in 1 .. Len(wire) : wire[m] \in Packets
  BY ElementOfSeq DEF OrderInv, SlotInv
<1>3. \A i \in Offsets : delivered[i] \in Int /\ rx.buffer[i] \in Int /\ tx.data[i] \in Int
  BY DEF OrderInv, SlotInv, Sending, Payloads
<1>4. CASE PacketArrives
  <2>1. /\ wire # << >> /\ wire' = Tail(wire) /\ UNCHANGED <<rx, delivered>>
        /\ rxq' = rxq \/ rxq' = Append(rxq, Head(wire))
    BY <1>4 DEF PacketArrives
  <2>2. /\ Head(wire) \in Packets /\ wire' \in Seq(Packets)
        /\ 1 \in 1 .. Len(wire) /\ Head(wire) = wire[1]
        /\ \A m \in 1 .. Len(wire') : m + 1 \in 1 .. Len(wire) /\ wire'[m] = wire[m + 1]
        /\ InOrder(wire') /\ \A m \in 1 .. Len(wire') : Precedes(Head(wire), wire'[m])
    BY <1>2, <2>1, TailFacts DEF OrderInv
  <2>3. \A m \in 1 .. Len(rxq) : Precedes(rxq[m], Head(wire))
    BY <2>2 DEF OrderInv
  <2>4. /\ rxq' \in Seq(Packets) /\ InOrder(rxq')
        /\ \A m \in 1 .. Len(rxq') : \/ m \in 1 .. Len(rxq) /\ rxq'[m] = rxq[m]
                                     \/ rxq'[m] = Head(wire)
    <3>1. InOrder(rxq)
      BY DEF OrderInv
    <3>2. CASE rxq' = rxq
      BY <1>2, <3>1, <3>2
    <3>3. CASE rxq' = Append(rxq, Head(wire))
      <4>1. /\ Append(rxq, Head(wire)) \in Seq(Packets)
            /\ InOrder(Append(rxq, Head(wire)))
            /\ \A m \in 1 .. Len(Append(rxq, Head(wire))) :
                  \/ m \in 1 .. Len(rxq) /\ Append(rxq, Head(wire))[m] = rxq[m]
                  \/ Append(rxq, Head(wire))[m] = Head(wire)
        BY <1>2, <2>2, <2>3, <3>1, AppendFacts
      <4> QED
        BY <3>3, <4>1
    <3> QED
      BY <2>1, <3>2, <3>3
  <2>5. \A q : Between(rx'.buffer, q, tx'.data) <=> Between(rx.buffer, q, tx.data)
    BY <1>1, <2>1 DEF Between, Covers, Value
  <2>6. /\ \A m \in 1 .. Len(rxq') : Between(rx'.buffer, rxq'[m], tx'.data)
        /\ \A m \in 1 .. Len(wire') : Between(rx'.buffer, wire'[m], tx'.data)
    BY <2>2, <2>4, <2>5 DEF OrderInv
  <2>7. \A m \in 1 .. Len(rxq'), n \in 1 .. Len(wire') : Precedes(rxq'[m], wire'[n])
    BY <2>2, <2>4 DEF OrderInv
  <2>8. PartsGoForward
    BY <1>3, <2>1 DEF PartsGoForward
  <2> QED
    BY <1>1, <2>1, <2>2, <2>4, <2>6, <2>7, <2>8 DEF OrderInv
<1>5. CASE PacketIsTaken
  <2>1. /\ rxq # << >> /\ rxq' = Tail(rxq) /\ UNCHANGED <<wire, delivered>>
        /\ rx'.buffer \in Payloads
        /\ \A i \in Offsets : \/ rx'.buffer[i] = rx.buffer[i]
                              \/ Covers(Head(rxq), i) /\ rx'.buffer[i] = Value(Head(rxq), i)
    BY <1>5 DEF PacketIsTaken
  <2>2. /\ Head(rxq) \in Packets /\ rxq' \in Seq(Packets)
        /\ 1 \in 1 .. Len(rxq) /\ Head(rxq) = rxq[1]
        /\ \A m \in 1 .. Len(rxq') : m + 1 \in 1 .. Len(rxq) /\ rxq'[m] = rxq[m + 1]
        /\ InOrder(rxq') /\ \A m \in 1 .. Len(rxq') : Precedes(Head(rxq), rxq'[m])
    BY <1>2, <2>1, TailFacts DEF OrderInv
  <2>3. /\ Between(rx.buffer, Head(rxq), tx.data)
        /\ \A n \in 1 .. Len(wire) : Precedes(Head(rxq), wire[n])
    BY <2>2 DEF OrderInv
  <2>4. \A q : Between(rx.buffer, q, tx.data) /\ Precedes(Head(rxq), q)
                 => Between(rx'.buffer, q, tx'.data)
    BY <1>1, <2>1 DEF Between, Precedes, Covers, Value
  <2>5. /\ \A m \in 1 .. Len(rxq') : Between(rx'.buffer, rxq'[m], tx'.data)
        /\ \A m \in 1 .. Len(wire') : Between(rx'.buffer, wire'[m], tx'.data)
    BY <2>1, <2>2, <2>3, <2>4 DEF OrderInv
  <2>6. \A m \in 1 .. Len(rxq'), n \in 1 .. Len(wire') : Precedes(rxq'[m], wire'[n])
    BY <2>1, <2>2 DEF OrderInv
  <2>7. \A i \in Offsets : delivered'[i] <= rx'.buffer[i] /\ rx'.buffer[i] <= tx'.data[i]
    <3> TAKE i \in Offsets
    <3>1. Covers(Head(rxq), i) => rx.buffer[i] <= Value(Head(rxq), i)
                                  /\ Value(Head(rxq), i) <= tx.data[i]
      BY <2>3 DEF Between
    <3>2. rx'.buffer[i] \in Int
      BY <2>1 DEF Payloads
    <3> QED
      BY <1>1, <1>3, <2>1, <3>1, <3>2 DEF OrderInv
  <2>8. PartsGoForward
    BY <1>3, <2>1 DEF PartsGoForward
  <2> QED
    BY <1>1, <2>1, <2>2, <2>5, <2>6, <2>7, <2>8 DEF OrderInv
<1>6. CASE BufferIsHanded
  <2>1. /\ UNCHANGED <<wire, rxq>> /\ rx'.buffer = rx.buffer
        /\ delivered' \in {delivered, rx.buffer}
    BY <1>6 DEF BufferIsHanded
  <2>2. \A q : Between(rx'.buffer, q, tx'.data) <=> Between(rx.buffer, q, tx.data)
    BY <1>1, <2>1 DEF Between, Covers, Value
  <2>3. \A i \in Offsets : /\ delivered'[i] >= delivered[i]
                           /\ delivered'[i] <= rx'.buffer[i] /\ rx'.buffer[i] <= tx'.data[i]
    BY <1>1, <1>3, <2>1 DEF OrderInv
  <2> QED
    BY <1>1, <2>1, <2>2, <2>3 DEF OrderInv, PartsGoForward
<1> QED
  BY <1>1, <1>4, <1>5, <1>6

(* The connection comes and goes: what is on the air may be lost.          *)
LEMMA LinkKeepsOrder ==
    ASSUME Data \subseteq Int, OrderInv, UNCHANGED <<txVars, rxVars>>,
           wire' \in {wire, << >>}
    PROVE  OrderInv'
<1>1. tx' = tx /\ pkt' = pkt
  BY DEF txVars
<1>2. \A i \in Offsets : tx.data[i] \in Int
  BY DEF OrderInv, SlotInv, Sending, Payloads
<1> QED
  BY <1>1, <1>2, NewerDataKeepOrder DEF OrderInv, SlotInv, Sending

(* Nothing is on its way in a slot that has just been set up.              *)
LEMMA OrderInit == Data \subseteq Int /\ SlotInit => OrderInv
<1> SUFFICES ASSUME Data \subseteq Int, SlotInit PROVE OrderInv
  OBVIOUS
<1> DEFINE blank == Whole(Blank)
<1>0. TotalLen \in 0 .. U16 - 1 /\ TotalLen \in Nat
  BY LengthFits
<1>1. blank \in Payloads /\ \A i \in Offsets : blank[i] \in Int
  BY SlotAssumption DEF Whole, Payloads
<1>2. /\ tx = TxInit(blank, TotalLen, SlotId) /\ pkt = None /\ wire = << >> /\ rxq = << >>
      /\ rx = Fresh(blank) /\ delivered = blank
  BY DEF SlotInit
<1> HIDE DEF blank
<1>3. Sends(tx, TotalLen, blank) /\ tx.transfer_id = SlotId
  BY <1>0, <1>2, SendingStarts
<1>4. tx.data = blank
  BY <1>3 DEF Sends
<1>5. RxContext(rx) /\ rx.capacity = TotalLen /\ rx.buffer = blank
  <2>1. DOMAIN blank = 0 .. TotalLen - 1
    BY <1>1 DEF Payloads, Offsets
  <2> DEFINE bits == IF OutOfOrder THEN 32 ELSE 0
  <2>2. rx = RxInit(blank, TotalLen, OutOfOrder, bits)
    BY <1>2 DEF Fresh
  <2> HIDE DEF bits
  <2> QED
    BY <1>0, <2>1, <2>2 DEF RxInit, RxContext, RxFields
<1>6. << >> \in Seq(Packets) /\ 1 .. Len(<< >>) = {}
  OBVIOUS
<1>7. SlotInv
  BY <1>1, <1>2, <1>3, <1>4, <1>5, <1>6 DEF SlotInv, Sending
<1> QED
  BY <1>1, <1>2, <1>4, <1>5, <1>6, <1>7 DEF OrderInv, InOrder

(* What was delivered is not touched by anything else.                     *)
LEMMA DeliveredStays == Data \subseteq Int /\ OrderInv /\ UNCHANGED rxVars => PartsGoForward
<1> SUFFICES ASSUME Data \subseteq Int, OrderInv, UNCHANGED rxVars PROVE PartsGoForward
  OBVIOUS
<1>1. \A i \in Offsets : delivered[i] \in Int
  BY DEF OrderInv, SlotInv, Payloads
<1> QED
  BY <1>1 DEF rxVars, PartsGoForward

-----------------------------------------------------------------------------
(* The settings slot, when only the configurator applies settings *)

\* What is sent is no newer than the settings.
SettingsInv ==
    /\ OrderInv
    /\ current \in Data /\ beginning = None
    /\ \A i \in Offsets : tx.data[i] <= current

(* The first settings are those of the blank slots.                        *)
LEMMA SettingsInvStart == Init => SettingsInv
<1> SUFFICES ASSUME Init PROVE SettingsInv
  OBVIOUS
<1>0. TotalLen \in 0 .. U16 - 1
  BY LengthFits
<1>1. Data \subseteq Int /\ 0 \in Data
  BY SettingsAssumption
<1>2. OrderInv
  BY <1>1, OrderInit DEF Init
<1>3. tx.data = Whole(0)
  <2>1. Sends(tx, TotalLen, Whole(Blank))
    BY <1>0, SendingStarts DEF Init, SlotInit
  <2> QED
    BY <2>1, SettingsAssumption DEF Sends
<1> QED
  BY <1>1, <1>2, <1>3 DEF Init, SettingsInv, Whole

(* Every step keeps the order, and delivers nothing older than before.     *)
LEMMA SettingsInvStep ==
    ~FnActions /\ SettingsInv /\ [Next]_vars => SettingsInv' /\ PartsGoForward
<1> SUFFICES ASSUME ~FnActions, SettingsInv, [Next]_vars
             PROVE  SettingsInv' /\ PartsGoForward
  OBVIOUS
<1>0. /\ Data \subseteq Int /\ OrderInv /\ current \in Data /\ current \in Int /\ beginning = None
      /\ \A i \in Offsets : tx.data[i] \in Int /\ tx.data[i] <= current
  BY SettingsAssumption DEF SettingsInv, OrderInv, SlotInv, Sending, Payloads
<1>1. ASSUME NEW d \in Data, current <= d, SendOrDrop(Whole(d)), current' = d, beginning' = None,
             UNCHANGED <<wire, rxVars>>
      PROVE  SettingsInv' /\ PartsGoForward
  <2>1. Whole(d) \in Payloads /\ \A i \in Offsets : tx.data[i] <= Whole(d)[i]
    BY <1>0, <1>1 DEF Whole, Payloads
  <2>2. OrderInv' /\ tx'.data \in {tx.data, Whole(d)}
    <3>1. CASE txState = "EMPTY"
      <4>1. BeginTransfer(Whole(d))
        BY <1>1, <3>1 DEF SendOrDrop
      <4>2. tx'.data = Whole(d)
        BY <4>1 DEF BeginTransfer, TxInit
      <4> QED
        BY <1>0, <1>1, <2>1, <4>1, <4>2, BeginKeepsOrder
    <3>2. CASE txState # "EMPTY"
      <4>1. UNCHANGED txVars
        BY <1>1, <3>2 DEF SendOrDrop
      <4> QED
        BY <1>0, <1>1, <4>1, LinkKeepsOrder DEF txVars
    <3> QED
      BY <3>1, <3>2
  <2>3. \A i \in Offsets : tx'.data[i] <= current'
    BY <1>0, <1>1, <2>2 DEF Whole
  <2> QED
    BY <1>0, <1>1, <2>2, <2>3, DeliveredStays DEF SettingsInv
<1>2. ASSUME OrderInv', UNCHANGED settVars, \A i \in Offsets : tx'.data[i] = tx.data[i]
      PROVE  SettingsInv'
  BY <1>0, <1>2 DEF SettingsInv, settVars
<1>3. ASSUME UNCHANGED <<txVars, rxVars>>, UNCHANGED settVars, wire' \in {wire, << >>}
      PROVE  SettingsInv' /\ PartsGoForward
  <2>1. OrderInv' /\ tx' = tx
    BY <1>0, <1>3, LinkKeepsOrder DEF txVars
  <2> QED
    BY <1>0, <1>2, <1>3, <2>1, DeliveredStays
<1>4. CASE ApplySettings
  <2>1. current' = current + 1 /\ current' \in Data /\ current <= current'
    BY <1>0, <1>4, SettingsAssumption DEF ApplySettings
  <2>2. CASE connected
    BY <1>0, <1>1, <1>4, <2>1, <2>2 DEF ApplySettings
  <2>3. CASE ~connected
    <3>1. UNCHANGED <<txVars, rxVars>> /\ wire' = wire /\ beginning' = None
      BY <1>0, <1>4, <2>3 DEF ApplySettings
    <3>2. OrderInv' /\ tx' = tx
      BY <1>0, <3>1, LinkKeepsOrder DEF txVars
    <3>3. \A i \in Offsets : tx'.data[i] <= current'
      BY <1>0, <2>1, <3>2
    <3> QED
      BY <1>0, <2>1, <3>1, <3>2, <3>3, DeliveredStays DEF SettingsInv
  <2> QED
    BY <2>2, <2>3
<1>5. CASE ConnectWork
  BY <1>0, <1>1, <1>5 DEF ConnectWork, settVars
<1>6. CASE TxWork(None) /\ UNCHANGED settVars
  <2>1. OrderInv'
    BY <1>0, <1>6, TransmitKeepsOrder
  <2>2. tx'.data = tx.data
    BY <1>0, <1>6, TransmitKeepsOrder
  <2>3. UNCHANGED rxVars
    BY <1>6 DEF TxWork, TxWorkSend, TxWorkNoBuffer, TxWorkError, TxWorkDone
  <2> QED
    BY <1>0, <1>2, <1>6, <2>1, <2>2, <2>3, DeliveredStays
<1>7. CASE (Arrive \/ Receiver) /\ UNCHANGED settVars
  <2>1. UNCHANGED txVars
    BY <1>7 DEF Arrive, Receiver, RxWorkStart, RxWorkPop, RxWorkEnd, RxSlotWork
  <2> QED
    BY <1>0, <1>2, <1>7, <2>1, ReceiverKeepsOrder DEF txVars
<1>8. CASE \/ UNCHANGED vars
           \/ (LinkUp \/ LinkDown \/ DisconnectWork) /\ UNCHANGED settVars
  BY <1>3, <1>8 DEF vars, slotVars, LinkUp, LinkDown, DisconnectWork
<1> QED
  BY <1>0, <1>4, <1>5, <1>6, <1>7, <1>8 DEF Next, Slot, FnApplySettings, FnFinishBegin

(* No setting of the slave goes back to an older version, across lost       *)
(* packets, a full rx_msgq, reconnections and transfers that were only     *)
(* half received (rx_slot_work_handler, splitlink_sync_protocol_on_        *)
(* receive), if the settings are applied on the system workqueue only.     *)
THEOREM SettingsNeverGoBack == Spec /\ ~FnActions => PartsNeverGoBack
<1>1. ~FnActions /\ SettingsInv /\ [Next]_vars => [PartsGoForward]_delivered
  BY SettingsInvStep
<1>2. CASE FnActions
  BY <1>2
<1>3. CASE ~FnActions
  <2>1. SettingsInv /\ [Next]_vars => SettingsInv' /\ [PartsGoForward]_delivered
    BY <1>3, SettingsInvStep
  <2> QED
    BY <2>1, SettingsInvStart, PTL DEF Spec, PartsNeverGoBack
<1> QED
  BY <1>2, <1>3

-----------------------------------------------------------------------------
(* The values slot *)

(* No key is newer at one place between the slave's matrix and the         *)
(* receiver than it is at the place before.                                *)

NotAfter(d, e) == \A k \in Offsets : d[k] <= e[k]

AgesInv ==
    /\ OrderInv
    /\ {keys, frame, values} \subseteq Payloads /\ copied \in 0 .. TotalLen
    /\ NotAfter(tx.data, values) /\ NotAfter(values, frame) /\ NotAfter(frame, keys)
    /\ pending # None => /\ pending \in Payloads
                         /\ NotAfter(tx.data, pending) /\ NotAfter(pending, values)

(* No key has changed yet.                                                 *)
LEMMA AgesStart == ValuesInit => AgesInv
<1> SUFFICES ASSUME ValuesInit PROVE AgesInv
  OBVIOUS
<1>0. TotalLen \in 0 .. U16 - 1
  BY LengthFits
<1>1. Data \subseteq Int /\ 0 \in Data
  BY ValuesAssumption
<1>2. OrderInv
  BY <1>1, OrderInit DEF ValuesInit
<1>3. tx.data = Whole(0)
  <2>1. Sends(tx, TotalLen, Whole(Blank))
    BY <1>0, SendingStarts DEF ValuesInit, SlotInit
  <2> QED
    BY <2>1, ValuesAssumption DEF Sends
<1>4. Whole(0) \in Payloads /\ NotAfter(Whole(0), Whole(0)) /\ TotalLen \in 0 .. TotalLen
  BY <1>1, SlotAssumption DEF Whole, Payloads, NotAfter
<1> QED
  BY <1>1, <1>2, <1>3, <1>4 DEF ValuesInit, AgesInv

(* Scans, transfers and the receiver keep the ages in order.               *)
LEMMA AgesStep ==
    ValuesInv /\ AgesInv /\ [ValuesNext]_valuesVars => AgesInv' /\ PartsGoForward
<1> SUFFICES ASSUME ValuesInv, AgesInv, [ValuesNext]_valuesVars
             PROVE  AgesInv' /\ PartsGoForward
  OBVIOUS
<1>0. /\ Data \subseteq Int /\ OrderInv
      /\ \A d \in Payloads, k \in Offsets : d[k] \in Int
  BY ValuesAssumption DEF AgesInv, Payloads
<1>a. tx.data \in Payloads
  BY DEF AgesInv, OrderInv, SlotInv, Sending
<1>b. \A d \in Payloads : NotAfter(d, d)
  BY <1>0 DEF NotAfter
<1>c. \A d, e, f \in Payloads : NotAfter(d, e) /\ NotAfter(e, f) => NotAfter(d, f)
  BY <1>0 DEF NotAfter
<1>1. ASSUME UNCHANGED <<txVars, rxVars>>, wire' \in {wire, << >>}
      PROVE  OrderInv' /\ tx' = tx /\ PartsGoForward
  BY <1>0, <1>1, LinkKeepsOrder, DeliveredStays DEF txVars
<1>2. ASSUME OrderInv', tx'.data = tx.data, UNCHANGED slaveVars PROVE AgesInv'
  BY <1>2 DEF AgesInv, NotAfter, slaveVars, scanVars
<1>3. CASE KeyMoves \/ ScanFrame
  <2>1. keys' \in Payloads /\ NotAfter(keys, keys')
    <3>1. CASE KeyMoves
      <4>1. PICK k \in Offsets : keys[k] < MaxChanges /\ keys' = [keys EXCEPT ![k] = @ + 1]
        BY <3>1 DEF KeyMoves
      <4> QED
        BY <1>0, <4>1, ValuesAssumption DEF AgesInv, Payloads, NotAfter
    <3>2. CASE ScanFrame
      BY <1>b, <3>2 DEF ScanFrame, AgesInv
    <3> QED
      BY <1>3, <3>1, <3>2
  <2>2. /\ frame' \in {frame, keys} /\ (frame' = keys => keys' = keys \/ frame' = frame)
        /\ copied' \in 0 .. TotalLen
        /\ UNCHANGED <<slotVars, values, pending>>
    BY <1>3, SlotAssumption DEF KeyMoves, ScanFrame, AgesInv
  <2>3. OrderInv' /\ tx' = tx /\ PartsGoForward
    BY <1>1, <2>2 DEF slotVars
  <2>4. NotAfter(values, frame') /\ NotAfter(frame', keys')
    BY <1>b, <1>c, <2>1, <2>2 DEF AgesInv
  <2> QED
    BY <2>1, <2>2, <2>3, <2>4 DEF AgesInv, NotAfter
<1>4. CASE CopyPart \/ FinishCopy
  <2>1. /\ copied \in Offsets /\ copied' \in 0 .. TotalLen
        /\ values' = [values EXCEPT ![copied] = frame[copied]]
        /\ UNCHANGED <<slotVars, keys, frame, pending>>
    BY <1>4, SlotAssumption DEF CopyPart, FinishCopy, AgesInv, Offsets
  <2>2. values' \in Payloads /\ NotAfter(values, values') /\ NotAfter(values', frame)
    BY <1>0, <2>1 DEF AgesInv, Payloads, NotAfter
  <2>3. OrderInv' /\ tx' = tx /\ PartsGoForward
    BY <1>1, <2>1 DEF slotVars
  <2>4. NotAfter(tx.data, values') /\ (pending # None => NotAfter(pending, values'))
    BY <1>a, <1>c, <2>2 DEF AgesInv
  <2> QED
    BY <2>1, <2>2, <2>3, <2>4 DEF AgesInv, NotAfter
<1>5. CASE SendValuesWork
  <2>1. SendValues(values) /\ UNCHANGED <<wire, rxVars, keys, frame, copied, values>>
    BY <1>5 DEF SendValuesWork
  <2>2. values \in Payloads /\ NotAfter(tx.data, values)
    BY DEF AgesInv
  <2>3. CASE UNCHANGED txVars /\ pending' \in {pending, values}
    <3>1. OrderInv' /\ tx' = tx /\ PartsGoForward
      BY <1>1, <2>1, <2>3
    <3>2. pending' # None => /\ pending' \in Payloads
                             /\ NotAfter(tx.data, pending') /\ NotAfter(pending', values)
      BY <1>b, <2>2, <2>3 DEF AgesInv
    <3> QED
      BY <2>1, <3>1, <3>2 DEF AgesInv, NotAfter
  <2>4. CASE txState = "EMPTY" /\ BeginTransfer(values) /\ UNCHANGED pending
    <3>1. OrderInv'
      BY <1>0, <2>1, <2>2, <2>4, BeginKeepsOrder DEF NotAfter
    <3>2. tx'.data = values
      BY <2>4 DEF BeginTransfer, TxInit
    <3>3. pending' = None
      BY <2>4 DEF ValuesInv, WaitsOnlyWhileBusy
    <3>4. PartsGoForward
      BY <1>0, <2>1, DeliveredStays
    <3> QED
      BY <1>b, <2>1, <2>2, <3>1, <3>2, <3>3, <3>4 DEF AgesInv, NotAfter
  <2> QED
    BY <2>1, <2>3, <2>4 DEF SendValues
<1>6. CASE TakesPending(TxWork(pending))
  <2>1. /\ TxWork(pending) /\ pending' \in {pending, None}
        /\ UNCHANGED scanVars
    BY <1>6 DEF TakesPending
  <2>2. OrderInv' /\ (tx'.data = tx.data \/ (pending # None /\ tx'.data = pending))
    BY <1>0, <2>1, TransmitKeepsOrder DEF AgesInv, NotAfter
  <2>3. UNCHANGED rxVars
    BY <2>1 DEF TxWork, TxWorkSend, TxWorkNoBuffer, TxWorkError, TxWorkDone
  <2>4. PartsGoForward
    BY <1>0, <2>3, DeliveredStays
  <2>5. NotAfter(tx'.data, values) /\ (pending' # None => NotAfter(tx'.data, pending'))
    BY <1>b, <2>1, <2>2 DEF AgesInv
  <2> QED
    BY <2>1, <2>2, <2>4, <2>5 DEF AgesInv, NotAfter, scanVars
<1>7. CASE (Arrive \/ Receiver) /\ UNCHANGED slaveVars
  <2>1. UNCHANGED txVars
    BY <1>7 DEF Arrive, Receiver, RxWorkStart, RxWorkPop, RxWorkEnd, RxSlotWork
  <2> QED
    BY <1>0, <1>2, <1>7, <2>1, ReceiverKeepsOrder DEF txVars
<1>8. CASE \/ UNCHANGED valuesVars \/ SlaveConnectWork
           \/ (LinkUp \/ LinkDown \/ DisconnectWork) /\ UNCHANGED slaveVars
  <2>1. UNCHANGED <<txVars, rxVars>> /\ wire' \in {wire, << >>} /\ UNCHANGED slaveVars
    BY <1>8 DEF valuesVars, slotVars, SlaveConnectWork, LinkUp, LinkDown, DisconnectWork
  <2> QED
    BY <1>1, <1>2, <2>1
<1> QED
  BY <1>3, <1>4, <1>5, <1>6, <1>7, <1>8 DEF ValuesNext, Scan, SlaveSlot

(* No key of the master's picture of the slave goes back to an older state, *)
(* whatever is lost on the way, and although the array is read while it is *)
(* being copied (splitlink_sync_slave_update_values, send_values_work_     *)
(* handler).                                                               *)
THEOREM ValuesNeverGoBack == ValuesSpec => PartsNeverGoBack
<1>1. ValuesInv /\ AgesInv /\ [ValuesNext]_valuesVars => AgesInv' /\ [PartsGoForward]_delivered
  BY AgesStep
<1> QED
  BY <1>1, AgesStart, ValuesStart, ValuesStep, PTL DEF ValuesSpec, PartsNeverGoBack

-----------------------------------------------------------------------------
(* The scripts: what is on its way through their slot *)

\* The stream of packets, oldest first: those in rx_msgq, those on the air,
\* and the one to be sent next.
Sent == IF txState = "TRANSCEIVING" THEN 1 ELSE 0
Size == Len(rxq) + Len(wire) + Sent
At(k) ==
    IF k <= Len(rxq) THEN rxq[k]
    ELSE IF k <= Len(rxq) + Len(wire) THEN wire[k - Len(rxq)]
    ELSE Built

Tag(p)  == p.payload[0]
Last(p) == p.packet_idx = Count - 1
New(s)  == Datum(s, version[s])

\* A packet of a script, and what comes after it in a stream of whole scripts.
Piece(p) == PieceOf(p, Whole(Tag(p))) /\ Tag(p) \in Data

Follows(p, q) ==
    IF Last(p) THEN q.packet_idx = 0
    ELSE q.packet_idx = p.packet_idx + 1 /\ Tag(q) = Tag(p)

\* What the slot sends is one script.
TransferInv ==
    /\ txState \in {"EMPTY", "TRANSCEIVING"}
    /\ txWork \in BOOLEAN /\ (txWork <=> txState = "TRANSCEIVING")
    /\ txState = "TRANSCEIVING" =>
          /\ HasPacket
          /\ \E d \in Data : tx.data = Whole(d)
          /\ BuiltCtx.next_packet_idx = Built.packet_idx + 1

(* A slot number and a count of updates make a datum, and both can be read  *)
(* from it.                                                                *)
LEMMA DatumIsUnique ==
    ASSUME NEW s \in Slots, NEW t \in Slots, NEW m \in Int, NEW n \in Int,
           Datum(s, m) = Datum(t, n)
    PROVE  m = n /\ s = t
<1>1. /\ SlotCount \in Nat /\ s \in Int /\ t \in Int
      /\ 0 <= s /\ s < SlotCount /\ 0 <= t /\ t < SlotCount
      /\ m * SlotCount + s = n * SlotCount + t
  BY ScriptAssumption DEF Slots, Datum
<1>2. ASSUME NEW a \in Int, NEW b \in Int, a < b
      PROVE  a * SlotCount + SlotCount <= b * SlotCount
  <2>1. PICK c \in Nat : b = a + 1 + c
    <3>1. b - a - 1 \in Nat /\ b = a + 1 + (b - a - 1)
      BY <1>2
    <3> QED
      BY <3>1
  <2>2. b * SlotCount = a * SlotCount + SlotCount + c * SlotCount
    BY <1>1, <2>1
  <2>3. c * SlotCount >= 0 /\ c * SlotCount \in Int /\ a * SlotCount \in Int
    BY <1>1, <2>1
  <2> QED
    BY <1>1, <2>2, <2>3
<1>3. m * SlotCount \in Int /\ n * SlotCount \in Int
  BY <1>1
<1>4. ~(m < n)
  BY <1>1, <1>2, <1>3
<1>5. ~(n < m)
  BY <1>1, <1>2, <1>3
<1>6. m = n
  BY <1>4, <1>5
<1> QED
  BY <1>1, <1>3, <1>6

(* (splitlink_sync_script_slot_received reads the slot from the first part.) *)
LEMMA DatumHasSlot ==
    ASSUME NEW s \in Slots, NEW n \in Int
    PROVE  SlotOf(Datum(s, n)) = s
<1> DEFINE d == Datum(s, n)
           q == d \div SlotCount
           r == d % SlotCount
<1>1. SlotCount \in Nat \ {0} /\ s \in Int /\ n * SlotCount \in Int /\ d = n * SlotCount + s
  BY ScriptAssumption DEF Slots, Datum
<1>2. d \in Int
  BY <1>1
<1> HIDE DEF d
<1>3. q \in Int /\ r \in 0 .. SlotCount - 1 /\ d = q * SlotCount + r
  BY <1>1, <1>2
<1> HIDE DEF q, r
<1>4. r \in Slots /\ Datum(r, q) = Datum(s, n)
  BY <1>3 DEF Slots, Datum, d
<1>5. r = s
  BY <1>3, <1>4, DatumIsUnique
<1> QED
  BY <1>5 DEF SlotOf, r, d

(* The datum of every script is one of the data.                           *)
LEMMA DatumIsData == \A s \in Slots, n \in 0 .. MaxUpdates : Datum(s, n) \in Data
<1> TAKE s \in Slots, n \in 0 .. MaxUpdates
<1>1. /\ SlotCount \in Nat /\ MaxUpdates \in Nat /\ n \in Nat /\ s \in Int
      /\ 0 <= s /\ s < SlotCount /\ n <= MaxUpdates
      /\ Data = 0 .. SlotCount * (MaxUpdates + 1) - 1
  BY ScriptAssumption DEF Slots
<1>2. /\ n * SlotCount \in Int /\ 0 <= n * SlotCount
      /\ n * SlotCount <= MaxUpdates * SlotCount /\ MaxUpdates * SlotCount \in Int
  <2>1. MaxUpdates - n \in Nat /\ MaxUpdates = n + (MaxUpdates - n)
    BY <1>1
  <2> DEFINE c == MaxUpdates - n
  <2>2. c \in Nat /\ MaxUpdates = n + c
    BY <2>1
  <2> HIDE DEF c
  <2>3. MaxUpdates * SlotCount = n * SlotCount + c * SlotCount
    BY <1>1, <2>2
  <2>4. c * SlotCount >= 0 /\ n * SlotCount >= 0 /\ n * SlotCount \in Int /\ c * SlotCount \in Int
    BY <1>1, <2>2
  <2> QED
    BY <1>1, <2>2, <2>3, <2>4
<1>3. SlotCount * (MaxUpdates + 1) - 1 = MaxUpdates * SlotCount + SlotCount - 1
  BY <1>1
<1> QED
  BY <1>1, <1>2, <1>3 DEF Datum

(* The lowest mark is a mark (script_slot_sync_take_next_locked).          *)
LEMMA LowestIsMarked == \A M \in SUBSET Slots : M # {} => Lowest(M) \in M
<1> SUFFICES ASSUME NEW M \in SUBSET Slots, M # {} PROVE Lowest(M) \in M
  OBVIOUS
<1>1. M \in SUBSET Nat
  BY ScriptAssumption DEF Slots
<1>2. PICK x \in M : \A y \in M : <<y, x>> \notin OpToRel(<, Nat)
  BY <1>1, NatLessThanWellFounded, WFMin, Zenon
<1>3. ASSUME NEW y \in M PROVE x <= y
  <2>1. ~(y < x)
    BY <1>1, <1>2 DEF OpToRel
  <2> QED
    BY <1>1, <2>1
<1> QED
  BY <1>2, <1>3 DEF Lowest

(* A packet of a script carries its datum and nothing else.                *)
LEMMA PieceFacts ==
    ASSUME NEW p, NEW d \in Data, PieceOf(p, Whole(d))
    PROVE  /\ Piece(p) /\ Tag(p) = d
           /\ PartOf(p, TotalLen, Whole(d))
           /\ p.packet_idx \in 0 .. Count - 1 /\ p.transfer_id = SlotId /\ p \in Packets
<1> DEFINE k == p.packet_idx
           n == Length(TotalLen, k)
           o == PacketOffset(k)
<1>0. TotalLen \in 0 .. U16 - 1 /\ TotalLen \in Nat /\ TotalLen > 0
  <2>1. TotalLen # 0
    BY SlotAssumption
  <2> QED
    BY <2>1, LengthFits
<1>1. /\ p \in Packets /\ o \in Nat /\ n \in Nat
      /\ p.total_len = TotalLen /\ p.packet_count = Count /\ k \in 0 .. Count - 1
      /\ p.transfer_id = SlotId
  BY PacketFacts DEF PieceOf, Packets
<1>2. /\ o = Times(k) /\ Times(k) + n <= TotalLen
      /\ n = IF k = Count - 1 THEN TotalLen - Times(k) ELSE MaxPayload
  BY <1>0, <1>1, ChunkFacts DEF Count
<1>3. n > 0
  <2>1. CASE k # Count - 1
    BY <1>2, <2>1, MaxPayloadAssumption
  <2>2. CASE k = Count - 1
    <3>1. Times(Count - 1) < TotalLen
      BY <1>0, CountFacts DEF Count
    <3> HIDE DEF k
    <3>2. Times(k) < TotalLen
      BY <2>2, <3>1
    <3> QED
      BY <1>0, <1>1, <1>2, <2>2, <3>2
  <2> QED
    BY <2>1, <2>2
<1>4. ASSUME NEW j \in 0 .. n - 1 PROVE p.payload[j] = d
  <2> DEFINE i == o + j
  <2>1. i \in o .. o + n - 1 /\ i \in 0 .. TotalLen - 1 /\ i - o = j
    <3> HIDE DEF o, n
    <3> QED
      BY <1>0, <1>1, <1>2, <1>4
  <2>2. i \in Offsets /\ Covers(p, i)
    BY <2>1 DEF Offsets, Covers, Chunk
  <2> HIDE DEF i
  <2>3. Value(p, i) = Whole(d)[i]
    BY <2>2 DEF PieceOf
  <2> QED
    BY <2>1, <2>2, <2>3 DEF Value, Whole
<1>5. Tag(p) = d
  <2>1. 0 \in 0 .. n - 1
    BY <1>1, <1>3
  <2> QED
    BY <1>4, <2>1 DEF Tag
<1>6. PartOf(p, TotalLen, Whole(d))
  <2>1. \A j \in 0 .. n - 1 : o + j \in Offsets
    <3> HIDE DEF o, n
    <3> QED
      BY <1>0, <1>1, <1>2 DEF Offsets
  <2>2. \A j \in 0 .. n - 1 : p.payload[j] = Whole(d)[o + j]
    BY <1>4, <2>1 DEF Whole
  <2> QED
    BY <1>1, <2>2 DEF PartOf, Count
<1> QED
  BY <1>1, <1>5, <1>6 DEF Piece

\* What a step does to the stream.
StreamStays  == Size' = Size /\ \A k \in 1 .. Size : At(k)' = At(k)
StreamGrows  == Size' = Size + 1 /\ \A k \in 1 .. Size : At(k)' = At(k)
StreamLosesHead == Size' = Size - 1 /\ \A k \in 1 .. Size - 1 : At(k)' = At(k + 1)

(* (The lengths it is made of.)                                            *)
LEMMA SizeFacts ==
    ASSUME SlotInv
    PROVE  /\ Len(rxq) \in Nat /\ Len(wire) \in Nat /\ Sent \in Nat /\ Size \in Nat
           /\ Size = Len(rxq) + Len(wire) + Sent
           /\ txState = "TRANSCEIVING" => Sent = 1 /\ Size > 0 /\ At(Size) = Built
           /\ txState # "TRANSCEIVING" => Sent = 0
<1>1. Len(rxq) \in Nat /\ Len(wire) \in Nat
  BY LenProperties DEF SlotInv
<1>2. Sent \in Nat /\ (txState = "TRANSCEIVING" => Sent = 1) /\ (txState # "TRANSCEIVING" => Sent = 0)
  BY DEF Sent
<1>3. Size = Len(rxq) + Len(wire) + Sent /\ Size \in Nat
  BY <1>1, <1>2 DEF Size
<1>4. ASSUME txState = "TRANSCEIVING" PROVE At(Size) = Built
  <2>1. ~(Size <= Len(rxq)) /\ ~(Size <= Len(rxq) + Len(wire))
    BY <1>1, <1>2, <1>3, <1>4
  <2> QED
    BY <2>1 DEF At
<1> QED
  BY <1>1, <1>2, <1>3, <1>4

(* The packet the slot is at is a piece of its script, and not the last one *)
(* when there are more.                                                    *)
LEMMA BuiltFacts ==
    ASSUME Sending, TransferInv, txState = "TRANSCEIVING"
    PROVE  /\ Piece(Built) /\ tx.data = Whole(Tag(Built)) /\ Tag(Built) \in Data
           /\ BuiltCtx.data = tx.data /\ Sends(BuiltCtx, TotalLen, tx.data)
           /\ BuiltCtx.transfer_id = SlotId
           /\ TxHasMore(BuiltCtx) <=> ~Last(Built)
           /\ BuiltCtx.next_packet_idx = Built.packet_idx + 1
<1>1. PICK d \in Data : tx.data = Whole(d)
  BY DEF TransferInv
<1>2. HasPacket /\ BuiltCtx.next_packet_idx = Built.packet_idx + 1
  BY DEF TransferInv
<1>3. /\ PieceOf(Built, tx.data) /\ BuiltCtx.data = tx.data
      /\ Sends(BuiltCtx, TotalLen, tx.data) /\ BuiltCtx.transfer_id = SlotId
  <2>1. CASE pkt # None
    BY <2>1 DEF Built, BuiltCtx, Sending
  <2>2. CASE pkt = None
    <3>1. TxHasMore(tx) /\ Built = TxPacket(tx) /\ BuiltCtx = TxAfterPacket(tx)
      BY <1>2, <2>2 DEF HasPacket, Built, BuiltCtx
    <3> QED
      BY <3>1, BuiltPacket DEF Sending
  <2> QED
    BY <2>1, <2>2
<1>4. Piece(Built) /\ Tag(Built) = d /\ Built.packet_idx \in 0 .. Count - 1
  BY <1>1, <1>3, PieceFacts
<1>5. Count \in Nat
  BY LengthFits, CountFacts DEF Count
<1>6. TxHasMore(BuiltCtx) <=> Built.packet_idx + 1 < Count
  BY <1>2, <1>3 DEF TxHasMore, Sends, Count
<1>7. Built.packet_idx + 1 < Count <=> ~Last(Built)
  BY <1>4, <1>5 DEF Last
<1> QED
  BY <1>1, <1>2, <1>3, <1>4, <1>6, <1>7

(* A context that sends a script and has no packet built builds the one of  *)
(* its turn.                                                               *)
LEMMA NextBuilt ==
    ASSUME NEW d \in Data, tx'.data = Whole(d), Sends(tx', TotalLen, Whole(d)),
           tx'.transfer_id = SlotId, TxHasMore(tx'), pkt' = None,
           txState' = "TRANSCEIVING", txWork' = TRUE
    PROVE  /\ Sending' /\ TransferInv'
           /\ Piece(Built') /\ Tag(Built') = d /\ Built'.packet_idx = tx'.next_packet_idx
<1> DEFINE u == tx'
<1>1. Built' = TxPacket(u) /\ BuiltCtx' = TxAfterPacket(u) /\ HasPacket'
  BY DEF Built, BuiltCtx, HasPacket
<1>2. Whole(d) \in Payloads
  BY DEF Whole, Payloads
<1>3. Sending'
  BY <1>2 DEF Sending
<1>4. TotalLen \in 0 .. U16 - 1
  BY LengthFits
<1>5. /\ TxPacket(u).packet_idx = u.next_packet_idx
      /\ TxAfterPacket(u).next_packet_idx = u.next_packet_idx + 1
  BY <1>4, SendingGoesOn
<1>6. PieceOf(TxPacket(u), Whole(d))
  <2>1. (/\ tx.data \in Payloads /\ Sends(tx, TotalLen, tx.data) /\ tx.transfer_id = SlotId
         /\ TxHasMore(tx))'
    BY <1>2
  <2>2. (PieceOf(TxPacket(tx), tx.data))'
    BY <2>1, BuiltPacket, PTL
  <2> QED
    BY <2>2
<1>7. Piece(TxPacket(u)) /\ Tag(TxPacket(u)) = d
  BY <1>6, PieceFacts
<1>8. TransferInv'
  <2>1. BuiltCtx'.next_packet_idx = Built'.packet_idx + 1
    BY <1>1, <1>5
  <2> QED
    BY <1>1, <2>1 DEF TransferInv
<1> QED
  BY <1>1, <1>3, <1>5, <1>7, <1>8

(* A transfer of a script begins with its first packet.                    *)
LEMMA BeginBuilds ==
    ASSUME NEW d \in Data, BeginTransfer(Whole(d))
    PROVE  /\ Sending' /\ TransferInv' /\ txState' = "TRANSCEIVING" /\ txWork'
           /\ Piece(Built') /\ Tag(Built') = d /\ Built'.packet_idx = 0
<1>0. TotalLen \in 0 .. U16 - 1
  BY LengthFits
<1>1. /\ tx' = TxInit(Whole(d), TotalLen, SlotId) /\ pkt' = None
      /\ txState' = "TRANSCEIVING" /\ txWork' = TRUE
  BY DEF BeginTransfer
<1>2. /\ Sends(tx', TotalLen, Whole(d)) /\ tx'.transfer_id = SlotId
      /\ tx'.next_packet_idx = 0
  BY <1>0, <1>1, SendingStarts
<1>3. tx'.data = Whole(d)
  BY <1>2 DEF Sends
<1>4. TxHasMore(tx')
  <2>1. Count \in 1 .. U16 - 1 /\ Count \in Nat
    BY <1>0, CountFacts DEF Count
  <2>2. 0 < Count
    <3> DEFINE last == U16 - 1
    <3> HIDE DEF last
    <3>1. Count \in 1 .. last /\ Count \in Nat
      BY <2>1 DEF last
    <3> QED
      BY <3>1
  <2> QED
    BY <1>2, <2>2 DEF TxHasMore, Sends, Count
<1> QED
  BY <1>1, <1>2, <1>3, <1>4, NextBuilt

(* A packet that is sent stays at its place in the stream.                 *)
LEMMA SentStaysInStream ==
    ASSUME SlotInv, TransferInv, txState = "TRANSCEIVING",
           wire' = Append(wire, Built), UNCHANGED rxq
    PROVE  /\ wire' \in Seq(Packets)
           /\ \A k \in 1 .. Size : At(k)' = At(k)
           /\ Size' = Size + Sent'
<1> DEFINE a == Len(rxq)
           b == Len(wire)
<1>1. /\ a \in Nat /\ b \in Nat /\ Size = a + b + 1 /\ At(Size) = Built
  BY SizeFacts
<1>2. /\ wire' \in Seq(Packets) /\ Len(wire') = b + 1
      /\ \A j \in 1 .. b : wire'[j] = wire[j]
      /\ wire'[b + 1] = Built
  <2>1. Built \in Packets /\ wire \in Seq(Packets)
    BY BuiltFacts DEF SlotInv, Piece, PieceOf
  <2> QED
    BY <2>1, AppendProperties
<1>3. Len(rxq') = a /\ Size' = a + (b + 1) + Sent'
  BY <1>2 DEF Size
<1>4. Sent' \in Nat
  BY DEF Sent
<1>5. ASSUME NEW k \in 1 .. Size PROVE At(k)' = At(k)
  <2>1. At(k)' = IF k <= Len(rxq') THEN rxq'[k]
                 ELSE IF k <= Len(rxq') + Len(wire') THEN wire'[k - Len(rxq')]
                 ELSE Built'
    BY DEF At
  <2> HIDE DEF a, b
  <2>2. CASE k <= a
    BY <1>3, <2>1, <2>2 DEF At, a
  <2>3. CASE ~(k <= a) /\ k <= a + b
    <3>1. k - a \in 1 .. b /\ k <= a + (b + 1)
      BY <1>1, <2>3
    <3>2. At(k)' = wire'[k - a]
      BY <1>2, <1>3, <2>1, <2>3, <3>1
    <3>3. At(k) = wire[k - a]
      BY <2>3 DEF At, a, b
    <3> QED
      BY <1>2, <3>1, <3>2, <3>3
  <2>4. CASE ~(k <= a) /\ ~(k <= a + b)
    <3>1. k = Size /\ k - a = b + 1 /\ k <= a + (b + 1)
      BY <1>1, <2>4
    <3>2. At(k)' = wire'[b + 1]
      BY <1>2, <1>3, <2>1, <2>4, <3>1
    <3> QED
      BY <1>1, <1>2, <3>1, <3>2
  <2> QED
    BY <2>2, <2>3, <2>4
<1> QED
  BY <1>1, <1>2, <1>3, <1>4, <1>5

\* What a run of the transmit work does to the stream, once with what is to
\* be sent next.
WorkStays == StreamStays /\ txState' = "TRANSCEIVING" /\ Built' = Built

WorkGoesOn ==
    /\ StreamGrows /\ txState' = "TRANSCEIVING"
    /\ ~Last(Built) /\ Piece(Built') /\ Follows(Built, Built')

WorkEnds(next) ==
    /\ TransferEnds /\ Last(Built)
    /\ \/ next = None /\ StreamStays /\ txState' = "EMPTY"
       \/ /\ next # None /\ StreamGrows /\ txState' = "TRANSCEIVING"
          /\ Piece(Built') /\ Built'.packet_idx = 0 /\ next = Whole(Tag(Built'))

(* (tx_slot_work_handler)                                                  *)
LEMMA TransmitStream ==
    ASSUME SlotInv, TransferInv, NEW next, TxWork(next),
           next # None => \E d \in Data : next = Whole(d)
    PROVE  /\ SlotInv' /\ TransferInv' /\ txState = "TRANSCEIVING"
           /\ UNCHANGED <<linkVars, rxVars>>
           /\ ~link => wire' = wire
           /\ link => \/ ~TransferEnds /\ (WorkStays \/ WorkGoesOn)
                      \/ WorkEnds(next)
<1>1. txWork /\ UNCHANGED <<linkVars, rxVars>>
  BY DEF TxWork, TxWorkSend, TxWorkNoBuffer, TxWorkError, TxWorkDone
<1>2. txState = "TRANSCEIVING" /\ HasPacket
  BY <1>1 DEF TransferInv
<1>3. /\ Piece(Built) /\ tx.data = Whole(Tag(Built)) /\ Tag(Built) \in Data
      /\ BuiltCtx.data = tx.data /\ Sends(BuiltCtx, TotalLen, tx.data)
      /\ BuiltCtx.transfer_id = SlotId
      /\ TxHasMore(BuiltCtx) <=> ~Last(Built)
      /\ BuiltCtx.next_packet_idx = Built.packet_idx + 1
  BY <1>2, BuiltFacts DEF SlotInv
<1>4. Size \in Nat /\ Len(rxq) \in Nat /\ Len(wire) \in Nat /\ Size = Len(rxq) + Len(wire) + 1
  BY <1>2, SizeFacts
<1>5. SlotInv' <=> Sending' /\ wire' \in Seq(Packets)
  BY <1>1 DEF SlotInv, rxVars
<1>6. ASSUME SlotEmptied(BuiltCtx, next)
      PROVE  /\ Sending' /\ TransferInv'
             /\ \/ next = None /\ txState' = "EMPTY"
                \/ /\ next # None /\ txState' = "TRANSCEIVING"
                   /\ Piece(Built') /\ Built'.packet_idx = 0 /\ next = Whole(Tag(Built'))
  <2>1. CASE next = None
    BY <1>3, <1>6, <2>1 DEF SlotEmptied, Sending, TransferInv, SlotInv
  <2>2. CASE next # None
    <3>1. PICK d \in Data : next = Whole(d)
      BY <2>2
    <3>2. BeginTransfer(Whole(d))
      BY <1>6, <2>2, <3>1 DEF SlotEmptied
    <3> QED
      BY <2>2, <3>1, <3>2, BeginBuilds
  <2> QED
    BY <2>1, <2>2
<1>7. Sent' = IF txState' = "TRANSCEIVING" THEN 1 ELSE 0
  BY DEF Sent
<1>8. CASE TxWorkSend(next)
  <2>1. /\ wire' = Append(wire, Built) /\ UNCHANGED rxq /\ link
        /\ Len(wire) < WireDepth
    BY <1>8 DEF TxWorkSend, rxVars
  <2>2. /\ wire' \in Seq(Packets)
        /\ \A k \in 1 .. Size : At(k)' = At(k)
        /\ Size' = Size + Sent'
    BY <1>2, <2>1, SentStaysInStream
  <2>3. CASE TxHasMore(BuiltCtx)
    <3>1. /\ tx' = BuiltCtx /\ pkt' = None /\ txState' = "TRANSCEIVING" /\ txWork' = TRUE
          /\ ~TransferEnds
      BY <1>1, <1>2, <1>8, <2>1, <2>3 DEF TxWorkSend, TransferEnds
    <3>2. /\ Sending' /\ TransferInv' /\ Piece(Built')
          /\ Tag(Built') = Tag(Built) /\ Built'.packet_idx = Built.packet_idx + 1
      BY <1>3, <2>3, <3>1, NextBuilt
    <3>3. WorkGoesOn
      BY <1>3, <1>7, <2>2, <2>3, <3>1, <3>2 DEF WorkGoesOn, StreamGrows, Follows
    <3> QED
      BY <1>1, <1>2, <1>5, <2>1, <2>2, <3>1, <3>2, <3>3
  <2>4. CASE ~TxHasMore(BuiltCtx)
    <3>1. SlotEmptied(BuiltCtx, next) /\ TransferEnds
      BY <1>8, <2>1, <2>4 DEF TxWorkSend, TransferEnds
    <3>2. WorkEnds(next)
      <4>1. Last(Built)
        BY <1>3, <2>4
      <4>2. CASE next = None
        <5>1. txState' = "EMPTY" /\ Sent' = 0
          BY <1>6, <1>7, <3>1, <4>2
        <5>2. StreamStays
          BY <1>4, <2>2, <5>1 DEF StreamStays
        <5> QED
          BY <3>1, <4>1, <4>2, <5>1, <5>2 DEF WorkEnds
      <4>3. CASE next # None
        <5>1. /\ txState' = "TRANSCEIVING" /\ Sent' = 1
              /\ Piece(Built') /\ Built'.packet_idx = 0 /\ next = Whole(Tag(Built'))
          BY <1>6, <1>7, <3>1, <4>3
        <5>2. StreamGrows
          BY <2>2, <5>1 DEF StreamGrows
        <5> QED
          BY <3>1, <4>1, <4>3, <5>1, <5>2 DEF WorkEnds
      <4> QED
        BY <4>2, <4>3
    <3> QED
      BY <1>1, <1>2, <1>5, <1>6, <2>1, <2>2, <3>1, <3>2
  <2> QED
    BY <2>3, <2>4
<1>9. CASE TxWorkNoBuffer
  <2>1. /\ pkt' = Built /\ tx' = BuiltCtx /\ wire' = wire /\ txState' = txState
        /\ txWork' = txWork /\ link /\ Len(wire) = WireDepth
    BY <1>9 DEF TxWorkNoBuffer
  <2>2. ~TransferEnds
    BY <1>2, <2>1, SlotAssumption DEF TransferEnds
  <2>3. Built \in Packets
    BY <1>3 DEF Piece, PieceOf
  <2>4. pkt' # None
    <3>1. DOMAIN Built # {}
      BY <2>3 DEF Packets
    <3> QED
      BY <2>1, <3>1 DEF None
  <2>5. Built' = Built /\ BuiltCtx' = BuiltCtx /\ HasPacket'
    BY <2>1, <2>4 DEF Built, BuiltCtx, HasPacket
  <2>6. Sending'
    BY <1>3, <2>1 DEF Sending, SlotInv, Piece
  <2>7. TransferInv'
    BY <1>2, <1>3, <2>1, <2>5 DEF TransferInv
  <2>8. StreamStays
    <3>1. Size' = Size
      BY <1>1, <2>1 DEF Size, Sent, rxVars
    <3>2. \A k \in 1 .. Size : At(k)' = At(k)
      BY <1>1, <2>1, <2>5 DEF At, rxVars
    <3> QED
      BY <3>1, <3>2 DEF StreamStays
  <2>9. WorkStays
    BY <1>2, <2>1, <2>5, <2>8 DEF WorkStays
  <2> QED
    BY <1>1, <1>2, <1>5, <2>1, <2>2, <2>6, <2>7, <2>9 DEF SlotInv
<1>10. CASE TxWorkError(next)
  <2>1. SlotEmptied(BuiltCtx, next) /\ ~link /\ wire' = wire
    BY <1>10 DEF TxWorkError
  <2> QED
    BY <1>1, <1>2, <1>5, <1>6, <2>1 DEF SlotInv
<1>11. ~TxWorkDone(next)
  BY <1>2 DEF TxWorkDone
<1> QED
  BY <1>8, <1>9, <1>10, <1>11 DEF TxWork

(* A transfer that begins in an idle slot adds a packet to the stream.     *)
LEMMA BeginStream ==
    ASSUME SlotInv, TransferInv, txState = "EMPTY", NEW d \in Data,
           BeginTransfer(Whole(d)), UNCHANGED <<wire, rxVars>>
    PROVE  /\ SlotInv' /\ TransferInv' /\ StreamGrows /\ txState' = "TRANSCEIVING"
           /\ Piece(Built') /\ Tag(Built') = d /\ Built'.packet_idx = 0
<1>1. /\ Sending' /\ TransferInv' /\ txState' = "TRANSCEIVING"
      /\ Piece(Built') /\ Tag(Built') = d /\ Built'.packet_idx = 0
  BY BeginBuilds
<1>2. Size = Len(rxq) + Len(wire) /\ Len(rxq) \in Nat /\ Len(wire) \in Nat
  BY SizeFacts
<1>3. Size' = Size + 1
  BY <1>1, <1>2 DEF Size, Sent, rxVars
<1>4. \A k \in 1 .. Size : At(k)' = At(k)
  <2> TAKE k \in 1 .. Size
  <2>1. k <= Len(rxq) + Len(wire)
    BY <1>2
  <2> QED
    BY <2>1 DEF At, rxVars
<1> QED
  BY <1>1, <1>3, <1>4 DEF SlotInv, StreamGrows, rxVars


\* What the receiver has of the script whose next packet is p.
Has(p) == HalfWay(rx, SlotId, TotalLen, Whole(Tag(p)), p.packet_idx)

(* While nothing goes wrong the stream is one of whole scripts, and the     *)
(* receiver has what came before its first packet.                         *)
StreamInv ==
    /\ \A k \in 1 .. Size : Piece(At(k))
    /\ \A k \in 1 .. Size - 1 : Follows(At(k), At(k + 1))
    /\ txState = "EMPTY" /\ Size > 0 => Last(At(Size))
    /\ rxState \in {"EMPTY", "RECEIVING", "READY"}
    /\ rxState = "RECEIVING" => Size > 0 /\ At(1).packet_idx # 0 /\ Has(At(1))
    /\ rxState # "RECEIVING" /\ Size > 0 => At(1).packet_idx = 0

(* A stream that stays as it is.                                           *)
LEMMA StayingStream ==
    ASSUME SlotInv, StreamInv, StreamStays,
           txState' = "EMPTY" /\ Size > 0 => Last(At(Size)),
           \/ UNCHANGED <<rxState, rx>>
           \/ rxState # "RECEIVING" /\ rxState' = "EMPTY"
    PROVE  StreamInv'
<1>0. PICK n \in Nat : n = Size
  BY SizeFacts
<1>1. n \in Nat /\ Size' = n /\ \A k \in 1 .. n : At(k)' = At(k)
  BY <1>0 DEF StreamStays
<1>2. n > 0 => 1 \in 1 .. n /\ n \in 1 .. n
  BY <1>1
<1>3. n > 0 => At(1)' = At(1)
  BY <1>1, <1>2
<1>4. (\A k \in 1 .. Size : Piece(At(k)))'
  <2>1. \A k \in 1 .. n : Piece(At(k))
    BY <1>0 DEF StreamInv
  <2> QED
    BY <1>1, <2>1 DEF Piece, Tag, PieceOf
<1>5. (\A k \in 1 .. Size - 1 : Follows(At(k), At(k + 1)))'
  <2>1. ASSUME NEW k \in 1 .. n - 1 PROVE Follows(At(k), At(k + 1))'
    <3>1. k \in 1 .. n /\ k + 1 \in 1 .. n
      BY <1>1, <2>1
    <3>2. At(k)' = At(k) /\ At(k + 1)' = At(k + 1)
      BY <1>1, <3>1
    <3>3. Follows(At(k), At(k + 1))
      BY <1>0, <2>1 DEF StreamInv
    <3> QED
      BY <3>2, <3>3 DEF Follows, Last, Tag
  <2> QED
    BY <1>1, <2>1
<1>6. (txState = "EMPTY" /\ Size > 0 => Last(At(Size)))'
  <2> SUFFICES ASSUME txState' = "EMPTY", Size' > 0 PROVE Last(At(Size))'
    OBVIOUS
  <2>1. n > 0 /\ n \in 1 .. n
    BY <1>1, <1>2
  <2>2. At(Size)' = At(n)'
    BY <1>1 DEF At
  <2>3. At(Size)' = At(Size)
    BY <1>0, <1>1, <2>1, <2>2
  <2>4. Last(At(Size))
    BY <1>0, <1>1, <2>1
  <2> QED
    BY <2>3, <2>4 DEF Last
<1> QED
  BY <1>0, <1>1, <1>3, <1>4, <1>5, <1>6 DEF StreamInv, Has, Tag

(* A stream that grows by the packet that is sent next.                    *)
LEMMA GrowingStream ==
    ASSUME SlotInv, SlotInv', TransferInv, StreamInv, StreamGrows, UNCHANGED <<rxState, rx>>,
           txState' = "TRANSCEIVING", Piece(Built'),
           IF txState = "TRANSCEIVING" THEN Follows(Built, Built') ELSE Built'.packet_idx = 0
    PROVE  StreamInv' /\ At(Size)' = Built'
<1>0. PICK n \in Nat : n = Size
  BY SizeFacts
<1>1. /\ Size' = n + 1 /\ \A k \in 1 .. n : At(k)' = At(k)
      /\ txState = "TRANSCEIVING" => n > 0 /\ At(n) = Built
      /\ txState \in {"EMPTY", "TRANSCEIVING"}
  BY <1>0, SizeFacts DEF StreamGrows, TransferInv
<1>2. At(Size)' = Built' /\ At(n + 1)' = Built'
  <2>1. (txState = "TRANSCEIVING" => Size > 0 /\ At(Size) = Built)'
    BY SizeFacts, PTL
  <2>2. At(Size)' = At(n + 1)'
    BY <1>1 DEF At
  <2> QED
    BY <2>1, <2>2
<1>3. n > 0 => 1 \in 1 .. n /\ n \in 1 .. n
  BY <1>0
<1>4. Built' = At(n + 1)' /\ Piece(At(n + 1)') /\ (n = 0 => Built'.packet_idx = 0)
  <2>1. n = 0 => txState # "TRANSCEIVING"
    BY <1>1
  <2> QED
    BY <1>2, <2>1
<1>5. n > 0 => Follows(At(n), Built')
  <2>1. CASE txState = "TRANSCEIVING"
    BY <1>1, <2>1
  <2>2. CASE txState = "EMPTY"
    <3>1. n > 0 => Last(At(n))
      BY <1>0, <2>2 DEF StreamInv
    <3> QED
      BY <2>2, <3>1 DEF Follows
  <2> QED
    BY <1>1, <2>1, <2>2
<1>6. (\A k \in 1 .. Size : Piece(At(k)))'
  <2>1. ASSUME NEW k \in 1 .. n + 1 PROVE Piece(At(k)')
    <3>1. CASE k \in 1 .. n
      <4>1. Piece(At(k)) /\ At(k)' = At(k)
        BY <1>0, <1>1, <3>1 DEF StreamInv
      <4> QED
        BY <4>1
    <3>2. CASE k = n + 1
      BY <1>4, <3>2
    <3> QED
      BY <1>0, <2>1, <3>1, <3>2
  <2> QED
    BY <1>1, <2>1 DEF Piece, Tag, PieceOf
<1>7. (\A k \in 1 .. Size - 1 : Follows(At(k), At(k + 1)))'
  <2>1. ASSUME NEW k \in 1 .. n PROVE Follows(At(k), At(k + 1))'
    <3>1. At(k)' = At(k)
      BY <1>1
    <3>2. CASE k = n
      <4>1. At(k + 1)' = Built' /\ Follows(At(k), Built')
        BY <1>0, <1>4, <1>5, <2>1, <3>2
      <4> QED
        BY <3>1, <4>1 DEF Follows, Last, Tag
    <3>3. CASE k # n
      <4>1. k \in 1 .. n - 1 /\ k + 1 \in 1 .. n
        BY <1>0, <2>1, <3>3
      <4>2. At(k + 1)' = At(k + 1) /\ Follows(At(k), At(k + 1))
        BY <1>0, <1>1, <4>1 DEF StreamInv
      <4> QED
        BY <3>1, <4>2 DEF Follows, Last, Tag
    <3> QED
      BY <3>2, <3>3
  <2>2. Size' - 1 = n
    BY <1>0, <1>1
  <2> QED
    BY <2>1, <2>2
<1>8. At(1)' = IF n = 0 THEN Built' ELSE At(1)
  <2>1. CASE n = 0
    <3>1. n + 1 = 1
      BY <2>1
    <3> QED
      BY <1>2, <2>1, <3>1
  <2>2. CASE n # 0
    BY <1>0, <1>1, <1>3, <2>2
  <2> QED
    BY <2>1, <2>2
<1>9. (/\ rxState = "RECEIVING" => Size > 0 /\ At(1).packet_idx # 0 /\ Has(At(1))
       /\ rxState # "RECEIVING" /\ Size > 0 => At(1).packet_idx = 0)'
  BY <1>0, <1>1, <1>4, <1>8 DEF StreamInv, Has, Tag
<1> QED
  BY <1>2, <1>6, <1>7, <1>9 DEF StreamInv

(* A packet that arrives moves on within the stream, if rx_msgq has room.  *)
LEMMA ArrivingStream ==
    ASSUME SlotInv, Arrive, Len(rxq) < RxDepth
    PROVE  StreamStays
<1>0. /\ wire # << >> /\ wire' = Tail(wire) /\ rxq' = Append(rxq, Head(wire))
      /\ UNCHANGED txVars
  BY DEF Arrive
<1>1. wire \in Seq(Packets) /\ rxq \in Seq(Packets)
  BY DEF SlotInv
<1>2. PICK a \in Nat, b \in Nat : a = Len(rxq) /\ b = Len(wire)
  BY <1>1, LenProperties
<1>3. /\ b > 0 /\ Len(wire') = b - 1 /\ Head(wire) = wire[1] /\ Head(wire) \in Packets
      /\ \A i \in 1 .. b - 1 : wire'[i] = wire[i + 1]
  BY <1>0, <1>1, <1>2, HeadTailProperties, TailOfPackets, EmptySeq, LenProperties
<1>4. /\ Len(rxq') = a + 1 /\ \A i \in 1 .. a : rxq'[i] = rxq[i]
      /\ rxq'[a + 1] = wire[1]
  BY <1>0, <1>1, <1>2, <1>3, AppendProperties
<1>5. Sent' = Sent /\ Built' = Built /\ Sent \in Nat
  BY <1>0 DEF txVars, Sent, Built
<1>6. Size = a + b + Sent /\ Size' = (a + 1) + (b - 1) + Sent
  BY <1>2, <1>3, <1>4, <1>5 DEF Size
<1>7. Size' = Size
  BY <1>5, <1>6
<1>8. ASSUME NEW k \in 1 .. Size PROVE At(k)' = At(k)
  <2>1. At(k)' = IF k <= a + 1 THEN rxq'[k]
                 ELSE IF k <= (a + 1) + (b - 1) THEN wire'[k - (a + 1)]
                 ELSE Built
    BY <1>3, <1>4, <1>5 DEF At
  <2>2. At(k) = IF k <= a THEN rxq[k] ELSE IF k <= a + b THEN wire[k - a] ELSE Built
    BY <1>2 DEF At
  <2>3. k \in Nat /\ k >= 1
    BY <1>5, <1>6
  <2>4. CASE k <= a
    BY <1>4, <2>1, <2>2, <2>3, <2>4
  <2>5. CASE k = a + 1
    <3>1. k - a = 1 /\ ~(k <= a) /\ k <= a + b
      BY <1>3, <2>5
    <3> QED
      BY <1>4, <2>1, <2>2, <2>5, <3>1
  <2>6. CASE k > a + 1 /\ k <= a + b
    <3>1. k - (a + 1) \in 1 .. b - 1 /\ k - (a + 1) + 1 = k - a
      BY <2>3, <2>6
    <3>2. wire'[k - (a + 1)] = wire[k - a]
      BY <1>3, <3>1
    <3>3. ~(k <= a + 1) /\ ~(k <= a) /\ k <= (a + 1) + (b - 1)
      BY <2>3, <2>6
    <3> QED
      BY <2>1, <2>2, <2>6, <3>2, <3>3
  <2>7. CASE k > a + b
    <3>1. ~(k <= a + 1) /\ ~(k <= a) /\ ~(k <= a + b) /\ ~(k <= (a + 1) + (b - 1))
      BY <1>3, <2>3, <2>7
    <3> QED
      BY <2>1, <2>2, <3>1
  <2> QED
    BY <2>3, <2>4, <2>5, <2>6, <2>7
<1> QED
  BY <1>7, <1>8 DEF StreamStays

(* One that is taken out of rx_msgq leaves the stream.                     *)
LEMMA LeavingStream ==
    ASSUME SlotInv, RxWorkPop
    PROVE  /\ StreamLosesHead /\ At(1) = Head(rxq) /\ Size > 0
           /\ txState # "TRANSCEIVING" \/ Size > 1
<1>0. rxq # << >> /\ rxq' = Tail(rxq) /\ UNCHANGED <<txVars, wire>>
  BY DEF RxWorkPop
<1>1. wire \in Seq(Packets) /\ rxq \in Seq(Packets)
  BY DEF SlotInv
<1>2. PICK a \in Nat, b \in Nat : a = Len(rxq) /\ b = Len(wire)
  BY <1>1, LenProperties
<1>3. /\ a > 0 /\ Len(rxq') = a - 1 /\ Head(rxq) = rxq[1]
      /\ \A i \in 1 .. a - 1 : rxq'[i] = rxq[i + 1]
  BY <1>0, <1>1, <1>2, HeadTailProperties, EmptySeq, LenProperties
<1>5. /\ Sent' = Sent /\ Built' = Built /\ Sent \in Nat
      /\ txState = "TRANSCEIVING" => Sent = 1
  BY <1>0 DEF txVars, Sent, Built
<1>6. Size = a + b + Sent /\ Size' = (a - 1) + b + Sent
  BY <1>0, <1>2, <1>3, <1>5 DEF Size
<1>7. Size' = Size - 1 /\ Size > 0 /\ (txState # "TRANSCEIVING" \/ Size > 1)
  BY <1>3, <1>5, <1>6
<1>8. ASSUME NEW k \in 1 .. Size - 1 PROVE At(k)' = At(k + 1)
  <2>1. At(k)' = IF k <= a - 1 THEN rxq'[k]
                 ELSE IF k <= (a - 1) + b THEN wire[k - (a - 1)]
                 ELSE Built
    BY <1>0, <1>2, <1>3, <1>5 DEF At
  <2>2. At(k + 1) = IF k + 1 <= a THEN rxq[k + 1]
                    ELSE IF k + 1 <= a + b THEN wire[(k + 1) - a] ELSE Built
    BY <1>2 DEF At
  <2>3. k \in Nat /\ k >= 1
    BY <1>5, <1>6
  <2>4. (k + 1) - a = k - (a - 1) /\ (k + 1 <= a <=> k <= a - 1)
        /\ (k + 1 <= a + b <=> k <= (a - 1) + b)
        /\ (k <= a - 1 => k \in 1 .. a - 1)
    BY <2>3
  <2> QED
    BY <1>3, <2>1, <2>2, <2>4
<1>9. At(1) = Head(rxq)
  <2>1. 1 <= Len(rxq)
    BY <1>2, <1>3
  <2> QED
    BY <1>3, <2>1 DEF At
<1> QED
  BY <1>7, <1>8, <1>9 DEF StreamLosesHead

(* (The context of an empty slot is initialised for the next transfer.)    *)
LEMMA FreshContext ==
    ASSUME SlotInv
    PROVE  RxContext(Fresh(rx.buffer)) /\ ~Fresh(rx.buffer).active
<1> DEFINE bits == IF OutOfOrder THEN 32 ELSE 0
<1>1. DOMAIN rx.buffer = 0 .. TotalLen - 1 /\ TotalLen \in Nat
  BY LengthFits DEF SlotInv, Payloads, Offsets
<1>2. Fresh(rx.buffer) = RxInit(rx.buffer, TotalLen, OutOfOrder, bits)
  BY DEF Fresh
<1> HIDE DEF bits
<1> QED
  BY <1>1, <1>2 DEF RxInit, RxContext, RxFields

(* A packet of the stream that is not refused goes on with its script, and *)
(* the last one completes it (splitlink_sync_protocol_on_receive).         *)
LEMMA PoppedStream ==
    ASSUME SlotInv, SlotInv', TransferInv, StreamInv, RxWorkPop,
           rxState # "READY", rxState' # "EMPTY"
    PROVE  /\ StreamInv' /\ StreamLosesHead /\ Size > 0
           /\ IF Last(At(1)) THEN rxState' = "READY" /\ rx'.buffer = Whole(Tag(At(1)))
              ELSE rxState' = "RECEIVING"
<1> DEFINE p == At(1)
           d == Tag(p)
           k == p.packet_idx
           r == IF rxState = "EMPTY" THEN Fresh(rx.buffer) ELSE rx
           push == RxPushPacket(r, p)
<1>0. PICK n \in Nat : n = Size
  BY SizeFacts
<1>1. /\ StreamLosesHead /\ p = Head(rxq) /\ n > 0
      /\ txState # "TRANSCEIVING" \/ n > 1
      /\ OnReceive(p) /\ UNCHANGED txVars
  BY <1>0, LeavingStream DEF RxWorkPop
<1>2. /\ Piece(p) /\ d \in Data /\ PartOf(p, TotalLen, Whole(d))
      /\ k \in 0 .. Count - 1 /\ p.transfer_id = SlotId
  <2>1. Piece(p)
    BY <1>0, <1>1 DEF StreamInv
  <2> QED
    BY <2>1, PieceFacts DEF Piece
<1>3. /\ RxContext(r)
      /\ (k = 0 /\ ~r.active) \/ HalfWay(r, p.transfer_id, TotalLen, Whole(d), k)
  <2>1. CASE rxState = "EMPTY"
    BY <1>0, <1>1, <2>1, FreshContext DEF StreamInv
  <2>2. CASE rxState = "RECEIVING"
    BY <1>2, <2>2 DEF StreamInv, Has, SlotInv
  <2> QED
    BY <2>1, <2>2 DEF StreamInv
<1> HIDE DEF p, d, k, r
<1>4. /\ push.res \notin RxErrors /\ rx' = push.rx
      /\ rxState' = IF push.res = "COMPLETE" THEN "READY" ELSE "RECEIVING"
  <2> HIDE DEF push
  <2> QED
    BY <1>1 DEF OnReceive, push, r
<1>5. /\ k # Count - 1 => /\ push.res = "ACCEPTED"
                          /\ HalfWay(push.rx, p.transfer_id, TotalLen, Whole(d), k + 1)
      /\ k = Count - 1 => push.res = "COMPLETE"
                          /\ \A i \in 0 .. TotalLen - 1 : push.rx.buffer[i] = Whole(d)[i]
  <2>1. TotalLen \in 0 .. U16 - 1
    BY LengthFits
  <2> QED
    BY <1>2, <1>3, <1>4, <2>1, PushInTurn DEF Count, k
<1> HIDE DEF push
<1>6. /\ Last(p) => rxState' = "READY" /\ rx'.buffer = Whole(d)
      /\ ~Last(p) => /\ rxState' = "RECEIVING"
                     /\ HalfWay(rx', SlotId, TotalLen, Whole(d), k + 1)
  <2>1. rx'.buffer \in Payloads
    BY DEF SlotInv
  <2>2. (\A i \in 0 .. TotalLen - 1 : rx'.buffer[i] = Whole(d)[i]) => rx'.buffer = Whole(d)
    BY <2>1 DEF Payloads, Whole, Offsets
  <2>3. Last(p) <=> k = Count - 1
    BY DEF Last, k
  <2>4. Last(p) => rxState' = "READY" /\ rx'.buffer = Whole(d)
    BY <1>4, <1>5, <2>2, <2>3
  <2> QED
    BY <1>2, <1>4, <1>5, <2>3, <2>4
<1>7. /\ Size' = n - 1 /\ \A j \in 1 .. n - 1 : At(j)' = At(j + 1)
  BY <1>0, <1>1 DEF StreamLosesHead
<1>8. n > 1 => Follows(p, At(2)) /\ At(1)' = At(2)
  <2>1. n > 1 => 1 \in 1 .. n - 1
    BY <1>0
  <2>2. 1 + 1 = 2
    OBVIOUS
  <2> QED
    BY <1>0, <1>7, <2>1, <2>2 DEF StreamInv, p
<1>9. n = 1 => Last(p)
  BY <1>0, <1>1 DEF StreamInv, TransferInv, p
<1>10. (\A j \in 1 .. Size : Piece(At(j)))'
  <2>1. ASSUME NEW j \in 1 .. n - 1 PROVE Piece(At(j)')
    <3>1. j + 1 \in 1 .. n
      BY <1>0, <2>1
    <3> QED
      BY <1>0, <1>7, <2>1, <3>1 DEF StreamInv
  <2> QED
    BY <1>7, <2>1 DEF Piece, Tag, PieceOf
<1>11. (\A j \in 1 .. Size - 1 : Follows(At(j), At(j + 1)))'
  <2>1. ASSUME NEW j \in 1 .. (n - 1) - 1 PROVE Follows(At(j), At(j + 1))'
    <3>1. j \in 1 .. n - 1 /\ j + 1 \in 1 .. n - 1
      BY <1>0, <2>1
    <3>2. At(j)' = At(j + 1) /\ At(j + 1)' = At((j + 1) + 1)
      BY <1>7, <3>1
    <3>3. Follows(At(j + 1), At((j + 1) + 1))
      BY <1>0, <3>1 DEF StreamInv
    <3> QED
      BY <3>2, <3>3 DEF Follows, Last, Tag
  <2> QED
    BY <1>7, <2>1
<1>12. (txState = "EMPTY" /\ Size > 0 => Last(At(Size)))'
  <2> SUFFICES ASSUME txState' = "EMPTY", Size' > 0 PROVE Last(At(Size))'
    OBVIOUS
  <2>1. n - 1 > 0 /\ n - 1 \in 1 .. n - 1 /\ (n - 1) + 1 = n
    BY <1>0, <1>7
  <2>2. At(Size)' = At(n - 1)'
    BY <1>7 DEF At
  <2>3. At(Size)' = At(n)
    BY <1>7, <2>1, <2>2
  <2>4. Last(At(n))
    BY <1>0, <1>1, <2>1 DEF StreamInv, txVars
  <2> QED
    BY <2>3, <2>4 DEF Last
<1>13. rxState' = "RECEIVING" => (Size > 0 /\ At(1).packet_idx # 0 /\ Has(At(1)))'
  <2> SUFFICES ASSUME rxState' = "RECEIVING"
               PROVE  Size' > 0 /\ At(1)'.packet_idx # 0 /\ Has(At(1))'
    OBVIOUS
  <2>1. ~Last(p)
    BY <1>6
  <2>2. n > 1 /\ At(1)' = At(2) /\ At(2).packet_idx = k + 1 /\ Tag(At(2)) = d
    BY <1>0, <1>1, <1>8, <1>9, <2>1 DEF Follows, k, d
  <2>3. k + 1 # 0 /\ Size' > 0
    BY <1>0, <1>2, <1>7, <2>2
  <2>4. HalfWay(rx', SlotId, TotalLen, Whole(Tag(At(2))), At(2).packet_idx)
    BY <1>6, <2>1, <2>2
  <2> QED
    BY <2>2, <2>3, <2>4 DEF Has, Tag
<1>14. rxState' # "RECEIVING" /\ Size' > 0 => At(1)'.packet_idx = 0
  BY <1>0, <1>6, <1>7, <1>8 DEF Follows
<1>15. StreamInv'
  <2>1. rxState' \in {"EMPTY", "RECEIVING", "READY"}
    BY <1>4
  <2> QED
    BY <1>10, <1>11, <1>12, <1>13, <1>14, <2>1 DEF StreamInv
<1> QED
  BY <1>0, <1>1, <1>6, <1>15 DEF p, d

-----------------------------------------------------------------------------
(* Where the newest script of a slot is on its way *)

\* From its k-th packet on the stream has nothing older of slot s.
NewFrom(s, k) ==
    \A j \in 1 .. Size : j >= k /\ SlotOf(Tag(At(j))) = s => Tag(At(j)) = New(s)

\* The last packet of the newest script is in the stream.
Moves(s) == \E k \in 1 .. Size : Last(At(k)) /\ Tag(At(k)) = New(s) /\ NewFrom(s, k)

\* What is received and not yet handed over is that script, or another slot's.
ReadyIsNew(s) == rxState = "READY" /\ SlotOf(rx.buffer[0]) = s => rx.buffer = Whole(New(s))

Received(s) == rxState = "READY" /\ rx.buffer = Whole(New(s)) /\ NewFrom(s, 1)

\* Nothing older of slot s can reach the slave.
NothingOlder(s) == NewFrom(s, 1) /\ ReadyIsNew(s)

\* The manifest says of a slot what the master has there.
Announced(s) ==
    \/ manifestTx # None /\ manifestTx.data[s] = version[s]
    \/ manifestRx.state = "READY" /\ manifestRx.rx.buffer[s] = version[s]

\* The slave has the newest script of slot s, or will get it.
Comes(s) ==
    \/ s \in marks /\ txState = "TRANSCEIVING"
    \/ s \in request
    \/ txState = "TRANSCEIVING" /\ Tag(Built) = New(s)
    \/ Moves(s) \/ Received(s)
    \/ (scripts[s] = Whole(New(s)) \/ Announced(s)) /\ NothingOlder(s)

(* What is on its way goes on, if what the stream grows by is no older.    *)
LEMMA StreamMovesOn ==
    ASSUME NEW s \in Slots, SlotInv, New(s)' = New(s),
           \/ StreamStays
           \/ /\ StreamGrows
              /\ (SlotOf(Tag(At(Size))) = s => Tag(At(Size)) = New(s))'
    PROVE  (Moves(s) => Moves(s)') /\ (NewFrom(s, 1) => NewFrom(s, 1)')
<1>0. PICK n \in Nat : n = Size
  BY SizeFacts
<1>1. PICK m \in Nat : m = Size' /\ m \in {n, n + 1}
  BY <1>0 DEF StreamStays, StreamGrows
<1>2. \A j \in 1 .. n : At(j)' = At(j)
  BY <1>0 DEF StreamStays, StreamGrows
<1>3. m = n + 1 => (SlotOf(Tag(At(m)')) = s => Tag(At(m)') = New(s))
  <2> SUFFICES ASSUME m = n + 1 PROVE SlotOf(Tag(At(m)')) = s => Tag(At(m)') = New(s)
    OBVIOUS
  <2>1. (SlotOf(Tag(At(Size))) = s => Tag(At(Size)) = New(s))'
    BY <1>0, <1>1 DEF StreamStays
  <2>2. At(Size)' = At(m)'
    BY <1>1 DEF At
  <2> QED
    BY <2>1, <2>2 DEF SlotOf, Tag
<1>4. ASSUME NEW k \in Nat, NewFrom(s, k) PROVE NewFrom(s, k)'
  <2>1. ASSUME NEW j \in 1 .. m, j >= k, SlotOf(Tag(At(j)')) = s
        PROVE  Tag(At(j)') = New(s)
    <3>1. CASE j \in 1 .. n
      <4>1. At(j)' = At(j)
        BY <1>2, <3>1
      <4> QED
        BY <1>0, <1>4, <2>1, <3>1, <4>1 DEF NewFrom
    <3>2. CASE j \notin 1 .. n
      <4>1. j = m /\ m = n + 1
        BY <1>1, <2>1, <3>2
      <4> QED
        BY <1>3, <2>1, <4>1
    <3> QED
      BY <3>1, <3>2
  <2> QED
    BY <1>1, <2>1 DEF NewFrom, Tag, SlotOf
<1>5. ASSUME Moves(s) PROVE Moves(s)'
  <2>1. PICK k \in 1 .. n : Last(At(k)) /\ Tag(At(k)) = New(s) /\ NewFrom(s, k)
    BY <1>0, <1>5 DEF Moves
  <2>2. k \in Nat /\ k \in 1 .. m /\ At(k)' = At(k)
    BY <1>1, <1>2, <2>1
  <2>3. Last(At(k))' /\ (Tag(At(k)) = New(s))' /\ NewFrom(s, k)'
    BY <1>4, <2>1, <2>2 DEF Last, Tag
  <2> QED
    BY <1>1, <2>2, <2>3 DEF Moves
<1> QED
  BY <1>4, <1>5

(* A packet that is taken out of rx_msgq goes on with what is on its way.  *)
LEMMA PoppedMovesOn ==
    ASSUME NEW s \in Slots, SlotInv, SlotInv', TransferInv, StreamInv, RxWorkPop,
           rxState # "READY", rxState' # "EMPTY", version[s] \in 0 .. MaxUpdates,
           UNCHANGED version
    PROVE  /\ Moves(s) => Moves(s)' \/ Received(s)'
           /\ NothingOlder(s) => NothingOlder(s)'
<1>0. PICK n \in Nat : n = Size
  BY SizeFacts
<1>1. /\ n > 0 /\ Size' = n - 1 /\ \A j \in 1 .. n - 1 : At(j)' = At(j + 1)
      /\ IF Last(At(1)) THEN rxState' = "READY" /\ rx'.buffer = Whole(Tag(At(1)))
         ELSE rxState' = "RECEIVING"
  BY <1>0, PoppedStream DEF StreamLosesHead
<1>2. New(s)' = New(s) /\ New(s) \in Data /\ SlotOf(New(s)) = s
  BY DatumIsData, DatumHasSlot DEF New
<1>3. ASSUME NEW k \in Nat, NewFrom(s, k) PROVE NewFrom(s, k - 1)'
  <2>1. ASSUME NEW j \in 1 .. n - 1, j >= k - 1, SlotOf(Tag(At(j)')) = s
        PROVE  Tag(At(j)') = New(s)
    <3>1. j + 1 \in 1 .. n /\ j + 1 >= k /\ At(j)' = At(j + 1)
      BY <1>0, <1>1, <2>1
    <3> QED
      BY <1>0, <1>3, <2>1, <3>1 DEF NewFrom
  <2> QED
    BY <1>1, <1>2, <2>1 DEF NewFrom, Tag, SlotOf
<1>4. ASSUME NewFrom(s, 1) PROVE NewFrom(s, 1)'
  <2>1. NewFrom(s, 0)'
    <3>1. NewFrom(s, 1 - 1)'
      BY <1>3, <1>4
    <3> QED
      BY <3>1
  <2> QED
    BY <1>0, <1>1, <2>1 DEF NewFrom
<1>5. ASSUME Moves(s) PROVE Moves(s)' \/ Received(s)'
  <2>1. PICK k \in 1 .. n : Last(At(k)) /\ Tag(At(k)) = New(s) /\ NewFrom(s, k)
    BY <1>0, <1>5 DEF Moves
  <2>2. CASE k = 1
    <3>1. NewFrom(s, 1)' /\ rxState' = "READY" /\ rx'.buffer = Whole(New(s))
      BY <1>1, <1>4, <2>1, <2>2
    <3> QED
      BY <1>2, <3>1 DEF Received
  <2>3. CASE k # 1
    <3>1. k - 1 \in 1 .. n - 1 /\ (k - 1) + 1 = k /\ k \in Nat
      BY <1>0, <2>1, <2>3
    <3>2. At(k - 1)' = At(k)
      BY <1>1, <3>1
    <3>3. NewFrom(s, k - 1)'
      BY <1>3, <2>1, <3>1
    <3>4. Last(At(k - 1))' /\ (Tag(At(k - 1)) = New(s))'
      BY <1>2, <2>1, <3>2 DEF Last, Tag
    <3> QED
      BY <1>1, <3>1, <3>3, <3>4 DEF Moves
  <2> QED
    BY <2>2, <2>3
<1>6. ASSUME NothingOlder(s) PROVE ReadyIsNew(s)'
  <2> SUFFICES ASSUME rxState' = "READY", SlotOf(rx'.buffer[0]) = s
               PROVE  rx'.buffer = Whole(New(s))
    BY <1>2 DEF ReadyIsNew
  <2>1. rx'.buffer = Whole(Tag(At(1)))
    BY <1>1
  <2>2. 0 \in Offsets
    BY LengthFits, SlotAssumption DEF Offsets
  <2>3. SlotOf(Tag(At(1))) = s
    BY <2>1, <2>2 DEF Whole
  <2>4. 1 \in 1 .. n /\ 1 >= 1
    BY <1>0, <1>1
  <2>5. Tag(At(1)) = New(s)
    BY <1>0, <1>6, <2>3, <2>4 DEF NothingOlder, NewFrom
  <2> QED
    BY <2>1, <2>5
<1> QED
  BY <1>4, <1>5, <1>6 DEF NothingOlder

\* What the sender can do to the stream.
SenderStays  == StreamStays /\ txState' = txState /\ Built' = Built
SenderGoesOn == txState = "TRANSCEIVING" /\ WorkGoesOn
SenderEnds   == StreamStays /\ txState = "TRANSCEIVING" /\ Last(Built) /\ txState' = "EMPTY"
SenderBegins ==
    /\ StreamGrows /\ txState' = "TRANSCEIVING"
    /\ txState = "TRANSCEIVING" => Last(Built)
    /\ Piece(Built') /\ Built'.packet_idx = 0

SenderMoves == SenderStays \/ SenderGoesOn \/ SenderEnds \/ SenderBegins

(* (The stream stays one of whole scripts.)                                *)
LEMMA SentStream ==
    ASSUME SlotInv, SlotInv', TransferInv, StreamInv, UNCHANGED <<rxState, rx>>, SenderMoves
    PROVE  StreamInv' /\ (SenderGoesOn \/ SenderBegins => At(Size)' = Built')
<1>1. /\ txState \in {"EMPTY", "TRANSCEIVING"}
      /\ txState = "TRANSCEIVING" => Size > 0 /\ At(Size) = Built
  BY SizeFacts DEF TransferInv
<1>2. CASE SenderStays \/ SenderEnds
  <2>1. txState' = "EMPTY" /\ Size > 0 => Last(At(Size))
    BY <1>1, <1>2 DEF SenderStays, SenderEnds, StreamInv
  <2>2. StreamStays
    BY <1>2 DEF SenderStays, SenderEnds
  <2>3. StreamInv'
    BY <2>1, <2>2, StayingStream
  <2>4. ~(SenderGoesOn \/ SenderBegins)
    <3>1. Size \in Nat /\ Size' = Size
      BY <2>2, SizeFacts DEF StreamStays
    <3>2. PICK n \in Nat : n = Size
      BY <3>1
    <3>3. Size' # Size + 1
      BY <3>1, <3>2
    <3> QED
      BY <3>3 DEF SenderGoesOn, SenderBegins, WorkGoesOn, StreamGrows
  <2> QED
    BY <2>3, <2>4
<1>3. CASE SenderGoesOn
  BY <1>3, GrowingStream DEF SenderGoesOn, WorkGoesOn
<1>4. CASE SenderBegins
  <2>1. IF txState = "TRANSCEIVING" THEN Follows(Built, Built') ELSE Built'.packet_idx = 0
    BY <1>4 DEF SenderBegins, Follows
  <2> QED
    BY <1>4, <2>1, GrowingStream DEF SenderBegins
<1> QED
  BY <1>2, <1>3, <1>4 DEF SenderMoves

(* The newest script of a slot stays on its way, if what begins is no      *)
(* older.                                                                  *)
LEMMA SentMovesOn ==
    ASSUME NEW s \in Slots, SlotInv, SlotInv', TransferInv, StreamInv,
           UNCHANGED <<rxState, rx>>, New(s)' = New(s), SenderMoves,
           SenderBegins => (SlotOf(Tag(Built')) = s => Tag(Built') = New(s))
    PROVE  /\ txState = "TRANSCEIVING" /\ Tag(Built) = New(s) =>
                 Moves(s)' \/ (txState' = "TRANSCEIVING" /\ Tag(Built') = New(s))
           /\ Moves(s) => Moves(s)'
           /\ Received(s) => Received(s)'
           /\ NothingOlder(s) => NothingOlder(s)'
<1>0. PICK n \in Nat : n = Size
  BY SizeFacts
<1>1. /\ txState = "TRANSCEIVING" => Sent = 1 /\ n > 0 /\ At(n) = Built
      /\ SenderGoesOn \/ SenderBegins => At(Size)' = Built'
  BY <1>0, SizeFacts, SentStream
<1>2. ASSUME SenderGoesOn \/ SenderBegins
      PROVE  StreamGrows /\ (NewFrom(s, 1) \/ Moves(s) =>
                               (SlotOf(Tag(Built')) = s => Tag(Built') = New(s)))
  <2>1. CASE SenderBegins
    BY <2>1 DEF SenderBegins
  <2>2. CASE SenderGoesOn
    <3>1. n > 0 /\ At(n) = Built /\ Tag(Built') = Tag(Built) /\ n \in 1 .. n
      BY <1>0, <1>1, <2>2 DEF SenderGoesOn, WorkGoesOn, Follows
    <3>2. NewFrom(s, 1) => (SlotOf(Tag(Built)) = s => Tag(Built) = New(s))
      BY <1>0, <3>1 DEF NewFrom
    <3>3. Moves(s) => (SlotOf(Tag(Built)) = s => Tag(Built) = New(s))
      <4> SUFFICES ASSUME Moves(s) PROVE SlotOf(Tag(Built)) = s => Tag(Built) = New(s)
        OBVIOUS
      <4>1. PICK k \in 1 .. n : NewFrom(s, k)
        BY <1>0 DEF Moves
      <4>2. n >= k
        BY <1>0, <4>1
      <4> QED
        BY <1>0, <3>1, <4>1, <4>2 DEF NewFrom
    <3> QED
      BY <2>2, <3>1, <3>2, <3>3 DEF SenderGoesOn, WorkGoesOn
  <2> QED
    BY <1>2, <2>1, <2>2
<1>3. NewFrom(s, 1) => NewFrom(s, 1)'
  <2> SUFFICES ASSUME NewFrom(s, 1) PROVE NewFrom(s, 1)'
    OBVIOUS
  <2>1. CASE StreamStays
    BY <2>1, StreamMovesOn
  <2>2. CASE SenderGoesOn \/ SenderBegins
    <3>1. (SlotOf(Tag(At(Size))) = s => Tag(At(Size)) = New(s))'
      BY <1>1, <1>2, <2>2 DEF SlotOf, Tag
    <3> QED
      BY <1>2, <2>2, <3>1, StreamMovesOn
  <2> QED
    BY <2>1, <2>2 DEF SenderMoves, SenderStays, SenderEnds
<1>4. Moves(s) => Moves(s)'
  <2> SUFFICES ASSUME Moves(s) PROVE Moves(s)'
    OBVIOUS
  <2>1. CASE StreamStays
    BY <2>1, StreamMovesOn
  <2>2. CASE SenderGoesOn \/ SenderBegins
    <3>1. (SlotOf(Tag(At(Size))) = s => Tag(At(Size)) = New(s))'
      BY <1>1, <1>2, <2>2 DEF SlotOf, Tag
    <3> QED
      BY <1>2, <2>2, <3>1, StreamMovesOn
  <2> QED
    BY <2>1, <2>2 DEF SenderMoves, SenderStays, SenderEnds
<1>5. Received(s) => Received(s)'
  BY <1>3 DEF Received
<1>6. NothingOlder(s) => NothingOlder(s)'
  BY <1>3 DEF NothingOlder, ReadyIsNew
<1>7. ASSUME txState = "TRANSCEIVING", Tag(Built) = New(s)
      PROVE  Moves(s)' \/ (txState' = "TRANSCEIVING" /\ Tag(Built') = New(s))
  <2>1. CASE SenderStays
    BY <1>7, <2>1 DEF SenderStays
  <2>2. CASE SenderGoesOn
    BY <1>7, <2>2 DEF SenderGoesOn, WorkGoesOn, Follows
  <2>3. CASE Last(Built)
    <3>1. n \in 1 .. n /\ \A j \in 1 .. n : j >= n => j = n
      BY <1>0, <1>1, <1>7
    <3>2. NewFrom(s, n)
      BY <1>0, <1>1, <1>7, <3>1 DEF NewFrom
    <3>3. Moves(s)
      BY <1>0, <1>1, <1>7, <2>3, <3>1, <3>2 DEF Moves
    <3>4. Moves(s)'
      BY <1>4, <3>3
    <3> QED
      BY <3>4
  <2> QED
    BY <1>7, <2>1, <2>2, <2>3 DEF SenderMoves, SenderEnds, SenderBegins
<1> QED
  BY <1>3, <1>4, <1>5, <1>6, <1>7

(* A kick begins the script of the lowest mark, if the slot is idle        *)
(* (script_slot_sync_kick_locked).                                         *)
LEMMA KickEffect ==
    ASSUME SlotInv, TransferInv, NEW M \in SUBSET Slots, Kick(M),
           version' \in [Slots -> 0 .. MaxUpdates], UNCHANGED <<wire, rxVars>>
    PROVE  /\ SlotInv' /\ TransferInv' /\ SenderMoves /\ ~SenderGoesOn /\ ~SenderEnds
           /\ \/ /\ UNCHANGED txVars /\ marks' = M /\ ~SenderBegins
                 /\ connected => txState = "TRANSCEIVING" \/ M = {}
              \/ /\ connected /\ txState = "EMPTY" /\ txState' = "TRANSCEIVING"
                 /\ \E l \in M : /\ Tag(Built') = Datum(l, version'[l])
                                 /\ marks' = M \ {l}
<1>1. CASE connected /\ txState = "EMPTY" /\ M # {}
  <2>1. PICK l \in M : l = Lowest(M)
    BY <1>1, LowestIsMarked
  <2>2. l \in Slots /\ Datum(l, version'[l]) \in Data
    BY <2>1, DatumIsData
  <2>3. BeginTransfer(Whole(Datum(l, version'[l]))) /\ marks' = M \ {l}
    BY <1>1, <2>1 DEF Kick
  <2> DEFINE d == Datum(l, version'[l])
  <2> HIDE DEF d
  <2>4. d \in Data /\ BeginTransfer(Whole(d)) /\ d = Datum(l, version'[l])
    BY <2>2, <2>3 DEF d
  <2>5. /\ SlotInv' /\ TransferInv' /\ StreamGrows /\ txState' = "TRANSCEIVING"
        /\ Piece(Built') /\ Tag(Built') = d /\ Built'.packet_idx = 0
    BY <1>1, <2>4, BeginStream
  <2>6. SenderBegins /\ ~SenderGoesOn /\ ~SenderEnds
    BY <1>1, <2>5 DEF SenderBegins, SenderGoesOn, SenderEnds
  <2> QED
    BY <1>1, <2>1, <2>3, <2>4, <2>5, <2>6 DEF SenderMoves
<1>2. CASE ~(connected /\ txState = "EMPTY" /\ M # {})
  <2>1. UNCHANGED txVars /\ marks' = M
    BY <1>2 DEF Kick
  <2>2. StreamStays /\ Built' = Built /\ txState' = txState
    BY <2>1 DEF StreamStays, Size, Sent, At, Built, txVars, rxVars
  <2>3. SlotInv' /\ TransferInv'
    BY <2>1, <2>2 DEF SlotInv, Sending, TransferInv, txVars, rxVars, HasPacket, Built, BuiltCtx
  <2>4. ~SenderBegins /\ ~SenderGoesOn /\ ~SenderEnds
    <3>1. PICK n \in Nat : n = Size
      BY SizeFacts
    <3>2. Size' # Size + 1
      BY <2>2, <3>1 DEF StreamStays
    <3> QED
      BY <2>2, <3>2 DEF SenderBegins, SenderGoesOn, SenderEnds, WorkGoesOn, StreamGrows
  <2> QED
    BY <1>2, <2>1, <2>2, <2>3, <2>4 DEF SenderMoves, SenderStays, TransferInv
<1> QED
  BY <1>1, <1>2

-----------------------------------------------------------------------------
(* The manifest *)

\* What is still to be sent of a manifest follows what was received of it.
\* Nothing is asked for before the manifest is there.
ManifestInv ==
    /\ manifestTx # None =>
          /\ TxHasMore(manifestTx) /\ manifestTx.transfer_id = ManifestId
          /\ Sends(manifestTx, SlotCount, manifestTx.data)
          /\ IF manifestTx.next_packet_idx = 0 THEN manifestRx.state = "EMPTY"
             ELSE /\ manifestRx.state = "RECEIVING"
                  /\ HalfWay(manifestRx.rx, ManifestId, SlotCount, manifestTx.data,
                             manifestTx.next_packet_idx)
    /\ manifestTx = None => manifestRx.state # "RECEIVING"
    /\ manifestTx # None \/ manifestRx.state = "READY" => request = {}

\* The context of the manifest slot.
ManifestContext == RxContext(manifestRx.rx) /\ manifestRx.rx.capacity = SlotCount

(* (It has an entry for every script slot.)                                *)
LEMMA ManifestFits == SlotCount \in 0 .. U16 - 1 /\ SlotCount \in Nat /\ SlotCount > 0
<1>1. SlotCount \in 1 .. U16 - 1
  BY ScriptAssumption
<1>2. U16 - 1 \in Int
  BY DEF U16
<1> DEFINE last == U16 - 1
<1> HIDE DEF last
<1>3. SlotCount \in 1 .. last /\ last \in Int
  BY <1>1, <1>2 DEF last
<1>4. SlotCount \in 0 .. last /\ SlotCount \in Nat /\ SlotCount > 0
  BY <1>3
<1> QED
  BY <1>4 DEF last

(* A fresh context of the slot of the manifest holds nothing yet.           *)
LEMMA FreshManifestContext ==
    ASSUME NEW buffer, DOMAIN buffer = 0 .. SlotCount - 1
    PROVE  /\ RxContext(FreshManifest(buffer)) /\ ~FreshManifest(buffer).active
           /\ FreshManifest(buffer).capacity = SlotCount
<1> DEFINE bits == IF OutOfOrder THEN 32 ELSE 0
<1>1. SlotCount \in Nat
  BY ManifestFits
<1>2. FreshManifest(buffer) = RxInit(buffer, SlotCount, OutOfOrder, bits)
  BY DEF FreshManifest
<1> HIDE DEF bits
<1> QED
  BY <1>1, <1>2 DEF RxInit, RxContext, RxFields

(* A packet of the manifest that is taken goes on with it, and the last one *)
(* completes it (splitlink_sync_protocol_on_receive).                      *)
LEMMA ManifestMovesOn ==
    ASSUME ManifestContext, SendManifestPacket
    PROVE  /\ ManifestContext' /\ (smooth' => smooth)
           /\ ManifestInv /\ smooth' =>
                 ManifestInv' /\ \A s \in Slots : Announced(s) => Announced(s)'
<1> DEFINE p == TxPacket(manifestTx)
           d == manifestTx.data
           k == manifestTx.next_packet_idx
           r == IF manifestRx.state = "EMPTY" THEN FreshManifest(manifestRx.rx.buffer)
                ELSE manifestRx.rx
           push == RxPushPacket(r, p)
           sent == TxAfterPacket(manifestTx)
<1>1. /\ manifestTx # None /\ link /\ UNCHANGED <<version, request>>
      /\ manifestTx' = IF TxHasMore(sent) THEN sent ELSE None
      /\ ManifestReceives(p) \/ (smooth' = FALSE /\ UNCHANGED manifestRx)
  BY DEF SendManifestPacket
<1>2. RxContext(r) /\ r.capacity = SlotCount /\ (manifestRx.state = "EMPTY" => ~r.active)
  <2>1. DOMAIN manifestRx.rx.buffer = 0 .. SlotCount - 1
    BY DEF ManifestContext, RxContext
  <2> QED
    BY <2>1, FreshManifestContext DEF ManifestContext
<1> HIDE DEF r, p
<1>3. RxContext(push.rx) /\ push.rx.capacity = SlotCount
  BY <1>2, PushKeepsContext
<1>4. RxContext(RxReset(push.rx)) /\ RxReset(push.rx).capacity = SlotCount
  BY <1>3, ResetContext
<1> HIDE DEF push
<1>5. \/ smooth' = FALSE /\ manifestRx' = manifestRx
      \/ smooth' = FALSE /\ manifestRx' = [state |-> "EMPTY", rx |-> RxReset(push.rx)]
      \/ /\ smooth' = smooth /\ push.res \notin RxErrors /\ manifestRx.state # "READY"
         /\ manifestRx' = [state |-> IF push.res = "COMPLETE" THEN "READY" ELSE "RECEIVING",
                           rx |-> push.rx]
  BY <1>1 DEF ManifestReceives, push, r
<1>6. ManifestContext' /\ (smooth' => smooth)
  <2>1. manifestRx'.rx \in {manifestRx.rx, RxReset(push.rx), push.rx}
    BY <1>5
  <2> QED
    BY <1>3, <1>4, <1>5, <2>1 DEF ManifestContext
<1>7. ASSUME ManifestInv, smooth'
      PROVE  ManifestInv' /\ \A s \in Slots : Announced(s) => Announced(s)'
  <2>0. SlotCount \in 0 .. U16 - 1 /\ CalcPacketCount(SlotCount) \in Nat
    BY ManifestFits, CountFacts
  <2>1. /\ push.res \notin RxErrors /\ manifestRx.state # "READY"
        /\ manifestRx'.state = IF push.res = "COMPLETE" THEN "READY" ELSE "RECEIVING"
        /\ manifestRx'.rx = push.rx
    BY <1>5, <1>7
  <2>2. /\ TxHasMore(manifestTx) /\ manifestTx.transfer_id = ManifestId
        /\ Sends(manifestTx, SlotCount, d) /\ request = {}
        /\ IF k = 0 THEN manifestRx.state = "EMPTY"
           ELSE /\ manifestRx.state = "RECEIVING"
                /\ HalfWay(manifestRx.rx, ManifestId, SlotCount, d, k)
    BY <1>1, <1>7 DEF ManifestInv
  <2>3. /\ PartOf(p, SlotCount, d) /\ p.transfer_id = ManifestId /\ p.packet_idx = k
        /\ Sends(sent, SlotCount, d) /\ sent.transfer_id = ManifestId
        /\ sent.next_packet_idx = k + 1
    BY <2>0, <2>2, SendingGoesOn DEF p
  <2>4. (k = 0 /\ ~r.active) \/ HalfWay(r, p.transfer_id, SlotCount, d, k)
    BY <1>2, <2>2, <2>3 DEF r
  <2> HIDE DEF d, k, sent
  <2>5. /\ k # CalcPacketCount(SlotCount) - 1 =>
              /\ push.res = "ACCEPTED"
              /\ HalfWay(push.rx, p.transfer_id, SlotCount, d, k + 1)
        /\ k = CalcPacketCount(SlotCount) - 1 =>
              /\ push.res = "COMPLETE"
              /\ \A i \in 0 .. SlotCount - 1 : push.rx.buffer[i] = d[i]
    BY <1>2, <2>0, <2>1, <2>3, <2>4, PushInTurn DEF push
  <2>6. k \in 0 .. CalcPacketCount(SlotCount) - 1
    BY <2>3 DEF PartOf
  <2>7. TxHasMore(sent) <=> k # CalcPacketCount(SlotCount) - 1
    BY <2>0, <2>3, <2>6 DEF TxHasMore, Sends
  <2>8. sent.data = d
    BY <2>3 DEF Sends
  <2>9. CASE k # CalcPacketCount(SlotCount) - 1
    <3>1. manifestTx' = sent /\ manifestRx'.state = "RECEIVING"
      BY <1>1, <2>1, <2>5, <2>7, <2>9
    <3>2. sent # None /\ k + 1 # 0
      <4>1. DOMAIN sent # {}
        BY <2>3 DEF Sends, TxFields
      <4> QED
        BY <2>0, <2>6, <4>1 DEF None
    <3>3. HalfWay(manifestRx'.rx, ManifestId, SlotCount, d, k + 1)
      BY <2>1, <2>3, <2>5, <2>9
    <3>4. ManifestInv'
      BY <1>1, <2>2, <2>3, <2>7, <2>8, <2>9, <3>1, <3>2, <3>3 DEF ManifestInv
    <3>5. \A s \in Slots : Announced(s) => Announced(s)'
      BY <1>1, <2>1, <2>8, <3>1, <3>2 DEF Announced, d
    <3> QED
      BY <3>4, <3>5
  <2>10. CASE k = CalcPacketCount(SlotCount) - 1
    <3>1. manifestTx' = None /\ manifestRx'.state = "READY"
      BY <1>1, <2>1, <2>5, <2>7, <2>10
    <3>2. ManifestInv'
      BY <1>1, <2>2, <3>1 DEF ManifestInv
    <3>3. \A s \in Slots : manifestRx'.rx.buffer[s] = d[s]
      BY <2>1, <2>5, <2>10 DEF Slots
    <3>4. \A s \in Slots : Announced(s) => Announced(s)'
      BY <1>1, <2>1, <3>1, <3>3 DEF Announced, d
    <3> QED
      BY <3>2, <3>4
  <2> QED
    BY <2>9, <2>10
<1> QED
  BY <1>6, <1>7

-----------------------------------------------------------------------------
(* Everything that is on its way to the slave *)

ScriptsBase ==
    /\ version \in [Slots -> 0 .. MaxUpdates] /\ DOMAIN scripts = Slots
    /\ marks \subseteq Slots /\ request \subseteq Slots
    /\ SlotInv /\ TransferInv /\ ReadyInv /\ NoticesInOrder /\ ManifestContext
    /\ ~link => wire = << >>

\* Before the master has run its connect work.
Silent ==
    /\ txState = "EMPTY" /\ rxState = "EMPTY" /\ rxq = << >> /\ wire = << >>
    /\ manifestTx = None /\ manifestRx.state = "EMPTY" /\ request = {}

Arriving == StreamInv /\ ManifestInv /\ \A s \in Slots : Comes(s)

OnTheWay == link /\ smooth => IF connected THEN Arriving ELSE Silent

(* Nothing is on its way at first.                                         *)
LEMMA ScriptsStart == ScriptsInit => ScriptsBase /\ OnTheWay
<1> SUFFICES ASSUME ScriptsInit PROVE ScriptsBase /\ OnTheWay
  OBVIOUS
<1>0. SlotInit
  BY DEF ScriptsInit
<1>1. version \in [Slots -> 0 .. MaxUpdates] /\ DOMAIN scripts = Slots
  <2>1. 0 \in 0 .. MaxUpdates
    BY ScriptAssumption
  <2> QED
    BY <2>1 DEF ScriptsInit
<1>2. SlotInv
  <2>1. Data \subseteq Int
    <3>1. SlotCount \in Nat /\ MaxUpdates \in Nat
      BY ManifestFits, ScriptAssumption
    <3>2. SlotCount * (MaxUpdates + 1) - 1 \in Int
      BY <3>1
    <3> QED
      BY <3>2, ScriptAssumption
  <2> QED
    BY <1>0, <2>1, OrderInit DEF OrderInv
<1>3. TransferInv /\ ReadyInv /\ NoticesInOrder
  <2>1. ReadyInv
    BY <1>0 DEF SlotInit, ReadyInv, WorkQueue, ReadySlotIsQueued
  <2> QED
    BY <1>0, <2>1 DEF SlotInit, TransferInv, NoticesInOrder
<1>4. ManifestContext
  <2> DEFINE blank == [s \in Slots |-> 0]
  <2>1. DOMAIN blank = 0 .. SlotCount - 1 /\ manifestRx.rx = FreshManifest(blank)
    BY DEF ScriptsInit, Slots
  <2> HIDE DEF blank
  <2> QED
    BY <2>1, FreshManifestContext DEF ManifestContext
<1> QED
  BY <1>0, <1>1, <1>2, <1>3, <1>4 DEF ScriptsInit, SlotInit, ScriptsBase, OnTheWay

(* Connections.  What comes over a new one is announced by the manifest    *)
(* (splitlink_sync_on_connect).                                            *)
LEMMA ConnectionsKeepScripts ==
    ASSUME ScriptsBase, OnTheWay,
           ScriptsLinkUp \/ LinkLost \/ MasterConnectWork \/ ForgetMarks
    PROVE  ScriptsBase' /\ OnTheWay'
<1>0. UNCHANGED <<txVars, rxVars, version, scripts, request, manifestRx>>
  BY DEF ScriptsLinkUp, LinkLost, MasterConnectWork, ForgetMarks, LinkUp, LinkDown,
         DisconnectWork, scriptVars, manifestVars
<1>1. /\ wire' \in {wire, << >>} /\ marks' \subseteq marks
      /\ ~link' => wire' = << >>
  BY DEF ScriptsLinkUp, LinkLost, MasterConnectWork, ForgetMarks, LinkUp, LinkDown,
         DisconnectWork, scriptVars, ScriptsBase
<1>2. SlotInv' /\ TransferInv' /\ ReadyInv' /\ ManifestContext'
  <2>1. << >> \in Seq(Packets)
    OBVIOUS
  <2>2. SlotInv'
    BY <1>0, <1>1, <2>1 DEF ScriptsBase, SlotInv, Sending, txVars, rxVars
  <2>3. TransferInv'
    BY <1>0 DEF ScriptsBase, TransferInv, txVars, HasPacket, Built, BuiltCtx
  <2> QED
    BY <1>0, <2>2, <2>3 DEF ScriptsBase, ReadyInv, WorkQueue, ReadySlotIsQueued, rxVars,
                            ManifestContext
<1>3. txState \in {"EMPTY", "TRANSCEIVING"} /\ (txWork <=> txState = "TRANSCEIVING")
      /\ NoticesInOrder
  BY DEF ScriptsBase, TransferInv
<1>4. CASE ScriptsLinkUp
  <2>1. /\ notices = << >> /\ ~link /\ ~connected /\ txState = "EMPTY" /\ rxq = << >>
        /\ link' /\ connected' = connected /\ wire' = wire /\ manifestTx' = manifestTx
        /\ manifestTx = None /\ request = {}
        /\ smooth' = (rxState = "EMPTY" /\ manifestRx.state = "EMPTY")
    BY <1>3, <1>4 DEF ScriptsLinkUp, LinkUp, Settled, NoticesInOrder, manifestVars
  <2>2. notices' = <<"connect">>
    BY <1>4, <2>1 DEF ScriptsLinkUp, LinkUp, Submit
  <2>3. NoticesInOrder'
    BY <1>0, <2>1, <2>2 DEF NoticesInOrder, txVars
  <2>4. OnTheWay'
    BY <1>0, <2>1 DEF OnTheWay, Silent, ScriptsBase, txVars, rxVars
  <2> QED
    BY <1>0, <1>1, <1>2, <2>3, <2>4 DEF ScriptsBase
<1>5. CASE LinkLost
  <2>1. \/ notices = << >> /\ connected
        \/ notices = <<"connect">> /\ ~connected /\ txState = "EMPTY"
    BY <1>3, <1>5 DEF LinkLost, LinkDown, NoticesInOrder
  <2>2. notices' = Append(notices, "disconnect") /\ ~link' /\ connected' = connected
    <3>1. \A i \in DOMAIN notices : notices[i] # "disconnect"
      BY <2>1
    <3> QED
      BY <1>5, <3>1 DEF LinkLost, LinkDown, Submit
  <2>3. \/ notices = << >> /\ notices' = <<"disconnect">>
        \/ notices = <<"connect">> /\ notices' = <<"connect", "disconnect">>
    BY <2>1, <2>2, ShortAppend
  <2>4. NoticesInOrder'
    BY <1>0, <2>1, <2>2, <2>3 DEF NoticesInOrder, txVars
  <2> QED
    BY <1>0, <1>1, <1>2, <2>2, <2>4 DEF ScriptsBase, OnTheWay
<1>6. CASE ForgetMarks
  <2>1. notices = <<"disconnect">> /\ ~link
    BY <1>3, <1>6 DEF ForgetMarks, DisconnectWork, NoticesInOrder
  <2>2. notices' = << >> /\ link' = link /\ connected' = FALSE
    BY <1>6, <2>1 DEF ForgetMarks, DisconnectWork
  <2>3. NoticesInOrder'
    BY <2>1, <2>2 DEF NoticesInOrder
  <2> QED
    BY <1>0, <1>1, <1>2, <2>1, <2>2, <2>3 DEF ScriptsBase, OnTheWay
<1>7. CASE MasterConnectWork
  <2>1. \/ notices = <<"connect">> /\ link /\ ~connected /\ txState = "EMPTY"
        \/ notices = <<"connect", "disconnect">> /\ ~link /\ ~connected /\ txState = "EMPTY"
    BY <1>3, <1>7 DEF MasterConnectWork, NoticesInOrder
  <2>2. /\ notices' = Tail(notices) /\ link' = link /\ connected' = TRUE
        /\ wire' = wire /\ smooth' = (smooth /\ manifestTx = None)
        /\ manifestTx = None => manifestTx' = TxInit(version, SlotCount, ManifestId)
    BY <1>7 DEF MasterConnectWork
  <2>3. Tail(<<"connect">>) = << >> /\ Tail(<<"connect", "disconnect">>) = <<"disconnect">>
    OBVIOUS
  <2>4. NoticesInOrder'
    BY <2>1, <2>2, <2>3 DEF NoticesInOrder
  <2>5. ASSUME link, smooth' PROVE Arriving'
    <3>1. Silent /\ manifestTx = None
      BY <2>1, <2>2, <2>5 DEF OnTheWay
    <3>2. /\ txState' = "EMPTY" /\ rxState' = "EMPTY" /\ rxq' = << >> /\ wire' = << >>
          /\ request' = {} /\ manifestRx'.state = "EMPTY"
      BY <1>0, <2>2, <3>1 DEF Silent, txVars, rxVars
    <3>3. Size' = 0
      BY <3>2 DEF Size, Sent
    <3>4. StreamInv'
      BY <3>2, <3>3 DEF StreamInv
    <3>5. /\ Sends(manifestTx', SlotCount, version) /\ manifestTx'.transfer_id = ManifestId
          /\ manifestTx'.next_packet_idx = 0
      BY <2>2, <3>1, ManifestFits, SendingStarts
    <3>6. TxHasMore(manifestTx') /\ manifestTx'.data = version /\ manifestTx' # None
      <4>1. CalcPacketCount(SlotCount) \in Nat /\ CalcPacketCount(SlotCount) # 0
        BY ManifestFits, CountFacts
      <4>2. DOMAIN manifestTx' # {}
        BY <3>5 DEF Sends, TxFields
      <4> QED
        BY <3>5, <4>1, <4>2 DEF Sends, TxHasMore, None
    <3>7. ManifestInv'
      BY <3>2, <3>5, <3>6 DEF ManifestInv
    <3>8. \A s \in Slots : Comes(s)'
      <4> TAKE s \in Slots
      <4>1. Announced(s)'
        BY <1>0, <3>6 DEF Announced
      <4>2. NothingOlder(s)'
        BY <3>2, <3>3 DEF NothingOlder, NewFrom, ReadyIsNew
      <4> QED
        BY <4>1, <4>2 DEF Comes
    <3> QED
      BY <3>4, <3>7, <3>8 DEF Arriving
  <2>6. OnTheWay'
    BY <2>2, <2>5 DEF OnTheWay
  <2> QED
    BY <1>0, <1>1, <1>2, <2>4, <2>6 DEF ScriptsBase
<1> QED
  BY <1>4, <1>5, <1>6, <1>7

(* The manifest, its loss, and that of the request (splitlink_sync_scripts_ *)
(* manifest_received).                                                     *)
LEMMA ManifestKeepsScripts ==
    ASSUME ScriptsBase, OnTheWay,
           SendManifestPacket \/ ManifestSendFails \/ ManifestReceived \/ RequestLost
    PROVE  ScriptsBase' /\ OnTheWay'
<1>0. UNCHANGED <<linkVars, txVars, wire, rxVars, version, marks, scripts>>
  BY DEF SendManifestPacket, ManifestSendFails, ManifestReceived, RequestLost, slotVars,
         manifestVars
<1>1. /\ SlotInv' /\ TransferInv' /\ ReadyInv' /\ NoticesInOrder'
      /\ StreamStays /\ Built' = Built
      /\ StreamInv => StreamInv'
  <2>1. SlotInv'
    BY <1>0 DEF ScriptsBase, SlotInv, Sending, txVars, rxVars
  <2>2. TransferInv' /\ Built' = Built
    BY <1>0 DEF ScriptsBase, TransferInv, txVars, HasPacket, Built, BuiltCtx
  <2>3. ReadyInv' /\ NoticesInOrder'
    BY <1>0 DEF ScriptsBase, ReadyInv, WorkQueue, ReadySlotIsQueued, rxVars, txVars, linkVars,
                NoticesInOrder
  <2>4. StreamStays
    BY <1>0, <2>2 DEF StreamStays, Size, Sent, At, txVars, rxVars
  <2>5. ASSUME StreamInv PROVE StreamInv'
    <3>1. /\ UNCHANGED <<rxState, rx>>
          /\ txState' = "EMPTY" /\ Size > 0 => Last(At(Size))
      BY <1>0, <2>5 DEF StreamInv, txVars, rxVars
    <3> QED
      BY <2>4, <2>5, <3>1, StayingStream DEF ScriptsBase
  <2> QED
    BY <2>1, <2>2, <2>3, <2>4, <2>5
<1>2. ASSUME NEW s \in Slots
      PROVE  /\ (Moves(s) => Moves(s)') /\ (Received(s) => Received(s)')
             /\ (NothingOlder(s) => NothingOlder(s)') /\ New(s)' = New(s)
  <2>1. New(s)' = New(s)
    BY <1>0 DEF New
  <2>2. (Moves(s) => Moves(s)') /\ (NewFrom(s, 1) => NewFrom(s, 1)')
    BY <1>1, <2>1, StreamMovesOn DEF ScriptsBase
  <2> QED
    BY <1>0, <2>1, <2>2 DEF Received, NothingOlder, ReadyIsNew, rxVars
<1>3. ASSUME ScriptsBase', ~(link /\ smooth') PROVE ScriptsBase' /\ OnTheWay'
  BY <1>0, <1>3 DEF OnTheWay, linkVars
<1>4. ManifestContext' /\ request' \subseteq Slots
  <2>1. CASE SendManifestPacket
    BY <2>1, ManifestMovesOn DEF ScriptsBase, SendManifestPacket
  <2>2. CASE ManifestReceived
    <3>1. /\ manifestRx'.rx = RxReset(manifestRx.rx) /\ request' \subseteq Slots
      BY <2>2 DEF ManifestReceived
    <3> QED
      BY <3>1, ResetContext DEF ScriptsBase, ManifestContext
  <2>3. CASE ManifestSendFails \/ RequestLost
    BY <2>3 DEF ManifestSendFails, RequestLost, ScriptsBase, ManifestContext, manifestVars
  <2> QED
    BY <2>1, <2>2, <2>3
<1>5. ScriptsBase'
  BY <1>0, <1>1, <1>4 DEF ScriptsBase, linkVars
<1>6. CASE RequestLost
  BY <1>3, <1>5, <1>6 DEF RequestLost
<1>7. CASE ManifestSendFails
  BY <1>3, <1>5, <1>7 DEF ManifestSendFails
<1>8. CASE SendManifestPacket
  <2> SUFFICES ASSUME link, smooth' PROVE OnTheWay'
    BY <1>3, <1>5
  <2>1. manifestTx # None /\ smooth
    BY <1>8, ManifestMovesOn DEF SendManifestPacket, ScriptsBase
  <2>2. connected /\ Arriving
    BY <2>1 DEF OnTheWay, Silent
  <2>3. ManifestInv' /\ \A s \in Slots : Announced(s) => Announced(s)'
    BY <1>8, <2>2, ManifestMovesOn DEF ScriptsBase, Arriving
  <2>4. ASSUME NEW s \in Slots PROVE Comes(s)'
    <3>1. request' = request /\ Comes(s)
      BY <1>8, <2>2 DEF SendManifestPacket, Arriving
    <3> QED
      BY <1>0, <1>1, <1>2, <2>3, <3>1 DEF Comes, txVars
  <2> QED
    BY <1>0, <1>1, <2>2, <2>3, <2>4 DEF OnTheWay, Arriving, linkVars
<1>9. CASE ManifestReceived
  <2> SUFFICES ASSUME link, smooth' PROVE OnTheWay'
    BY <1>3, <1>5
  <2>1. /\ manifestRx.state = "READY" /\ smooth /\ manifestTx' = manifestTx
        /\ manifestRx'.state = "EMPTY"
        /\ request' = {s \in Slots : scripts[s] # Whole(Datum(s, manifestRx.rx.buffer[s]))}
    BY <1>9 DEF ManifestReceived
  <2>2. connected /\ Arriving /\ manifestTx = None /\ request = {}
    BY <2>1 DEF OnTheWay, Silent, Arriving, ManifestInv
  <2>3. ManifestInv'
    BY <2>1, <2>2 DEF ManifestInv
  <2>4. ASSUME NEW s \in Slots PROVE Comes(s)'
    <3>1. Comes(s) /\ s \notin request
      BY <2>2 DEF Arriving
    <3>2. CASE (scripts[s] = Whole(New(s)) \/ Announced(s)) /\ NothingOlder(s)
      <4>1. scripts[s] = Whole(New(s)) \/ manifestRx.rx.buffer[s] = version[s]
        BY <2>2, <3>2 DEF Announced
      <4>2. scripts[s] = Whole(New(s)) \/ s \in request'
        BY <2>1, <4>1 DEF New
      <4> QED
        BY <1>0, <1>2, <3>2, <4>2 DEF Comes
    <3>3. CASE ~((scripts[s] = Whole(New(s)) \/ Announced(s)) /\ NothingOlder(s))
      BY <1>0, <1>1, <1>2, <3>1, <3>3 DEF Comes, txVars
    <3> QED
      BY <3>2, <3>3
  <2> QED
    BY <1>0, <1>1, <2>2, <2>3, <2>4 DEF OnTheWay, Arriving, linkVars
<1> QED
  BY <1>5, <1>6, <1>7, <1>8, <1>9

(* What the sender does (ykb_backlight_set_script_slot,                    *)
(* splitlink_sync_scripts_request_received, tx_slot_work_handler): a slot   *)
(* stays marked until its newest script is sent.                           *)
LEMMA SendingKeepsScripts ==
    ASSUME ScriptsBase, OnTheWay, ScriptUpdate \/ RequestReceived \/ TakesMark
    PROVE  ScriptsBase' /\ OnTheWay'
<1> DEFINE NoOlder == \A s \in Slots : SlotOf(Tag(Built')) = s => Tag(Built') = New(s)'
           Kept(s) == \/ s \in marks' /\ txState' = "TRANSCEIVING"
                      \/ txState' = "TRANSCEIVING" /\ Tag(Built') = New(s)'
<1>0. /\ UNCHANGED <<linkVars, rxVars, manifestVars, scripts, smooth>>
      /\ request' \subseteq request
  BY DEF ScriptUpdate, RequestReceived, TakesMark, TxWork, TxWorkSend, TxWorkNoBuffer,
         TxWorkError, TxWorkDone
<1>1. ASSUME version' \in [Slots -> 0 .. MaxUpdates], NEW l \in Slots, Tag(Built') = New(l)'
      PROVE  NoOlder
  <2>1. version'[l] \in Int
    BY <1>1
  <2>2. SlotOf(Tag(Built')) = l
    BY <1>1, <2>1, DatumHasSlot DEF New
  <2> QED
    BY <1>1, <2>2
<1>2. ASSUME version' \in [Slots -> 0 .. MaxUpdates], SlotInv', TransferInv',
             ~link => wire' = wire,
             marks' \subseteq Slots,
             txState = "TRANSCEIVING" \/ connected \/ UNCHANGED txVars
      PROVE  ScriptsBase'
  <2>1. NoticesInOrder'
    <3>1. CASE txState = "TRANSCEIVING" \/ connected
      BY <1>0, <3>1 DEF ScriptsBase, NoticesInOrder, linkVars
    <3>2. CASE UNCHANGED txVars
      BY <1>0, <3>2 DEF ScriptsBase, NoticesInOrder, linkVars, txVars
    <3> QED
      BY <1>2, <3>1, <3>2
  <2>2. ReadyInv' /\ ManifestContext'
    BY <1>0 DEF ScriptsBase, ReadyInv, WorkQueue, ReadySlotIsQueued, rxVars,
                ManifestContext, manifestVars
  <2> QED
    BY <1>0, <1>2, <2>1, <2>2 DEF ScriptsBase, linkVars
<1>3. ASSUME link, smooth, connected, SlotInv', SenderMoves, SenderBegins => NoOlder,
             \A s \in Slots :
                \/ Kept(s) \/ s \in request'
                \/ /\ version'[s] = version[s] /\ s \notin request
                   /\ ~(s \in marks /\ txState = "TRANSCEIVING")
      PROVE  OnTheWay'
  <2>1. Arriving /\ SlotInv /\ TransferInv /\ StreamInv /\ ManifestInv
    BY <1>3 DEF OnTheWay, Arriving, ScriptsBase
  <2>2. UNCHANGED <<rxState, rx>>
    BY <1>0 DEF rxVars
  <2>3. StreamInv'
    BY <1>3, <2>1, <2>2, SentStream
  <2>4. ManifestInv'
    BY <1>0, <2>1 DEF ManifestInv, manifestVars
  <2>5. ASSUME NEW s \in Slots PROVE Comes(s)'
    <3>1. CASE Kept(s) \/ s \in request'
      BY <3>1 DEF Comes
    <3>2. CASE ~(Kept(s) \/ s \in request')
      <4>1. /\ version'[s] = version[s] /\ s \notin request
            /\ ~(s \in marks /\ txState = "TRANSCEIVING")
        BY <1>3, <3>2
      <4>2. New(s)' = New(s)
        BY <4>1 DEF New
      <4>3. SenderBegins => (SlotOf(Tag(Built')) = s => Tag(Built') = New(s))
        BY <1>3, <4>2
      <4>4. /\ (txState = "TRANSCEIVING" /\ Tag(Built) = New(s) =>
                 Moves(s)' \/ (txState' = "TRANSCEIVING" /\ Tag(Built') = New(s)))
            /\ Moves(s) => Moves(s)'
            /\ Received(s) => Received(s)'
            /\ NothingOlder(s) => NothingOlder(s)'
        BY <1>3, <2>1, <2>2, <4>2, <4>3, SentMovesOn
      <4>5. Announced(s) => Announced(s)'
        BY <1>0, <4>1 DEF Announced, manifestVars
      <4>6. Comes(s)
        BY <2>1 DEF Arriving
      <4> QED
        BY <1>0, <4>1, <4>2, <4>4, <4>5, <4>6 DEF Comes
    <3> QED
      BY <3>1, <3>2
  <2> QED
    BY <1>0, <1>3, <2>3, <2>4, <2>5 DEF OnTheWay, Arriving, linkVars
<1>4. ASSUME ~(link /\ smooth) \/ (~connected /\ UNCHANGED <<txVars, wire>>), ScriptsBase'
      PROVE  OnTheWay'
  BY <1>0, <1>4 DEF OnTheWay, Silent, linkVars, manifestVars, txVars, rxVars
<1>5. ASSUME NEW M \in SUBSET Slots, M # {}, marks \subseteq M, Kick(M),
             version' \in [Slots -> 0 .. MaxUpdates], UNCHANGED wire,
             \A s \in Slots \ M : version'[s] = version[s],
             \A s \in request : s \in M \/ s \in request'
      PROVE  ScriptsBase' /\ OnTheWay'
  <2>1. /\ SlotInv' /\ TransferInv' /\ SenderMoves /\ ~SenderGoesOn /\ ~SenderEnds
        /\ \/ /\ UNCHANGED txVars /\ marks' = M /\ ~SenderBegins
              /\ connected => txState = "TRANSCEIVING"
           \/ /\ connected /\ txState = "EMPTY" /\ txState' = "TRANSCEIVING"
              /\ \E l \in M : /\ Tag(Built') = Datum(l, version'[l])
                              /\ marks' = M \ {l}
    BY <1>0, <1>5, KickEffect DEF ScriptsBase
  <2>2. ScriptsBase'
    <3>1. marks' \subseteq Slots /\ (connected \/ UNCHANGED txVars) /\ (~link => wire' = wire)
      BY <1>5, <2>1
    <3> QED
      BY <1>2, <1>5, <2>1, <3>1
  <2>3. CASE ~(link /\ smooth /\ connected)
    <3>1. ~(link /\ smooth) \/ (~connected /\ UNCHANGED <<txVars, wire>>)
      BY <1>5, <2>1, <2>3
    <3> QED
      BY <1>4, <2>2, <3>1
  <2>4. CASE link /\ smooth /\ connected
    <3>1. ASSUME NEW s \in M PROVE Kept(s)
      BY <2>1, <2>4, <3>1 DEF txVars, New
    <3>2. SenderBegins => NoOlder
      <4> SUFFICES ASSUME SenderBegins PROVE NoOlder
        OBVIOUS
      <4>1. PICK l \in M : Tag(Built') = Datum(l, version'[l])
        BY <2>1
      <4>2. l \in Slots /\ Tag(Built') = New(l)'
        BY <4>1 DEF New
      <4> HIDE DEF NoOlder
      <4> QED
        BY <1>1, <1>5, <4>2
    <3> HIDE DEF NoOlder, Kept
    <3>3. \A s \in Slots :
             \/ Kept(s) \/ s \in request'
             \/ /\ version'[s] = version[s] /\ s \notin request
                /\ ~(s \in marks /\ txState = "TRANSCEIVING")
      BY <1>5, <3>1
    <3> QED
      BY <1>3, <2>1, <2>2, <2>4, <3>2, <3>3
  <2> QED
    BY <2>3, <2>4
<1>6. CASE ScriptUpdate
  <2>1. PICK s \in Slots :
           /\ version[s] < MaxUpdates /\ version' = [version EXCEPT ![s] = @ + 1]
           /\ Kick(marks \cup {s}) /\ UNCHANGED <<wire, request>>
    BY <1>6 DEF ScriptUpdate
  <2>2. version' \in [Slots -> 0 .. MaxUpdates] /\ \A t \in Slots \ {s} : version'[t] = version[t]
    <3>1. version \in [Slots -> 0 .. MaxUpdates] /\ MaxUpdates \in Nat
      BY ScriptAssumption DEF ScriptsBase
    <3>2. version[s] + 1 \in 0 .. MaxUpdates
      BY <2>1, <3>1
    <3> QED
      BY <2>1, <3>1, <3>2
  <2>3. marks \cup {s} \in SUBSET Slots /\ marks \cup {s} # {}
    BY DEF ScriptsBase
  <2> HIDE DEF NoOlder, Kept
  <2> QED
    BY <1>5, <2>1, <2>2, <2>3
<1>7. CASE RequestReceived
  <2>1. /\ request # {} /\ request' = {} /\ UNCHANGED <<wire, version>>
        /\ Kick(marks \cup request)
    BY <1>7 DEF RequestReceived
  <2>2. /\ marks \cup request \in SUBSET Slots /\ marks \cup request # {}
        /\ version' \in [Slots -> 0 .. MaxUpdates]
    BY <2>1 DEF ScriptsBase
  <2> QED
    BY <1>5, <2>1, <2>2
<1>8. CASE TakesMark
  <2> DEFINE next == IF connected /\ marks # {} THEN Script(Lowest(marks)) ELSE None
  <2>1. /\ TxWork(next) /\ version' = version /\ request' = request
        /\ marks' = IF TransferEnds /\ next # None THEN marks \ {Lowest(marks)} ELSE marks
    BY <1>8 DEF TakesMark
  <2>2. ASSUME next # None
        PROVE  /\ Lowest(marks) \in marks /\ Lowest(marks) \in Slots
               /\ New(Lowest(marks)) \in Data /\ next = Whole(New(Lowest(marks)))
    <3>1. marks # {} /\ next = Script(Lowest(marks))
      BY <2>2
    <3>2. Lowest(marks) \in marks /\ Lowest(marks) \in Slots
      BY <3>1, LowestIsMarked DEF ScriptsBase
    <3>3. New(Lowest(marks)) \in Data
      BY <3>2, DatumIsData DEF ScriptsBase, New
    <3> QED
      BY <3>1, <3>2, <3>3 DEF Script, New
  <2>3. connected /\ next = None => marks = {}
    <3> SUFFICES ASSUME connected, marks # {} PROVE next # None
      OBVIOUS
    <3>1. Lowest(marks) \in marks /\ Lowest(marks) \in Slots
      BY LowestIsMarked DEF ScriptsBase
    <3>2. New(Lowest(marks)) \in Data
      BY <3>1, DatumIsData DEF ScriptsBase, New
    <3>3. Whole(New(Lowest(marks))) # None
      BY <3>2, SettingsArePayloads, PayloadIsSomething
    <3> QED
      BY <3>3 DEF Script, New
  <2> HIDE DEF next
  <2>4. /\ SlotInv' /\ TransferInv' /\ txState = "TRANSCEIVING"
        /\ ~link => wire' = wire
        /\ link => \/ ~TransferEnds /\ (WorkStays \/ WorkGoesOn)
                   \/ WorkEnds(next)
    BY <2>1, <2>2, TransmitStream DEF ScriptsBase
  <2>5. ScriptsBase'
    <3>1. version' \in [Slots -> 0 .. MaxUpdates] /\ marks' \subseteq Slots
      BY <2>1 DEF ScriptsBase
    <3> QED
      BY <1>2, <2>4, <3>1
  <2>6. CASE ~(link /\ smooth)
    BY <1>4, <2>5, <2>6
  <2>7. CASE link /\ smooth
    <3>1. connected
      BY <2>4, <2>7 DEF OnTheWay, Silent
    <3>2. \/ ~TransferEnds /\ (SenderStays \/ SenderGoesOn) /\ txState' = "TRANSCEIVING"
          \/ TransferEnds /\ next = None /\ SenderEnds
          \/ /\ TransferEnds /\ next # None /\ SenderBegins
             /\ next = Whole(Tag(Built')) /\ txState' = "TRANSCEIVING"
      BY <2>4, <2>7 DEF WorkStays, WorkGoesOn, WorkEnds, SenderStays, SenderGoesOn,
                        SenderEnds, SenderBegins
    <3>3. SenderMoves
      BY <3>2 DEF SenderMoves
    <3>4. SenderBegins => ~(SenderStays \/ SenderGoesOn \/ SenderEnds)
      <4>1. PICK n \in Nat : n = Size
        BY SizeFacts DEF ScriptsBase
      <4>2. StreamStays => ~StreamGrows
        BY <4>1 DEF StreamStays, StreamGrows
      <4> QED
        BY <2>4, <4>2 DEF SenderBegins, SenderStays, SenderGoesOn, SenderEnds, WorkGoesOn
    <3>5. CASE ~SenderBegins
      <4>1. \A s \in Slots : s \in marks => Kept(s)
        BY <2>1, <2>3, <3>1, <3>2, <3>5
      <4> HIDE DEF NoOlder, Kept
      <4>2. \A s \in Slots :
               \/ Kept(s) \/ s \in request'
               \/ /\ version'[s] = version[s] /\ s \notin request
                  /\ ~(s \in marks /\ txState = "TRANSCEIVING")
        BY <2>1, <4>1
      <4> QED
        BY <1>3, <2>4, <2>5, <2>7, <3>1, <3>3, <3>5, <4>2
    <3>6. CASE SenderBegins
      <4>1. TransferEnds /\ next # None /\ next = Whole(Tag(Built')) /\ txState' = "TRANSCEIVING"
        BY <3>2, <3>4, <3>6
      <4>2. PICK l \in Slots : l = Lowest(marks) /\ l \in marks /\ next = Whole(New(l))
        BY <2>2, <4>1
      <4>3. Tag(Built') = New(l)'
        <5>1. 0 \in Offsets
          BY LengthFits, SlotAssumption DEF Offsets
        <5>2. Whole(Tag(Built'))[0] = Whole(New(l))[0]
          BY <4>1, <4>2
        <5>3. Tag(Built') = New(l)
          BY <5>1, <5>2 DEF Whole
        <5> QED
          BY <2>1, <5>3 DEF New
      <4>4. marks' = marks \ {l}
        BY <2>1, <4>1, <4>2
      <4>5. \A s \in Slots : s \in marks => Kept(s)
        BY <4>1, <4>3, <4>4 DEF New
      <4>6. NoOlder
        <5>1. version' \in [Slots -> 0 .. MaxUpdates]
          BY <2>1 DEF ScriptsBase
        <5> HIDE DEF NoOlder
        <5> QED
          BY <1>1, <4>3, <5>1
      <4> HIDE DEF NoOlder, Kept
      <4>7. \A s \in Slots :
               \/ Kept(s) \/ s \in request'
               \/ /\ version'[s] = version[s] /\ s \notin request
                  /\ ~(s \in marks /\ txState = "TRANSCEIVING")
        BY <2>1, <4>5
      <4> QED
        BY <1>3, <2>4, <2>5, <2>7, <3>1, <3>3, <4>6, <4>7
    <3> QED
      BY <3>5, <3>6, <2>5
  <2> QED
    BY <2>5, <2>6, <2>7
<1> QED
  BY <1>6, <1>7, <1>8

(* What the receiver does (splitlink_bt_queue_rx, on_receive,              *)
(* splitlink_sync_script_slot_received).                                   *)
LEMMA ReceivingKeepsScripts ==
    ASSUME ScriptsBase, OnTheWay,
           ScriptPacketArrives \/ ScriptPacketReceived \/ ScriptSlotReceived \/ DrainGoesOn
    PROVE  ScriptsBase' /\ OnTheWay'
<1>0. /\ UNCHANGED <<linkVars, txVars, version, marks, request, manifestVars>>
      /\ Arrive \/ Receiver
  BY DEF ScriptPacketArrives, ScriptPacketReceived, ScriptSlotReceived, DrainGoesOn, Arrive,
         Receiver, RxWorkStart, RxWorkPop, RxWorkEnd, RxSlotWork, scriptVars
<1>1. /\ SlotInv' /\ ReadyInv' /\ TransferInv' /\ NoticesInOrder' /\ Built' = Built
      /\ ManifestContext'
  <2>1. SlotInv' /\ ReadyInv'
    BY <1>0, ReceiverEffect, ReceiverKeepsReady DEF ScriptsBase
  <2>2. TransferInv' /\ Built' = Built
    BY <1>0 DEF ScriptsBase, TransferInv, txVars, HasPacket, Built, BuiltCtx
  <2>3. NoticesInOrder' /\ ManifestContext'
    BY <1>0 DEF ScriptsBase, NoticesInOrder, linkVars, txVars, ManifestContext, manifestVars
  <2> QED
    BY <2>1, <2>2, <2>3
<1>2. DOMAIN scripts' = Slots
  <2>1. scripts' = scripts \/ scripts' = [scripts EXCEPT ![SlotOf(delivered'[0])] = delivered']
    BY DEF ScriptPacketArrives, ScriptPacketReceived, ScriptSlotReceived, DrainGoesOn, scriptVars
  <2> QED
    BY <2>1 DEF ScriptsBase
<1>3. ~link => wire' = << >> /\ ~Arrive
  <2>1. wire' = wire \/ Arrive
    BY <1>0 DEF Receiver, RxWorkStart, RxWorkPop, RxWorkEnd, RxSlotWork
  <2> QED
    BY <2>1 DEF ScriptsBase, Arrive
<1>4. ScriptsBase'
  BY <1>0, <1>1, <1>2, <1>3 DEF ScriptsBase, linkVars
<1>5. smooth' => smooth
  BY DEF ScriptPacketArrives, ScriptPacketReceived, ScriptSlotReceived, DrainGoesOn, scriptVars
<1>6. CASE ~(link /\ smooth')
  BY <1>0, <1>4, <1>6 DEF OnTheWay, linkVars
<1>7. CASE link /\ smooth' /\ ~connected
  <2>1. Silent
    BY <1>5, <1>7 DEF OnTheWay
  <2>2. CASE ScriptPacketArrives \/ ScriptPacketReceived
    BY <2>1, <2>2 DEF ScriptPacketArrives, ScriptPacketReceived, Arrive, RxWorkPop, Silent
  <2>3. CASE ScriptSlotReceived \/ DrainGoesOn
    <3>1. UNCHANGED <<wire, rxq>> /\ rxState' \in {rxState, "EMPTY"}
      BY <2>3 DEF ScriptSlotReceived, DrainGoesOn, RxSlotWork, RxWorkStart, RxWorkEnd
    <3>2. Silent'
      BY <1>0, <2>1, <3>1 DEF Silent, txVars, manifestVars
    <3> QED
      BY <1>0, <1>4, <1>7, <3>2 DEF OnTheWay, linkVars
  <2> QED
    BY <2>2, <2>3
<1>8. CASE link /\ smooth' /\ connected
  <2>1. Arriving /\ StreamInv /\ ManifestInv /\ SlotInv /\ TransferInv
    BY <1>5, <1>8 DEF OnTheWay, Arriving, ScriptsBase
  <2>2. ManifestInv' /\ \A s \in Slots : New(s)' = New(s) /\ (Announced(s) => Announced(s)')
    BY <1>0, <2>1 DEF ManifestInv, Announced, New, manifestVars
  <2>3. ASSUME StreamInv', \A s \in Slots : Comes(s)' PROVE OnTheWay'
    BY <1>0, <1>8, <2>2, <2>3 DEF OnTheWay, Arriving, linkVars
  <2>4. \A s \in Slots : Comes(s)
    BY <2>1 DEF Arriving
  <2>5. CASE ScriptPacketReceived
    <3>1. RxWorkPop /\ rxState # "READY" /\ rxState' # "EMPTY" /\ UNCHANGED scripts
      BY <1>8, <2>5 DEF ScriptPacketReceived
    <3>2. StreamInv'
      BY <1>1, <2>1, <3>1, PoppedStream
    <3>3. ASSUME NEW s \in Slots PROVE Comes(s)'
      <4>1. version[s] \in 0 .. MaxUpdates /\ UNCHANGED version
        BY <1>0 DEF ScriptsBase
      <4>2. /\ Moves(s) => Moves(s)' \/ Received(s)'
            /\ NothingOlder(s) => NothingOlder(s)'
        BY <1>1, <2>1, <3>1, <4>1, PoppedMovesOn
      <4>3. ~Received(s) /\ Comes(s)
        BY <2>4, <3>1 DEF Received
      <4> QED
        BY <1>0, <1>1, <2>2, <3>1, <4>2, <4>3 DEF Comes, txVars
    <3> QED
      BY <1>4, <2>3, <3>2, <3>3
  <2>6. CASE ScriptPacketArrives \/ DrainGoesOn
    <3>1. StreamStays /\ UNCHANGED <<rxState, rx, scripts>>
      <4>1. CASE ScriptPacketArrives
        <5>1. Arrive /\ Len(rxq) < RxDepth /\ UNCHANGED scripts
          BY <1>8, <4>1 DEF ScriptPacketArrives
        <5> QED
          BY <2>1, <5>1, ArrivingStream DEF Arrive
      <4>2. CASE DrainGoesOn
        <5>1. UNCHANGED <<wire, rxq, rxState, rx, scripts>>
          BY <4>2 DEF DrainGoesOn, RxWorkStart, RxWorkEnd, scriptVars
        <5> QED
          BY <1>0, <1>1, <5>1 DEF StreamStays, Size, Sent, At, txVars
      <4> QED
        BY <2>6, <4>1, <4>2
    <3>2. StreamInv'
      <4>1. txState' = "EMPTY" /\ Size > 0 => Last(At(Size))
        BY <1>0, <2>1 DEF StreamInv, txVars
      <4> QED
        BY <2>1, <3>1, <4>1, StayingStream
    <3>3. ASSUME NEW s \in Slots PROVE Comes(s)'
      <4>1. (Moves(s) => Moves(s)') /\ (NewFrom(s, 1) => NewFrom(s, 1)')
        BY <2>1, <2>2, <3>1, StreamMovesOn
      <4>2. (Received(s) => Received(s)') /\ (NothingOlder(s) => NothingOlder(s)')
        BY <2>2, <3>1, <4>1 DEF Received, NothingOlder, ReadyIsNew
      <4> QED
        BY <1>0, <1>1, <2>2, <2>4, <3>1, <4>1, <4>2 DEF Comes, txVars
    <3> QED
      BY <1>4, <2>3, <3>2, <3>3
  <2>7. CASE ScriptSlotReceived
    <3>1. /\ wq # << >> /\ Head(wq) = "slot" /\ UNCHANGED <<wire, rxq>>
          /\ delivered' = rx.buffer /\ rxState' = "EMPTY"
          /\ scripts' = [scripts EXCEPT ![SlotOf(rx.buffer[0])] = rx.buffer]
      BY <2>7 DEF ScriptSlotReceived, RxSlotWork
    <3>2. rxState = "READY"
      <4>1. wq \in Seq({"rx", "slot"})
        BY DEF ScriptsBase, ReadyInv, WorkQueue
      <4>2. 1 \in DOMAIN wq /\ wq[1] = "slot"
        BY <3>1, <4>1
      <4> QED
        BY <4>2 DEF ScriptsBase, ReadyInv, ReadySlotIsQueued
    <3>3. StreamStays
      BY <1>0, <1>1, <3>1 DEF StreamStays, Size, Sent, At, txVars
    <3>4. StreamInv'
      <4>1. txState' = "EMPTY" /\ Size > 0 => Last(At(Size))
        BY <1>0, <2>1 DEF StreamInv, txVars
      <4> QED
        BY <2>1, <3>1, <3>2, <3>3, <4>1, StayingStream
    <3>5. ASSUME NEW s \in Slots PROVE Comes(s)'
      <4>1. (Moves(s) => Moves(s)') /\ (NewFrom(s, 1) => NewFrom(s, 1)')
        BY <2>1, <2>2, <3>3, StreamMovesOn
      <4>2. NewFrom(s, 1) => NothingOlder(s)'
        BY <3>1, <4>1 DEF NothingOlder, ReadyIsNew
      <4>3. Received(s) => scripts'[s] = Whole(New(s)) /\ NothingOlder(s)'
        <5> SUFFICES ASSUME Received(s) PROVE scripts'[s] = Whole(New(s)) /\ NothingOlder(s)'
          OBVIOUS
        <5>1. rx.buffer = Whole(New(s)) /\ NewFrom(s, 1)
          BY DEF Received
        <5>2. rx.buffer[0] = New(s)
          <6>1. 0 \in Offsets
            BY LengthFits, SlotAssumption DEF Offsets
          <6> QED
            BY <5>1, <6>1 DEF Whole
        <5>3. SlotOf(rx.buffer[0]) = s
          <6>1. version[s] \in Int
            BY DEF ScriptsBase
          <6> QED
            BY <5>2, <6>1, DatumHasSlot DEF New
        <5>4. scripts'[s] = rx.buffer
          BY <3>1, <5>3 DEF ScriptsBase
        <5> QED
          BY <4>2, <5>1, <5>4
      <4>4. scripts[s] = Whole(New(s)) /\ NothingOlder(s) => scripts'[s] = Whole(New(s))
        <5> SUFFICES ASSUME scripts[s] = Whole(New(s)), NothingOlder(s)
                     PROVE  scripts'[s] = Whole(New(s))
          OBVIOUS
        <5>1. SlotOf(rx.buffer[0]) = s => rx.buffer = Whole(New(s))
          BY <3>2 DEF NothingOlder, ReadyIsNew
        <5> QED
          BY <3>1, <5>1 DEF ScriptsBase
      <4> QED
        BY <1>0, <1>1, <2>2, <2>4, <4>1, <4>2, <4>3, <4>4 DEF Comes, NothingOlder, txVars
    <3> QED
      BY <1>4, <2>3, <3>4, <3>5
  <2> QED
    BY <2>5, <2>6, <2>7
<1> QED
  BY <1>4, <1>6, <1>7, <1>8

(* Every step keeps the invariant.                                         *)
LEMMA ScriptsStep ==
    ScriptsBase /\ OnTheWay /\ [ScriptsNext]_scriptSyncVars => (ScriptsBase /\ OnTheWay)'
<1> SUFFICES ASSUME ScriptsBase, OnTheWay, [ScriptsNext]_scriptSyncVars
             PROVE  ScriptsBase' /\ OnTheWay'
  OBVIOUS
<1>1. CASE UNCHANGED scriptSyncVars
  <2>1. UNCHANGED <<linkVars, txVars, wire, rxVars, version, marks, manifestTx, manifestRx,
                    request, scripts, smooth>>
    BY <1>1 DEF scriptSyncVars, slotVars, scriptVars, manifestVars
  <2>2. SlotInv'
    BY <2>1 DEF ScriptsBase, SlotInv, Sending, txVars, rxVars
  <2>3. TransferInv' /\ Built' = Built
    BY <2>1 DEF ScriptsBase, TransferInv, txVars, HasPacket, Built, BuiltCtx
  <2>4. ReadyInv' /\ NoticesInOrder' /\ ManifestContext'
    BY <2>1 DEF ScriptsBase, ReadyInv, WorkQueue, ReadySlotIsQueued, NoticesInOrder,
                ManifestContext, linkVars, txVars, rxVars
  <2>5. ScriptsBase'
    BY <2>1, <2>2, <2>3, <2>4 DEF ScriptsBase, linkVars
  <2>6. Size' = Size /\ \A k : At(k)' = At(k)
    BY <2>1, <2>3 DEF Size, Sent, At, txVars, rxVars
  <2>7. Silent => Silent'
    BY <2>1 DEF Silent, txVars, rxVars
  <2>8. ManifestInv => ManifestInv'
    BY <2>1 DEF ManifestInv
  <2>9. StreamInv => StreamInv'
    BY <2>1, <2>6 DEF StreamInv, Piece, PieceOf, Tag, Follows, Last, Has, txVars, rxVars
  <2>10. ASSUME NEW s \in Slots, Comes(s) PROVE Comes(s)'
    <3>1. New(s)' = New(s) /\ (Announced(s) <=> Announced(s)')
      BY <2>1 DEF New, Announced
    <3>2. \A k : NewFrom(s, k) <=> NewFrom(s, k)'
      BY <2>6, <3>1 DEF NewFrom, Tag
    <3>3. Moves(s) => Moves(s)'
      BY <2>6, <3>1, <3>2 DEF Moves, Last, Tag
    <3> QED
      BY <2>1, <2>3, <2>10, <3>1, <3>2, <3>3
         DEF Comes, Received, NothingOlder, ReadyIsNew, txVars, rxVars
  <2>11. Arriving => Arriving'
    BY <2>8, <2>9, <2>10 DEF Arriving
  <2> QED
    BY <2>1, <2>5, <2>7, <2>11 DEF OnTheWay, linkVars
<1> QED
  BY <1>1, ConnectionsKeepScripts, ManifestKeepsScripts, SendingKeepsScripts,
     ReceivingKeepsScripts DEF ScriptsNext

(* Once both halves are at rest the slave has every script of the master,   *)
(* whatever was updated and whenever, for any number of slots and updates, *)
(* if nothing was lost, refused or skipped on the connection               *)
(* (script_slot_sync_kick_locked, splitlink_sync_on_connect).              *)
THEOREM ScriptsAlwaysArrive == ScriptsSpec => []ScriptsArrive
<1>1. ScriptsBase /\ OnTheWay => ScriptsArrive
  <2> SUFFICES ASSUME ScriptsBase, OnTheWay, AtRest, smooth, NEW s \in Slots
               PROVE  scripts[s] = Script(s)
    BY DEF ScriptsArrive
  <2>1. /\ link /\ connected /\ wire = << >> /\ rxq = << >> /\ request = {}
        /\ txState = "EMPTY" /\ rxState # "READY" /\ manifestTx = None
        /\ manifestRx.state # "READY"
    BY DEF AtRest, Settled
  <2>2. Comes(s)
    BY <2>1 DEF OnTheWay, Arriving
  <2>3. Size = 0
    BY <2>1 DEF Size, Sent
  <2>4. scripts[s] = Whole(New(s))
    BY <2>1, <2>2, <2>3 DEF Comes, Moves, Received, Announced
  <2> QED
    BY <2>4 DEF Script, New
<1> QED
  BY <1>1, ScriptsStart, ScriptsStep, PTL DEF ScriptsSpec
=============================================================================
