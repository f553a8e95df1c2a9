--------------------------- MODULE SplitlinkValues ---------------------------
(***************************************************************************)
(* The values slot: the slave's kb_handler thread copies every scan frame  *)
(* into splitlink_sync_slave.c's array and schedules a work that sends the *)
(* array; what finds the slot busy waits in pending_values_tx_data.        *)
(*                                                                         *)
(* Offsets are the keys, the version of a part says how often that key     *)
(* changed.  The copy is preemptible: the thread has a lower priority than *)
(* the system workqueue, which may read the array half-way through.        *)
(***************************************************************************)
EXTENDS SplitlinkSlot

CONSTANT MaxChanges     \* bound: changes of one key

ASSUME ValuesAssumption ==
    MaxChanges \in Nat \ {0} /\ Data = 0 .. MaxChanges /\ Blank = 0

VARIABLES
    keys,          \* the physical keys of the slave
    frame,         \* st->local_scan_values: the last scan
    copied,        \* parts of frame memcpy'd, or TotalLen when not copying
    values,        \* values[] of splitlink_sync_slave.c
    sendPending,   \* send_values_pending
    sendScheduled, \* send_values_work is queued
    pending        \* pending_values_tx_data, or None

scanVars  == <<keys, frame, copied, values, sendPending, sendScheduled>>
slaveVars == <<scanVars, pending>>
valuesVars == <<slotVars, slaveVars>>

ValuesInit ==
    /\ SlotInit
    /\ keys = Whole(0) /\ frame = Whole(0) /\ values = Whole(0)
    /\ copied = TotalLen
    /\ sendPending = FALSE /\ sendScheduled = FALSE /\ pending = None

KeyMoves ==
    \E k \in Offsets :
        /\ keys[k] < MaxChanges
        /\ keys' = [keys EXCEPT ![k] = @ + 1]
        /\ UNCHANGED <<slotVars, frame, copied, values, sendPending, sendScheduled,
                       pending>>

\* scan_local_values, then on_local_scan_frame starts its memcpy.
ScanFrame ==
    /\ copied = TotalLen
    /\ frame' = keys
    /\ copied' = 0
    /\ UNCHANGED <<slotVars, keys, values, sendPending, sendScheduled, pending>>

CopyPart ==
    /\ copied < TotalLen - 1
    /\ values' = [values EXCEPT ![copied] = frame[copied]]
    /\ copied' = copied + 1
    /\ UNCHANGED <<slotVars, keys, frame, sendPending, sendScheduled, pending>>

\* The last part, then the compare-exchange and k_work_schedule.
FinishCopy ==
    /\ copied = TotalLen - 1
    /\ values' = [values EXCEPT ![copied] = frame[copied]]
    /\ copied' = TotalLen
    /\ sendPending' = TRUE
    /\ sendScheduled' = (sendScheduled \/ ~sendPending)
    /\ UNCHANGED <<slotVars, keys, frame, pending>>

\* Faulty variants, for the mutation runs: what waits is never replaced, and
\* values also wait for the connection.
KeepFirst(data) ==
    IF ~connected THEN UNCHANGED <<txVars, pending>>
    ELSE IF txState = "EMPTY" THEN BeginTransfer(data) /\ UNCHANGED pending
    ELSE pending' = (IF pending = None THEN data ELSE pending) /\ UNCHANGED txVars

WaitForConnection(data) ==
    IF connected /\ txState = "EMPTY" THEN BeginTransfer(data) /\ UNCHANGED pending
    ELSE pending' = data /\ UNCHANGED txVars

\* splitlink_sync_send_values: what meets a busy slot replaces what waits.
SendValues(data) ==
    IF ~connected THEN UNCHANGED <<txVars, pending>>
    ELSE IF txState = "EMPTY" THEN BeginTransfer(data) /\ UNCHANGED pending
    ELSE pending' = data /\ UNCHANGED txVars

\* send_values_work_handler
SendValuesWork ==
    /\ sendScheduled
    /\ sendScheduled' = FALSE
    /\ sendPending' = FALSE
    /\ SendValues(values)
    /\ UNCHANGED <<linkVars, wire, rxVars, keys, frame, copied, values>>

\* splitlink_sync_protocol_on_connect: the next scan frame carries the values.
SlaveConnectWork ==
    /\ notices # <<>> /\ Head(notices) = "connect"
    /\ notices' = Tail(notices)
    /\ connected' = TRUE
    /\ UNCHANGED <<link, drops, txVars, wire, rxVars, slaveVars>>

Scan == ScanFrame \/ CopyPart \/ FinishCopy

\* tx_slot_work_handler takes what waits when it ends a transfer.
TakesPending(A) ==
    /\ A
    /\ pending' = IF TransferEnds THEN None ELSE pending
    /\ UNCHANGED scanVars

SlaveSlot == LinkUp \/ LinkDown \/ DisconnectWork \/ Arrive \/ Receiver

ValuesNext ==
    \/ KeyMoves \/ Scan \/ SendValuesWork \/ SlaveConnectWork
    \/ TakesPending(TxWork(pending))
    \/ SlaveSlot /\ UNCHANGED slaveVars

ValuesSpec == ValuesInit /\ [][ValuesNext]_valuesVars

Step(A) == A /\ UNCHANGED slaveVars

(* The threads and the workqueues of both halves go on, the radio delivers *)
(* and the halves reconnect.  The drain loop empties rx_msgq and ends      *)
(* again and again although packets keep coming: it runs for microseconds, *)
(* packets are at least a connection interval of 7.5 ms apart.  For the    *)
(* same reason a link that is up has a free buffer again and again, and    *)
(* the slot's work gets its turn.                                          *)
ValuesFairness ==
    /\ WF_valuesVars(Scan)
    /\ WF_valuesVars(SendValuesWork)
    /\ WF_valuesVars(SlaveConnectWork)
    /\ WF_valuesVars(Step(LinkUp)) /\ WF_valuesVars(Step(DisconnectWork))
    /\ WF_valuesVars(TakesPending(TxWork(pending))) /\ SF_valuesVars(TakesPending(TxWorkSend(pending)))
    /\ WF_valuesVars(Step(Arrive))
    /\ WF_valuesVars(Step(RxWorkStart)) /\ WF_valuesVars(Step(RxWorkPop))
    /\ SF_valuesVars(Step(RxWorkPop /\ Len(rxq) = 1))
    /\ SF_valuesVars(Step(RxWorkEnd)) /\ SF_valuesVars(Step(RxSlotWork))

ValuesFairSpec == ValuesSpec /\ ValuesFairness

-----------------------------------------------------------------------------
ValuesTypeOK ==
    /\ SlotTypeOK
    /\ {keys, frame, values} \subseteq Payloads
    /\ copied \in 0 .. TotalLen
    /\ {sendPending, sendScheduled} \subseteq BOOLEAN
    /\ pending \in {None} \cup Payloads

(* A key change is never forgotten on the slave: whatever the array holds  *)
(* that the transmitter has not yet been given is on its way, because the  *)
(* copy is not over, the work is scheduled, or the newest payload of the   *)
(* slot (waiting or being sent) already has it (send_values_pending,       *)
(* pending_values_tx_ready).                                               *)
LastGiven == IF pending # None THEN pending ELSE tx.data

NoLostUpdate ==
    connected /\ txState = "TRANSCEIVING" /\ copied = TotalLen /\ ~sendScheduled
        => \A k \in Offsets : LastGiven[k] = values[k]

(* A payload waits only while the slot is busy: the end of a transfer      *)
(* always takes it along.                                                  *)
WaitsOnlyWhileBusy == pending # None => txState = "TRANSCEIVING"

(* Neither what the array holds nor what waits is left behind.             *)
NewestIsKept == NoLostUpdate /\ WaitsOnlyWhileBusy

(* The master sees the slave's keys: when they rest and the halves stay    *)
(* connected, the values the master holds become those of the keys,        *)
(* whatever was lost before.                                               *)
MasterCatchesUp == <>[](delivered = keys)
=============================================================================
