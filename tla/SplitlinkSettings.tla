-------------------------- MODULE SplitlinkSettings --------------------------
(***************************************************************************)
(* The settings slot: the master sends its settings to the slave whenever  *)
(* they change and when the slave connects (splitlink_sync_master.c); the  *)
(* slave applies what its rx_slot completes (splitlink_sync_slave.c).      *)
(* Version n is the master's settings after the n-th kb_settings_apply.    *)
(*                                                                         *)
(* The configurator's settings are applied by a work of the system         *)
(* workqueue, those of an FN shortcut by the kb_handler thread, which the  *)
(* system workqueue can preempt in the middle of tx_slot_begin_transfer.   *)
(***************************************************************************)
EXTENDS SplitlinkSlot

CONSTANTS
    MaxVersion,     \* bound: versions of the settings
    FnActions       \* settings are also changed by FN shortcuts

ASSUME SettingsAssumption ==
    /\ MaxVersion \in Nat \ {0}
    /\ Data = 0 .. MaxVersion /\ Blank = 0
    /\ FnActions \in BOOLEAN

VARIABLES
    current,     \* the master's settings
    beginning    \* what the kb_handler thread is about to copy, or None

settVars == <<current, beginning>>
vars == <<slotVars, settVars>>

Init == SlotInit /\ current = 0 /\ beginning = None

\* kb_settings_apply on the master: splitlink_sync_on_settings_update sends.
ApplySettings ==
    /\ current < MaxVersion
    /\ current' = current + 1
    /\ IF connected THEN SendOrDrop(Whole(current')) ELSE UNCHANGED txVars
    /\ UNCHANGED <<linkVars, wire, rxVars, beginning>>

\* The same on the kb_handler thread, up to the memcpy into slot->data.
FnApplySettings ==
    /\ FnActions /\ beginning = None
    /\ current < MaxVersion
    /\ current' = current + 1
    /\ IF connected /\ txState = "EMPTY"
       THEN /\ tx' = TxInit(tx.data, TotalLen, SlotId)
            /\ beginning' = Whole(current')
       ELSE UNCHANGED <<tx, beginning>>
    /\ UNCHANGED <<linkVars, txState, pkt, txWork, wire, rxVars>>

\* The memcpy and the rest of tx_slot_begin_transfer.
FnFinishBegin ==
    /\ beginning # None
    /\ tx' = [tx EXCEPT !.data = beginning]
    /\ pkt' = None /\ txState' = "TRANSCEIVING" /\ txWork' = TRUE
    /\ beginning' = None
    /\ UNCHANGED <<linkVars, wire, rxVars, current>>

\* Faulty variant: the copy made when the master started is sent.
ConnectSendsOldCopy ==
    /\ notices # <<>> /\ Head(notices) = "connect"
    /\ notices' = Tail(notices)
    /\ connected' = TRUE
    /\ SendOrDrop(Whole(0))
    /\ UNCHANGED <<link, drops, wire, rxVars, settVars>>

\* splitlink_sync_protocol_on_connect, then splitlink_sync_on_connect.
ConnectWork ==
    /\ notices # <<>> /\ Head(notices) = "connect"
    /\ notices' = Tail(notices)
    /\ connected' = TRUE
    /\ SendOrDrop(Whole(current))
    /\ UNCHANGED <<link, drops, wire, rxVars, settVars>>

Slot ==
    LinkUp \/ LinkDown \/ DisconnectWork \/ TxWork(None) \/ Arrive \/ Receiver

Next ==
    \/ ApplySettings \/ FnApplySettings \/ FnFinishBegin \/ ConnectWork
    \/ Slot /\ UNCHANGED settVars

Spec == Init /\ [][Next]_vars

-----------------------------------------------------------------------------
TypeOK ==
    /\ SlotTypeOK
    /\ current \in Data
    /\ beginning \in {None} \cup Payloads

(* The slave never applies settings that mix two settings of the master    *)
(* (rx_slot_work_handler hands over slot->data as one kb_settings_t).      *)
SettingsWhole == \A i, j \in Offsets : delivered[i] = delivered[j]
=============================================================================
