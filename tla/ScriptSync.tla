------------------------------ MODULE ScriptSync ------------------------------
(***************************************************************************)
(* The backlight scripts: the master keeps the slave's script slots equal  *)
(* to its own.  Slots whose script must be sent are marked in              *)
(* script_slot_sync_pending; whenever the transmit slot is idle a kick     *)
(* takes the lowest mark and sends that slot's script (splitlink_sync_ykb_ *)
(* protocol.c).  Marks are set by an update of a script and by the slave's *)
(* request, the answer to the manifest it gets when it connects.           *)
(*                                                                         *)
(* A datum stands for a part of one script slot after one of its updates.  *)
(* The manifest has an entry, its checksum, per script slot and takes as   *)
(* many packets, which the slave puts together in a slot of their own; it  *)
(* may keep half a manifest from one connection to the next.  The request  *)
(* fits one packet.  Of both, how long they are on the way does not        *)
(* matter, so a packet is taken when it is sent, or lost: the other slots  *)
(* fill the receive queues, too.                                           *)
(*                                                                         *)
(* (ykb_backlight_get_script_slot has no other error than a slot out of    *)
(* range, and the marks are as many as its slots.)                         *)
(***************************************************************************)
EXTENDS SplitlinkSlot

CONSTANTS
    SlotCount,      \* CONFIG_YKB_BL_SCRIPT_SLOT_COUNT, sent as a uint16_t
    MaxUpdates      \* bound: updates of one script

ASSUME ScriptAssumption ==
    /\ SlotCount \in 1 .. U16 - 1 /\ MaxUpdates \in Nat
    /\ Data = 0 .. SlotCount * (MaxUpdates + 1) - 1 /\ Blank = 0

Slots == 0 .. SlotCount - 1

\* The datum of slot s after its n-th update, and the way back.
Datum(s, n)   == n * SlotCount + s
SlotOf(datum) == datum % SlotCount
UpdateOf(datum) == datum \div SlotCount

VARIABLES
    version,     \* the master's scripts
    marks,       \* script_slot_sync_pending
    manifestTx,  \* what the master's manifest slot is sending, or None
    manifestRx,  \* the slave's manifest slot: its state and its context
    request,     \* slots the slave asks for, on their way to the master
    scripts,     \* the slave's script slots: what each part came from
    smooth       \* nothing was lost, refused or skipped on this connection

manifestVars == <<manifestTx, manifestRx>>
scriptVars == <<version, marks, manifestVars, request, scripts, smooth>>
scriptSyncVars == <<slotVars, scriptVars>>

\* ykb_backlight_get_script_slot
Script(s) == Whole(Datum(s, version[s]))

ManifestId == 4

\* rx_init of the manifest slot, one packet per script slot.
FreshManifest(buffer) ==
    RxInit(buffer, SlotCount, OutOfOrder, IF OutOfOrder THEN 32 ELSE 0)

ScriptsInit ==
    /\ SlotInit
    /\ version = [s \in Slots |-> 0]
    /\ marks = {} /\ request = {}
    /\ manifestTx = None
    /\ manifestRx = [state |-> "EMPTY", rx |-> FreshManifest([s \in Slots |-> 0])]
    /\ scripts = [s \in Slots |-> Whole(Datum(s, 0))]
    /\ smooth = TRUE

\* script_slot_sync_take_next_locked
Lowest(set) == CHOOSE s \in set : \A t \in set : s <= t

\* script_slot_sync_kick_locked, with these slots marked.
Kick(marked) ==
    IF connected /\ txState = "EMPTY" /\ marked # {}
    THEN /\ BeginTransfer(Whole(Datum(Lowest(marked), version'[Lowest(marked)])))
         /\ marks' = marked \ {Lowest(marked)}
    ELSE marks' = marked /\ UNCHANGED txVars

\* ykb_backlight_set_script_slot on the master: the callback marks and kicks.
ScriptUpdate ==
    \E s \in Slots :
        /\ version[s] < MaxUpdates
        /\ version' = [version EXCEPT ![s] = @ + 1]
        /\ Kick(marks \cup {s})
        /\ UNCHANGED <<linkVars, wire, rxVars, manifestVars, request, scripts, smooth>>

-----------------------------------------------------------------------------
(* The connection.  The works end what they were sending long before the   *)
(* next one (see Settled).  What an earlier one left half received in a    *)
(* slot of the slave meets the first packets of the next.                  *)

ScriptsLinkUp ==
    /\ manifestTx = None /\ manifestRx.state # "READY" /\ request = {}
    /\ LinkUp
    /\ smooth' = (rxState = "EMPTY" /\ manifestRx.state = "EMPTY")
    /\ UNCHANGED <<version, marks, manifestVars, request, scripts>>

LinkLost == LinkDown /\ UNCHANGED scriptVars

\* splitlink_sync_on_connect: a manifest slot that is busy drops the manifest.
MasterConnectWork ==
    /\ notices # <<>> /\ Head(notices) = "connect"
    /\ notices' = Tail(notices)
    /\ connected' = TRUE
    /\ manifestTx' = IF manifestTx = None THEN TxInit(version, SlotCount, ManifestId)
                     ELSE manifestTx
    /\ smooth' = (smooth /\ manifestTx = None)
    /\ UNCHANGED <<link, drops, txVars, wire, rxVars, version, marks, manifestRx,
                   request, scripts>>

\* splitlink_sync_protocol_on_disconnect forgets the marks.
ForgetMarks ==
    /\ DisconnectWork
    /\ marks' = {}
    /\ UNCHANGED <<version, manifestVars, request, scripts, smooth>>

-----------------------------------------------------------------------------
(* Manifest and request *)

\* splitlink_sync_protocol_on_receive for a packet of the manifest.
ManifestReceives(p) ==
    LET push == RxPushPacket(IF manifestRx.state = "EMPTY"
                             THEN FreshManifest(manifestRx.rx.buffer)
                             ELSE manifestRx.rx, p)
    IN CASE manifestRx.state = "READY" -> smooth' = FALSE /\ UNCHANGED manifestRx
         [] push.res \in RxErrors /\ manifestRx.state # "READY" ->
              /\ manifestRx' = [state |-> "EMPTY", rx |-> RxReset(push.rx)]
              /\ smooth' = FALSE
         [] OTHER ->
              /\ manifestRx' = [state |-> IF push.res = "COMPLETE" THEN "READY"
                                          ELSE "RECEIVING", rx |-> push.rx]
              /\ UNCHANGED smooth

\* tx_slot_work_handler of the manifest slot, and the way of its packet.
SendManifestPacket ==
    /\ manifestTx # None /\ link
    /\ LET sent == TxAfterPacket(manifestTx)
       IN manifestTx' = IF TxHasMore(sent) THEN sent ELSE None
    /\ \/ ManifestReceives(TxPacket(manifestTx))
       \/ smooth' = FALSE /\ UNCHANGED manifestRx
    /\ UNCHANGED <<slotVars, version, marks, request, scripts>>

ManifestSendFails ==
    /\ manifestTx # None /\ ~link
    /\ manifestTx' = None
    /\ UNCHANGED <<slotVars, version, marks, manifestRx, request, scripts, smooth>>

\* splitlink_sync_scripts_manifest_received: ask for the slots that differ.
ManifestReceived ==
    /\ manifestRx.state = "READY" /\ ~draining
    /\ request' = {s \in Slots : scripts[s] # Whole(Datum(s, manifestRx.rx.buffer[s]))}
    /\ manifestRx' = [state |-> "EMPTY", rx |-> RxReset(manifestRx.rx)]
    /\ UNCHANGED <<slotVars, version, marks, manifestTx, scripts, smooth>>

\* The slave is not told of the connection yet, its slot is busy, the link is
\* gone, or the queue of the master is full.
RequestLost ==
    /\ request # {}
    /\ request' = {} /\ smooth' = FALSE
    /\ UNCHANGED <<slotVars, version, marks, manifestVars, scripts>>

\* splitlink_sync_scripts_request_received: each slot is marked and kicked.
RequestReceived ==
    /\ request # {}
    /\ request' = {}
    /\ UNCHANGED <<linkVars, wire, rxVars, version, manifestVars, scripts, smooth>>
    /\ Kick(marks \cup request)

-----------------------------------------------------------------------------
(* The script slot *)

\* Faulty variant: no kick when a transfer ends.
EndsWithoutKick ==
    TxWork(None) /\ UNCHANGED scriptVars

\* The kick at the end of tx_slot_work_handler.
TakesMark ==
    LET next == IF connected /\ marks # {} THEN Script(Lowest(marks)) ELSE None
    IN /\ TxWork(next)
       /\ marks' = IF TransferEnds /\ next # None
                   THEN marks \ {Lowest(marks)} ELSE marks
       /\ UNCHANGED <<version, manifestVars, request, scripts, smooth>>

ScriptPacketArrives ==
    /\ Arrive
    /\ smooth' = (smooth /\ Len(rxq) < RxDepth)
    /\ UNCHANGED <<version, marks, manifestVars, request, scripts>>

ScriptPacketReceived ==
    /\ RxWorkPop
    /\ smooth' = (smooth /\ rxState # "READY" /\ rxState' # "EMPTY")
    /\ UNCHANGED <<version, marks, manifestVars, request, scripts>>

\* splitlink_sync_script_slot_received: the first part names the slot.
ScriptSlotReceived ==
    /\ RxSlotWork
    /\ scripts' = [scripts EXCEPT ![SlotOf(delivered'[0])] = delivered']
    /\ UNCHANGED <<version, marks, manifestVars, request, smooth>>

DrainGoesOn == (RxWorkStart \/ RxWorkEnd) /\ UNCHANGED scriptVars

ScriptsNext ==
    \/ ScriptUpdate
    \/ ScriptsLinkUp \/ LinkLost \/ MasterConnectWork \/ ForgetMarks
    \/ SendManifestPacket \/ ManifestSendFails \/ ManifestReceived
    \/ RequestLost \/ RequestReceived
    \/ TakesMark \/ ScriptPacketArrives \/ ScriptPacketReceived
    \/ ScriptSlotReceived \/ DrainGoesOn

ScriptsSpec == ScriptsInit /\ [][ScriptsNext]_scriptSyncVars

-----------------------------------------------------------------------------
ScriptsTypeOK ==
    /\ SlotTypeOK
    /\ version \in [Slots -> 0 .. MaxUpdates]
    /\ marks \subseteq Slots
    /\ manifestTx # None => manifestTx.data \in [Slots -> 0 .. MaxUpdates]
    /\ manifestRx.state \in {"EMPTY", "RECEIVING", "READY"}
    /\ manifestRx.rx.buffer \in [Slots -> 0 .. MaxUpdates]
    /\ request \subseteq Slots
    /\ scripts \in [Slots -> Payloads]
    /\ smooth \in BOOLEAN

\* Both halves are connected and have nothing left to do.
AtRest ==
    /\ link /\ Settled /\ connected /\ wire = <<>>
    /\ txState = "EMPTY" /\ rxState # "READY"
    /\ manifestTx = None /\ manifestRx.state # "READY" /\ request = {}

(* Once both halves are at rest the slave has the scripts of the master,   *)
(* whatever was updated before the connection, while the manifest was on   *)
(* its way or while scripts were sent.  Only a packet that is lost,        *)
(* refused or skipped is never made up for before the next connection.     *)
ScriptsArrive == AtRest /\ smooth => \A s \in Slots : scripts[s] = Script(s)

(* Each script slot of the slave holds one script of the master's for that *)
(* very slot, never parts of two scripts (script_slot_received trusts the  *)
(* slot number of the first packet for all of them).                       *)
ScriptsWhole ==
    \A s \in Slots : \E n \in 0 .. version[s] : scripts[s] = Whole(Datum(s, n))
=============================================================================
