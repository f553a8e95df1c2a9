--------------------------- MODULE SplitlinkBattery ---------------------------
(***************************************************************************)
(* The battery slot.  The slave's BattSense thread hands every change to   *)
(* splitlink_sync_slave.c from its own context and under its own mutex;    *)
(* the work that reports a new connection asks for the state under the     *)
(* same mutex.  Version n is the n-th battery state.                       *)
(*                                                                         *)
(* The BattSense thread has the lowest priority of all: the system         *)
(* workqueue can run between the test of the slot and the two assignments  *)
(* to pending_battery_tx_*.                                                *)
(***************************************************************************)
EXTENDS SplitlinkSlot

CONSTANT MaxVersion     \* bound: changes of the battery state

VARIABLES
    state,      \* the slave's battery state
    thread,     \* the BattSense thread: "sleep", or where it is in its callback
    asking,     \* splitlink_sync_on_connect is about to call get_state
    pending     \* pending_battery_tx_state, or None

battVars == <<state, thread, asking, pending>>
vars == <<slotVars, battVars>>

Init ==
    /\ SlotInit
    /\ state = 0 /\ thread = "sleep" /\ asking = FALSE
    /\ pending = None

(* The thread locks the mutex, sees a change and calls on_state_changed.   *)
(* While the system workqueue waits for the mutex or runs, it does not.    *)
StateChanges ==
    /\ thread = "sleep" /\ ~asking
    /\ state < MaxVersion
    /\ state' = state + 1
    /\ thread' = "changed"
    /\ UNCHANGED <<slotVars, asking, pending>>

\* splitlink_sync_send_battery_state up to and with the test of the slot.
SendBatteryState ==
    /\ thread = "changed"
    /\ IF connected /\ txState = "TRANSCEIVING"
       THEN thread' = "slotBusy" /\ UNCHANGED txVars
       ELSE /\ thread' = "sleep"
            /\ IF connected THEN BeginTransfer(Whole(state))
               ELSE UNCHANGED txVars
    /\ UNCHANGED <<linkVars, wire, rxVars, state, asking, pending>>

\* The assignments that follow when the slot was busy.
KeepBatteryState ==
    /\ thread = "slotBusy"
    /\ pending' = Whole(state)
    /\ thread' = "sleep"
    /\ UNCHANGED <<slotVars, state, asking>>

ConnectWork ==
    /\ notices # <<>> /\ Head(notices) = "connect"
    /\ ~asking
    /\ connected' = TRUE
    /\ asking' = TRUE
    /\ UNCHANGED <<link, drops, notices, txVars, wire, rxVars, state, thread,
                   pending>>

\* ykb_battsense_get_state has the mutex.
AnswerConnect ==
    /\ asking /\ thread = "sleep"
    /\ asking' = FALSE
    /\ notices' = Tail(notices)
    /\ IF txState = "EMPTY"
       THEN BeginTransfer(Whole(state)) /\ UNCHANGED pending
       ELSE pending' = Whole(state) /\ UNCHANGED txVars
    /\ UNCHANGED <<link, drops, connected, wire, rxVars, state, thread>>

(* The works of the slave's system workqueue wait while one of them does. *)

\* tx_slot_work_handler takes what waits when it ends a transfer.
SlotWork ==
    /\ ~asking
    /\ TxWork(pending)
    /\ pending' = IF TransferEnds THEN None ELSE pending
    /\ UNCHANGED <<state, thread, asking>>

LostWork == ~asking /\ DisconnectWork /\ UNCHANGED battVars

Slot == LinkUp \/ LinkDown \/ Arrive \/ Receiver

Next ==
    \/ StateChanges \/ SendBatteryState \/ KeepBatteryState
    \/ ConnectWork \/ AnswerConnect \/ SlotWork \/ LostWork
    \/ Slot /\ UNCHANGED battVars

Spec == Init /\ [][Next]_vars

-----------------------------------------------------------------------------
TypeOK ==
    /\ SlotTypeOK
    /\ state \in Data
    /\ thread \in {"sleep", "changed", "slotBusy"}
    /\ asking \in BOOLEAN
    /\ pending \in {None} \cup Payloads
=============================================================================
