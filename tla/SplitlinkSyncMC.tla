--------------------------- MODULE SplitlinkSyncMC ---------------------------
(***************************************************************************)
(* Instance for TLC: every use of a slot of the sync protocol.  A slot is  *)
(* used for one thing, which the initial state chooses: the settings of    *)
(* the module this one extends, where FN shortcuts apply settings too, or  *)
(* one of the instances below.  What belongs to the other uses stays as it *)
(* is.                                                                     *)
(***************************************************************************)
EXTENDS SplitlinkSettings, ScriptSync

VARIABLES
    kind,                                   \* what the slot is used for
    keys, frame, copied, values, sendPending, sendScheduled,      \* values
    pending,                                             \* values, battery
    state, thread, asking                                        \* battery

\* Only the configurator applies settings.
Settings == INSTANCE SplitlinkSettings
    WITH FnActions <- FALSE

\* The same without the out-of-order bitmap, with a queue that never fills.
InOrder == INSTANCE SplitlinkSettings
    WITH FnActions <- FALSE, OutOfOrder <- FALSE, RxDepth <- 8

\* Two keys.
Values == INSTANCE SplitlinkValues
    WITH WireDepth <- 1, MaxChanges <- 1

Battery == INSTANCE SplitlinkBattery
    WITH WireDepth <- 1

\* Two script slots, in order, with a queue that never fills.
Scripts == INSTANCE ScriptSync
    WITH OutOfOrder <- FALSE, RxDepth <- 8, WireDepth <- 1

scanVars   == <<keys, frame, copied, values, sendPending, sendScheduled>>
batteryVars == <<state, thread, asking>>

NoSettings == current = 0 /\ beginning = None
NoScan ==
    /\ keys = None /\ frame = None /\ values = None /\ copied = 0
    /\ sendPending = FALSE /\ sendScheduled = FALSE
NoBattery == state = 0 /\ thread = "none" /\ asking = FALSE
NoScripts ==
    /\ version = None /\ marks = {} /\ manifestTx = None /\ manifestRx = None
    /\ request = {} /\ scripts = None /\ smooth = TRUE

SyncInit ==
    \/ /\ \/ kind = "shortcuts" /\ Init
          \/ kind = "settings" /\ Settings!Init
          \/ kind = "in order" /\ InOrder!Init
       /\ NoScan /\ pending = None /\ NoBattery /\ NoScripts
    \/ kind = "values" /\ Values!ValuesInit /\ NoSettings /\ NoBattery /\ NoScripts
    \/ kind = "battery" /\ Battery!Init /\ NoSettings /\ NoScan /\ NoScripts
    \/ kind = "scripts" /\ Scripts!ScriptsInit /\ NoSettings /\ NoScan /\ NoBattery
                        /\ pending = None

SyncNext ==
    /\ UNCHANGED kind
    /\ \/ /\ \/ kind = "shortcuts" /\ Next
             \/ kind = "settings" /\ Settings!Next
             \/ kind = "in order" /\ InOrder!Next
          /\ UNCHANGED <<scanVars, pending, batteryVars, scriptVars>>
       \/ /\ kind = "values" /\ Values!ValuesNext
          /\ UNCHANGED <<settVars, batteryVars, scriptVars>>
       \/ /\ kind = "battery" /\ Battery!Next
          /\ UNCHANGED <<settVars, scanVars, scriptVars>>
       \/ /\ kind = "scripts" /\ Scripts!ScriptsNext
          /\ UNCHANGED <<settVars, scanVars, pending, batteryVars>>

syncVars == <<vars, kind, scanVars, pending, batteryVars, scriptVars>>

SyncSpec == SyncInit /\ [][SyncNext]_syncVars

-----------------------------------------------------------------------------
(* What the slave applies over an in-order slot are whole settings of the  *)
(* master, never parts of two (rx_slot_work_handler hands slot->data over  *)
(* as one kb_settings_t), in the order in which the master had them: the   *)
(* slot implements a register.  Parts that differ are no value of it.      *)
Applied == IF \A i \in Offsets : delivered[i] = delivered[0] THEN delivered[0] ELSE -1

Register == INSTANCE SyncRegister
    WITH written <- IF kind = "in order" THEN current ELSE 0,
         read <- IF kind = "in order" THEN Applied ELSE 0

IsRegister == Register!Spec

(* What the slave has never goes back to an older version, across losses,  *)
(* reconnections and half-finished transfers: no part of its settings, no  *)
(* key of the master's picture of it, and over an in-order slot none of    *)
(* its scripts.  There each script slot also holds one script of the       *)
(* master's for that very slot (script_slot_received trusts the slot       *)
(* number of the first packet for all of them).                            *)
ScriptsStayWhole ==
    /\ Scripts!ScriptsWhole'
    /\ \A s \in Scripts!Slots, i \in Offsets :
           Scripts!UpdateOf(scripts'[s][i]) >= Scripts!UpdateOf(scripts[s][i])

SlaveGoesForward ==
    [][ /\ (kind \in {"settings", "values"}) => PartsGoForward
        /\ kind = "scripts" => ScriptsStayWhole ]_syncVars

(* Once both halves are at rest the slave has the scripts of the master,   *)
(* unless something was lost, refused or skipped since the connection was  *)
(* made: Scripts!ScriptsArrive (on_connect, the manifest, the request and  *)
(* the kick at the end of tx_slot_work_handler, together).                 *)
ScriptsComeOver == kind = "scripts" => Scripts!ScriptsArrive
=============================================================================
