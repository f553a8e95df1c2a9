------------------------------ MODULE BtConnect ------------------------------
(***************************************************************************)
(* The keyboard as a Bluetooth HID device (subsys/bt_connect): its host,    *)
(* its advertising and its battery service.                                 *)
(*                                                                         *)
(* Callbacks of the Bluetooth stack and works of the system workqueue are   *)
(* not interrupted by threads, so each is a step.  The BattSense thread     *)
(* publishes a level in three steps that both can come between.            *)
(* An advertiser, a link and the connection to the other half each hold one *)
(* of maxConn connection objects; the object of a link is still held while  *)
(* its disconnected callback runs.  Connectable advertising ends with the   *)
(* connection, and starts again when the host is gone: there is never a     *)
(* second host, and neither a slot nor a HIDS context is missing.           *)
(* Secondary battery service (off by default) and pairing texts are left    *)
(* out.                                                                     *)
(***************************************************************************)
EXTENDS Integers

CONSTANTS
    MaxConns,    \* values of CONFIG_BT_MAX_CONN to build with
    Levels       \* battery levels that BattSense tells

VARIABLES
    maxConn,        \* CONFIG_BT_MAX_CONN of this build
    slave,          \* the other half's connection holds an object
    link,           \* the host's: "none", "up", or "down" until the callback
    advertised,     \* the stack advertises
    is_advertising, \* what bt_connect believes of it
    slot,           \* conn_states[0].conn is this link
    in_boot_mode, protocol,     \* the mode as bt_connect and as the host know it
    ready,          \* battery_notifications_ready
    pending, valid, primary,    \* pending_battery_level, .._valid, primary_..
    publish,        \* battery_level_publish_work is scheduled
    telling,        \* the BattSense thread in bt_connect_set_battery_level
    secured, subscribed,        \* the link, as the host set it up
    knows,          \* the level the host knows
    missed          \* a notification found nobody, or the host asked for none

connection == <<link, advertised, is_advertising, slot, in_boot_mode, protocol>>
battery    == <<pending, valid, primary, publish, telling>>
host       == <<secured, subscribed, knows, missed>>
hostVars   == <<connection, ready, battery, host>>

Held == (IF slave THEN 1 ELSE 0) + (IF link # "none" \/ advertised THEN 1 ELSE 0)
Room == Held < maxConn

\* bt_connect_init: the level BattSense has is pending, advertising started.
HostInit ==
    /\ maxConn \in MaxConns
    /\ link = "none" /\ advertised = TRUE /\ is_advertising = TRUE
    /\ slot = FALSE /\ in_boot_mode = FALSE /\ protocol = FALSE
    /\ ready = FALSE /\ pending \in Levels /\ valid = TRUE /\ primary = 0
    /\ publish = FALSE /\ telling = "no"
    /\ secured = FALSE /\ subscribed = FALSE /\ knows = 0 /\ missed = FALSE

-----------------------------------------------------------------------------
(* The link *)

\* Faulty variant: the flag stays as it was.
ConnectedKeepsFlag ==
    /\ advertised
    /\ link' = "up" /\ advertised' = FALSE
    /\ slot' = TRUE /\ in_boot_mode' = FALSE /\ protocol' = FALSE
    /\ ready' = FALSE
    /\ secured' = FALSE /\ subscribed' \in BOOLEAN
    /\ knows' = primary /\ missed' = FALSE
    /\ UNCHANGED <<is_advertising, battery>>

\* A bonded host is subscribed from the start; it reads the level.
Connected ==
    /\ advertised
    /\ link' = "up" /\ advertised' = FALSE
    /\ slot' = TRUE /\ in_boot_mode' = FALSE /\ protocol' = FALSE
    /\ is_advertising' = FALSE
    /\ ready' = FALSE
    /\ secured' = FALSE /\ subscribed' \in BOOLEAN
    /\ knows' = primary /\ missed' = FALSE
    /\ UNCHANGED battery

\* Protocol Mode is written: hids_pm_evt_handler.
SetProtocol(boot) ==
    /\ link = "up"
    /\ protocol' = boot
    /\ in_boot_mode' = IF slot THEN boot ELSE in_boot_mode
    /\ UNCHANGED <<link, advertised, is_advertising, slot, ready, battery, host>>

LinkLost ==
    /\ link = "up"
    /\ link' = "down"
    /\ secured' = FALSE /\ subscribed' = FALSE
    /\ UNCHANGED <<advertised, is_advertising, slot, in_boot_mode, protocol,
                   ready, battery, knows, missed>>

\* maybe_restart_advertising, with slots as they are now.
RestartAdvertising(busy) ==
    IF busy \/ is_advertising
    THEN UNCHANGED <<advertised, is_advertising>>
    ELSE advertised' = Room /\ is_advertising' = Room

\* Faulty variant: the slot stays taken.
DisconnectedKeepsSlot ==
    /\ link = "down"
    /\ link' = "none"
    /\ ready' = FALSE /\ publish' = FALSE
    /\ RestartAdvertising(TRUE)
    /\ UNCHANGED <<slot, in_boot_mode, protocol, pending, valid, primary, telling, host>>

\* The object of the link is returned after the callback.
Disconnected ==
    /\ link = "down"
    /\ link' = "none"
    /\ slot' = FALSE /\ in_boot_mode' = FALSE
    /\ ready' = FALSE /\ publish' = FALSE
    /\ RestartAdvertising(FALSE)
    /\ UNCHANGED <<protocol, pending, valid, primary, telling, host>>

-----------------------------------------------------------------------------
(* The battery service *)

\* Faulty variant: what is pending waits for the next level.
SecurityWithoutPublish ==
    /\ link = "up"
    /\ secured' = TRUE
    /\ ready' = TRUE
    /\ UNCHANGED <<connection, battery, subscribed, knows, missed>>

\* Encryption succeeds; a failure changes nothing.
SecurityChanged ==
    /\ link = "up"
    /\ secured' = TRUE
    /\ ready' = TRUE
    /\ publish' = TRUE
    /\ UNCHANGED <<connection, pending, valid, primary, telling,
                   subscribed, knows, missed>>

\* read_primary_battery_level
ReadLevel ==
    /\ link = "up"
    /\ knows' = primary
    /\ UNCHANGED <<connection, ready, battery, secured, subscribed, missed>>

\* primary_battery_ccc_cfg_changed
Subscribe(on) ==
    /\ link = "up" /\ subscribed # on
    /\ subscribed' = on /\ ready' = on
    /\ missed' = (missed \/ ~on)
    /\ UNCHANGED <<connection, battery, secured, knows>>

\* publish_pending_battery_level, after its delay.
PublishPending ==
    /\ publish
    /\ publish' = FALSE
    /\ IF ready /\ valid
       THEN /\ primary' = pending
            /\ valid' = ~subscribed
            /\ IF subscribed THEN knows' = pending /\ missed' = FALSE
                             ELSE missed' = (link = "up") /\ UNCHANGED knows
       ELSE UNCHANGED <<primary, valid, knows, missed>>
    /\ UNCHANGED <<connection, ready, pending, telling, secured, subscribed>>

\* bt_connect_set_battery_level, on the BattSense thread.
SetLevel(level) ==
    /\ telling = "no"
    /\ pending' = level
    /\ telling' = "level"
    /\ UNCHANGED <<connection, ready, valid, primary, publish, host>>

MarkPending ==
    /\ telling = "level"
    /\ valid' = TRUE
    /\ telling' = "valid"
    /\ UNCHANGED <<connection, ready, pending, primary, publish, host>>

Reschedule ==
    /\ telling = "valid"
    /\ publish' = (publish \/ ready)
    /\ telling' = "no"
    /\ UNCHANGED <<connection, ready, pending, valid, primary, host>>

-----------------------------------------------------------------------------
Firmware == Disconnected \/ PublishPending \/ MarkPending \/ Reschedule

Host ==
    \/ Connected \/ LinkLost \/ SecurityChanged \/ ReadLevel
    \/ \E on \in BOOLEAN : SetProtocol(on) \/ Subscribe(on)
    \/ \E level \in Levels : SetLevel(level)

(* Callbacks, works and the BattSense thread go on; hosts need not. *)
HostFairness ==
    /\ WF_hostVars(Disconnected) /\ WF_hostVars(PublishPending)
    /\ WF_hostVars(MarkPending) /\ WF_hostVars(Reschedule)

-----------------------------------------------------------------------------
(* The slot that reports are sent to is the link's from its first to its last *)
(* callback, with the mode the host asked for on this connection, and the     *)
(* flag that decides whether to advertise says what the stack does.           *)
HostIsServed ==
    /\ slot = (link # "none")
    /\ link = "up" => in_boot_mode = protocol
    /\ is_advertising = advertised

(* A host that is subscribed when the level is published is told it: after    *)
(* BattSense set a level and nobody interferes, what a secured host knows is  *)
(* that level, unless a notification came while it was not subscribed.        *)
HostKnowsLevel ==
    []<>(link = "up" /\ secured /\ subscribed /\ ~missed => knows = pending)

(* A keyboard without a host advertises again (its HID information says that  *)
(* it is normally connectable).                                               *)
AdvertisesAlone == (link = "none") ~> (link # "none" \/ advertised)
=============================================================================
