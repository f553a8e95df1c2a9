---------------------------- MODULE SplitlinkLink ----------------------------
(***************************************************************************)
(* How the halves find each other over Bluetooth (subsys/splitlink,        *)
(* splitlink_bt): the central scans, connects, exchanges the MTU and       *)
(* discovers the service of the peripheral, which advertises; each tells   *)
(* its sync layer of the connection through works of its system workqueue. *)
(*                                                                         *)
(* Bluetooth callbacks run one after the other on the host's receive       *)
(* thread, so each is a step.  GATT requests are answered one at a time, in *)
(* the order they were made; every discovery shares discover_params, which *)
(* the callback reads when the answer comes.  A handle is "none" (0),      *)
(* "good", or "bad" where it is taken from an attribute that has none.     *)
(* Parameter, PHY and data length updates change nothing here.             *)
(***************************************************************************)
EXTENDS Integers, WorkQueue

CONSTANTS
    MaxFaults,       \* bound: losses and failures of the radio and of requests
    BusyWorkqueue    \* whether a workqueue may be kept busy while the halves
                     \* lose each other, find each other and connect again

ASSUME SplitlinkLinkAssumption ==
    /\ MaxFaults \in Nat
    /\ BusyWorkqueue \in BOOLEAN

Halves == {"central", "peripheral"}

VARIABLES
    radio,       \* the connection exists
    events,      \* connection callbacks that are due, per half
    faults,      \* how often something failed
    scanning, conn,            \* the central: its scan and dev_data->conn
    fallback,                  \* mtu_fallback_work is scheduled
    requests,                  \* GATT requests that are not answered
    want,                      \* discover_params: what is looked for
    service, txHandle, rxHandle,
    advertising, peer,         \* the peripheral: its advertising and conn
    restart,                   \* adv_restart_work is scheduled
    notifyEnabled,
    connected,   \* data->connected, per half
    works,       \* connect_work and disconnect_work, per half
    told         \* what the sync layer was told last, per half

air     == <<radio, events, faults>>
search  == <<want, service, txHandle, rxHandle>>
central == <<scanning, conn, fallback, requests, search>>
other   == <<advertising, peer, restart, notifyEnabled>>
upwards == <<connected, works, told>>
vars    == <<air, central, other, upwards>>

Init ==
    /\ radio = FALSE /\ events = [h \in Halves |-> << >>] /\ faults = 0
    /\ scanning = TRUE /\ conn = FALSE /\ fallback = FALSE /\ requests = << >>
    /\ want = "none" /\ service = FALSE /\ txHandle = "none" /\ rxHandle = "none"
    /\ advertising = TRUE /\ peer = FALSE /\ restart = FALSE /\ notifyEnabled = FALSE
    /\ connected = [h \in Halves |-> FALSE]
    /\ works = [h \in Halves |-> << >>]
    /\ told = [h \in Halves |-> FALSE]

-----------------------------------------------------------------------------
(* splitlink_bt.h: the flag changes at once, the sync layer hears of it     *)
(* from a work                                                              *)

NotifyConnected(h) ==
    /\ connected' = [connected EXCEPT ![h] = TRUE]
    /\ works' = IF connected[h] THEN works
                ELSE [works EXCEPT ![h] = Submit(@, "connect")]
    /\ UNCHANGED told

\* Faulty variant: the sync layer does not hear of it.
DisconnectUntold(h) ==
    /\ connected' = [connected EXCEPT ![h] = FALSE]
    /\ UNCHANGED <<works, told>>

\* Faulty variant: the flag is left as it is.
DisconnectUnflagged(h) ==
    /\ works' = IF connected[h] THEN [works EXCEPT ![h] = Submit(@, "disconnect")]
                ELSE works
    /\ UNCHANGED <<connected, told>>

NotifyDisconnected(h) ==
    /\ connected' = [connected EXCEPT ![h] = FALSE]
    /\ works' = IF connected[h] THEN [works EXCEPT ![h] = Submit(@, "disconnect")]
                ELSE works
    /\ UNCHANGED told

RunWork(h) ==
    /\ works[h] # << >>
    /\ told' = [told EXCEPT ![h] = Head(works[h]) = "connect"]
    /\ works' = [works EXCEPT ![h] = Tail(@)]
    /\ UNCHANGED <<air, central, other, connected>>

-----------------------------------------------------------------------------
(* The radio (external) *)

Due(h, e) == [events EXCEPT ![h] = Append(@, e)]

EndConnection ==
    /\ radio' = FALSE
    /\ events' = [h \in Halves |-> Append(events[h], "disconnected")]

\* While the halves lose and find each other, at least 200 ms pass.
Rested == BusyWorkqueue \/ \A h \in Halves : works[h] = << >>

Connects ==
    /\ conn /\ ~scanning /\ ~radio /\ advertising /\ events["central"] = << >>
    /\ Rested
    /\ radio' = TRUE
    /\ advertising' = FALSE
    /\ events' = [h \in Halves |-> Append(events[h], "connected")]
    /\ UNCHANGED <<faults, central, peer, restart, notifyEnabled, upwards>>

Fault == faults < MaxFaults /\ faults' = faults + 1

CreateFails ==
    /\ conn /\ ~scanning /\ ~radio /\ events["central"] = << >>
    /\ Fault
    /\ events' = Due("central", "failed")
    /\ UNCHANGED <<radio, central, other, upwards>>

AdvertisingFails ==
    /\ advertising
    /\ Fault
    /\ advertising' = FALSE
    /\ events' = Due("peripheral", "failed")
    /\ UNCHANGED <<radio, central, peer, restart, notifyEnabled, upwards>>

ConnectionLost ==
    /\ radio
    /\ Fault
    /\ EndConnection
    /\ requests' = << >>
    /\ UNCHANGED <<scanning, conn, fallback, search, other, upwards>>

-----------------------------------------------------------------------------
(* The central *)

DeviceFound ==
    /\ scanning /\ advertising /\ ~conn
    /\ scanning' = FALSE
    /\ conn' = TRUE
    /\ UNCHANGED <<air, fallback, requests, search, other, upwards>>

\* A request that can be made: not on a connection that is gone already.
Request(pending, request) == IF radio THEN Append(pending, request) ELSE << >>

\* start_primary_discovery: not again once the service is found.
PrimaryDiscovery(pending) ==
    IF ~conn \/ service
    THEN /\ requests' = pending /\ UNCHANGED want
    ELSE /\ requests' = Request(pending, "primary") /\ want' = "service"

\* A discovery that cannot be started, or ends too early, ends the connection.
GivesUp(pending) ==
    /\ Fault
    /\ EndConnection
    /\ requests' = << >>
    /\ UNCHANGED want

Handle(e) ==
    /\ events["central"] # << >> /\ Head(events["central"]) = e
    /\ events' = [events EXCEPT !["central"] = Tail(@)]

CentralConnected ==
    /\ Handle("connected")
    /\ \/ /\ radio
          /\ requests' = Request(requests, "mtu")
          /\ fallback' = TRUE
          /\ UNCHANGED <<faults, want>>
       \/ /\ IF radio THEN Fault ELSE UNCHANGED faults
          /\ PrimaryDiscovery(requests)
          /\ fallback' = FALSE
    /\ UNCHANGED <<radio, scanning, conn, service, txHandle, rxHandle, other, upwards>>

CentralFailed ==
    /\ Handle("failed")
    /\ conn' = FALSE
    /\ scanning' = TRUE
    /\ UNCHANGED <<radio, faults, fallback, requests, search, other, upwards>>

\* Faulty variant: the handles of the last connection survive.
DisconnectKeepsHandles ==
    /\ Handle("disconnected")
    /\ fallback' = FALSE
    /\ NotifyDisconnected("central")
    /\ conn' = FALSE
    /\ scanning' = TRUE
    /\ UNCHANGED <<radio, faults, requests, search, other>>

CentralDisconnected ==
    /\ Handle("disconnected")
    /\ fallback' = FALSE
    /\ NotifyDisconnected("central")
    /\ want' = "none" /\ service' = FALSE /\ txHandle' = "none" /\ rxHandle' = "none"
    /\ conn' = FALSE
    /\ scanning' = TRUE
    /\ UNCHANGED <<radio, faults, requests, other>>

\* The answer to the oldest request; the connection's callbacks come first.
Answered(request) ==
    /\ radio /\ requests # << >> /\ Head(requests) = request
    /\ \A h \in Halves : events[h] = << >>

MtuExchanged ==
    /\ Answered("mtu")
    /\ fallback' = FALSE
    /\ PrimaryDiscovery(Tail(requests))
    /\ UNCHANGED <<air, scanning, conn, service, txHandle, rxHandle, other, upwards>>

\* The timer: the answer to the MTU request took longer than 500 ms.
MtuFallback ==
    /\ fallback
    /\ fallback' = FALSE
    /\ PrimaryDiscovery(requests)
    /\ UNCHANGED <<air, scanning, conn, service, txHandle, rxHandle, other, upwards>>

\* An attribute that is a service has no value handle.
ValueHandle(request) == IF request = "primary" THEN "bad" ELSE "good"

\* The callback goes by what discover_params ask for now.
Discovered(request) ==
    /\ Answered(request)
    /\ \/ /\ want = "service"
          /\ service' = TRUE
          /\ want' = "tx"
          /\ requests' = Append(Tail(requests), "characteristic")
          /\ UNCHANGED <<txHandle, rxHandle, upwards>>
       \/ /\ want = "tx"
          /\ txHandle' = ValueHandle(request)
          /\ want' = "rx"
          /\ requests' = Append(Tail(requests), "characteristic")
          /\ UNCHANGED <<service, rxHandle, upwards>>
       \/ /\ want = "rx"
          /\ rxHandle' = ValueHandle(request)
          /\ requests' = Append(Tail(requests), "subscribe")
          /\ NotifyConnected("central")
          /\ UNCHANGED <<service, txHandle, want>>
    /\ UNCHANGED <<air, scanning, conn, fallback, other>>

\* No attribute, or the next request cannot be made.
DiscoveryFails ==
    /\ \E request \in {"primary", "characteristic"} : Answered(request)
    /\ GivesUp(Tail(requests))
    /\ UNCHANGED <<scanning, conn, fallback, service, txHandle, rxHandle, other, upwards>>

\* The peer takes the subscription: its CCC callback.
Subscribed ==
    /\ Answered("subscribe")
    /\ txHandle = "good"
    /\ requests' = Tail(requests)
    /\ notifyEnabled' = TRUE
    /\ IF peer THEN NotifyConnected("peripheral") ELSE NotifyDisconnected("peripheral")
    /\ UNCHANGED <<air, scanning, conn, fallback, search, advertising, peer, restart>>

\* The peer refuses it: the notify callback without data.
NotificationsStopped ==
    /\ Answered("subscribe")
    /\ txHandle # "good"
    /\ requests' = Tail(requests)
    /\ txHandle' = "none" /\ rxHandle' = "none"
    /\ NotifyDisconnected("central")
    /\ UNCHANGED <<air, scanning, conn, fallback, want, service, other>>

-----------------------------------------------------------------------------
(* The peripheral *)

HandleAtPeer(e) ==
    /\ events["peripheral"] # << >> /\ Head(events["peripheral"]) = e
    /\ events' = [events EXCEPT !["peripheral"] = Tail(@)]

PeripheralConnected ==
    /\ HandleAtPeer("connected")
    /\ peer' = TRUE
    /\ UNCHANGED <<radio, faults, central, advertising, restart, notifyEnabled, upwards>>

PeripheralFailed ==
    /\ HandleAtPeer("failed")
    /\ restart' = TRUE
    /\ UNCHANGED <<radio, faults, central, advertising, peer, notifyEnabled, upwards>>

\* Faulty variant: the peripheral relies on the central to end its transfers.
PeripheralStays ==
    /\ HandleAtPeer("disconnected")
    /\ notifyEnabled' = FALSE
    /\ peer' = FALSE
    /\ restart' = TRUE
    /\ UNCHANGED <<radio, faults, central, advertising, upwards>>

PeripheralDisconnected ==
    /\ HandleAtPeer("disconnected")
    /\ NotifyDisconnected("peripheral")
    /\ notifyEnabled' = FALSE
    /\ peer' = FALSE
    /\ restart' = TRUE
    /\ UNCHANGED <<radio, faults, central, advertising>>

\* After 200 ms; again after 200 ms when there is no memory (-ENOMEM).
RestartAdvertising ==
    /\ restart
    /\ \/ peer /\ restart' = FALSE /\ UNCHANGED <<advertising, faults>>
       \/ ~peer /\ restart' = FALSE /\ advertising' = TRUE /\ UNCHANGED faults
       \/ ~peer /\ Fault /\ UNCHANGED <<restart, advertising>>
    /\ UNCHANGED <<radio, events, central, peer, notifyEnabled, upwards>>

-----------------------------------------------------------------------------
Faults == CreateFails \/ AdvertisingFails \/ ConnectionLost \/ DiscoveryFails

Progress ==
    \/ Connects
    \/ DeviceFound \/ CentralConnected \/ CentralFailed \/ CentralDisconnected
    \/ MtuExchanged
    \/ \E request \in {"primary", "characteristic"} : Discovered(request)
    \/ Subscribed \/ NotificationsStopped
    \/ PeripheralConnected \/ PeripheralFailed \/ PeripheralDisconnected
    \/ RestartAdvertising
    \/ \E h \in Halves : RunWork(h)

Next == Faults \/ Progress \/ MtuFallback

Spec == Init /\ [][Next]_vars

(* Radio, callbacks, timers and workqueues go on; nothing has to fail. *)
Fairness == WF_vars(Progress)

FairSpec == Spec /\ Fairness

-----------------------------------------------------------------------------
Handles == {"none", "good", "bad"}

(* Every variable holds what the code puts there; the central scans for as   *)
(* long as it has no connection object.                                      *)
TypeOK ==
    /\ radio \in BOOLEAN /\ faults \in 0 .. MaxFaults
    /\ events \in [Halves -> Seq({"connected", "failed", "disconnected"})]
    /\ scanning \in BOOLEAN /\ conn = ~scanning /\ fallback \in BOOLEAN
    /\ requests \in Seq({"mtu", "primary", "characteristic", "subscribe"})
    /\ want \in {"none", "service", "tx", "rx"}
    /\ service \in BOOLEAN /\ txHandle \in Handles /\ rxHandle \in Handles
    /\ advertising \in BOOLEAN /\ peer \in BOOLEAN /\ restart \in BOOLEAN
    /\ notifyEnabled \in BOOLEAN
    /\ connected \in [Halves -> BOOLEAN] /\ told \in [Halves -> BOOLEAN]
    /\ \A h \in Halves : works[h] \in Seq({"connect", "disconnect"}) /\ Len(works[h]) <= 2

(* The central only calls itself connected while it has the handles of this  *)
(* connection, and none of them is left from an earlier one or made up.      *)
ConnectedHasHandles ==
    connected["central"] =>
        conn /\ ~scanning /\ txHandle = "good" /\ rxHandle = "good"

(* The peripheral only sends into a connection whose central is subscribed:  *)
(* once both have heard of the radio's last change, a connected peripheral   *)
(* has a connected central.                                                  *)
PeripheralHasCentral ==
    (\A h \in Halves : events[h] = << >>) /\ connected["peripheral"] =>
        radio /\ notifyEnabled /\ connected["central"]

(* When the workqueue has run, the sync layer was told last what is so: the  *)
(* sync layer drops everything it is to send while it believes that there is *)
(* no connection.                                                            *)
SyncKnows == \A h \in Halves : works[h] = << >> => told[h] = connected[h]

(* When nothing fails any more, both sync layers end up connected. *)
HalvesMeet == <>[](told["central"] /\ told["peripheral"])
=============================================================================
