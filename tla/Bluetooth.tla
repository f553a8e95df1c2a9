------------------------------ MODULE Bluetooth ------------------------------
(* The Bluetooth of a master half: its host and its connection to the slave  *)
(* share the connection objects (CONFIG_BT_MAX_CONN).                        *)
EXTENDS SplitlinkLink

CONSTANTS MaxConns, Levels, FaultsWithHosts

ASSUME BluetoothAssumption ==
    /\ MaxConns \subseteq Nat \ {0} /\ 0 \in Levels /\ FaultsWithHosts \in Nat

VARIABLES
    maxConn, link, advertised, is_advertising, slot, in_boot_mode, protocol,
    ready, pending, valid, primary, publish, telling, secured, subscribed,
    knows, missed,
    late,        \* the MTU exchange may take longer than 500 ms
    hosts        \* hosts are about; then the link fails FaultsWithHosts times

hostVars ==
    <<link, advertised, is_advertising, slot, in_boot_mode, protocol,
      ready, pending, valid, primary, publish, telling, secured, subscribed,
      knows, missed>>

build == <<maxConn, late, hosts>>

Host == INSTANCE BtConnect WITH slave <- conn

MCInit == Init /\ Host!HostInit /\ late \in BOOLEAN /\ hosts \in BOOLEAN /\ ~(late /\ hosts)

\* bt_conn_le_create without an object (-ENOMEM): the scan starts again.
LinkProgress == Progress /\ (~conn /\ conn' => Host!Room)

LinkNext ==
    /\ Faults \/ LinkProgress \/ (late /\ MtuFallback)
    /\ hosts => faults' <= FaultsWithHosts

MCNext ==
    \/ LinkNext /\ UNCHANGED <<hostVars, build>>
    \/ hosts /\ (Host!Firmware \/ Host!Host) /\ UNCHANGED <<vars, build>>

MCSpec ==
    /\ MCInit /\ [][MCNext]_<<vars, hostVars, build>>
    /\ WF_vars(LinkProgress)
    /\ hosts => Host!HostFairness

(* The central only calls itself connected while it has the handles of this  *)
(* connection, and a connected peripheral has a connected central, unless    *)
(* the MTU exchange is late.                                                 *)
PromptHalvesAgree == late \/ (ConnectedHasHandles /\ PeripheralHasCentral)

(* When nothing fails any more, both sync layers end up connected, unless    *)
(* the MTU exchange is late, whatever hosts do.                              *)
PromptHalvesMeet == late \/ HalvesMeet

(* The slot that reports are sent to is the link's, and bt_connect believes  *)
(* of its advertising what the stack does.                                   *)
HostIsServed == Host!HostIsServed

(* A host that is subscribed when the level is published ends up with it.    *)
HostKnowsLevel == Host!HostKnowsLevel

(* A keyboard without a host advertises again (its HID information says that *)
(* it is normally connectable).                                              *)
AdvertisesAlone == Host!AdvertisesAlone

(* With an object to spare, a keyboard without a host advertises again.      *)
AdvertisesWithSpare == maxConn > 2 => AdvertisesAlone
=============================================================================
