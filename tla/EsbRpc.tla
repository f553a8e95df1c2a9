------------------------------- MODULE EsbRpc -------------------------------
(***************************************************************************)
(* SplitLink over ESB on the half that receives, with the radio on another  *)
(* core (nRF5340): the network core (lib/ykb_esb/src/53_net), the proxy on  *)
(* the application core (53_app) and the transport above it                 *)
(* (splitlink_ykb_esb/prx.c).                                               *)
(*                                                                         *)
(* An interrupt of the network core copies a packet and submits a work that *)
(* sends it over IPC; a thread of the application core takes it from there  *)
(* and calls the transport back, in steps that works of the system          *)
(* workqueue, which has the higher priority, may come between.  The works   *)
(* tell the sync layer.  A packet is its number, copied in two parts, of    *)
(* which the first holds the flag: 0 stands for that of an alive packet,    *)
(* which has no data.  Neither copy is protected: a packet may come while   *)
(* the last one is encoded, and be received while it is copied.  A third    *)
(* field (history) tells whether that happened to the packet.  IPC is       *)
(* external: it keeps the order and loses nothing.                          *)
(***************************************************************************)
EXTENDS Integers, WorkQueue

CONSTANTS
  MaxPackets,    \* bound: packets with data
  MaxEvents,     \* bound: events under way between the cores
  RpcInitFails   \* nrf_rpc_init may fail, although the cores meet later

VARIABLES
  attempted, initialized, bound,  \* rpc_init_attempted, rpc_initialized, rpc_bound
  ready,       \* init_work went through; until then it is scheduled
  away,        \* the other half has been turned off
  packets,     \* packets with data it has sent
  last,        \* last_rx_data of the network core
  sending,     \* m_work_send_evt_rx_received: "no", "queued", "running"
  events,      \* between the cores
  event,       \* the event in the hands of the RPC thread, and where it is
  step,
  connected,   \* data->connected
  armed,       \* disconnect_work is scheduled
  works,       \* the works of the transport in the system workqueue
  rx,          \* receiving_work.data
  told, got    \* what the sync layer was told last, and got last

rpc       == << attempted, initialized, bound, ready >>
network   == << last, sending >>
transport == << connected, armed, works, rx >>
rpcVars   == << rpc, away, packets, network, events, event, step, transport, told, got >>

NoData == << 0, 0, FALSE >>

RpcInit ==
  /\ attempted = FALSE /\ initialized = FALSE /\ bound = FALSE /\ ready = FALSE
  /\ away = FALSE /\ packets = 0
  /\ last = << 0, 0 >> /\ sending = "no"
  /\ events = << >> /\ event = NoData /\ step = "idle"
  /\ connected = FALSE /\ armed = FALSE /\ works = << >>
  /\ rx = NoData /\ told = FALSE /\ got = NoData

-----------------------------------------------------------------------------
(* Both cores start.  init_work: ykb_esb_init, again after two seconds for  *)
(* as long as the groups are not bound.  The command to the other core       *)
(* succeeds.                                                                 *)

InitWork ==
  /\ ~ready
  /\ attempted' = TRUE
  /\ IF attempted THEN UNCHANGED initialized
     ELSE initialized' \in {TRUE, ~RpcInitFails}
  /\ ready' = bound
  /\ UNCHANGED << bound, away, packets, network, events, event, step, transport, told, got >>

Bound ==
  /\ attempted /\ ~bound
  /\ bound' = TRUE
  /\ UNCHANGED << attempted, initialized, ready, away, packets, network, events,
                  event, step, transport, told, got >>

(* ykb_esb_send takes a packet. *)
CanSend == initialized /\ bound

-----------------------------------------------------------------------------
(* The network core *)

(* on_esb_callback, in an interrupt: the other half sends data, or that it   *)
(* is alive, in a packet of the flag alone.                                  *)
PacketComes(data) ==
  /\ ready /\ ~away
  /\ data => packets < MaxPackets
  /\ packets' = IF data THEN packets + 1 ELSE packets
  /\ last' = IF data THEN << packets', packets' >> ELSE << 0, last[2] >>
  /\ sending' = "queued"
  /\ UNCHANGED << rpc, away, events, event, step, transport, told, got >>

GoesAway ==
  /\ ~away
  /\ away' = TRUE
  /\ UNCHANGED << rpc, packets, network, events, event, step, transport, told, got >>

Encoding == events # << >> /\ events[Len(events)][2] = -1

(* rpc_esb_event_send encodes the packet, part by part, ... *)
BeginEncoding ==
  /\ sending = "queued" /\ ~Encoding /\ Len(events) < MaxEvents
  /\ sending' = "running"
  /\ events' = Append(events, << last[1], -1, FALSE >>)
  /\ UNCHANGED << rpc, away, packets, last, event, step, transport, told, got >>

(* ... and sends it; of an alive packet there is only the flag.  A packet    *)
(* that came meanwhile has submitted the work again.                         *)
EndEncoding ==
  /\ Encoding
  /\ events' = [events EXCEPT ![Len(events)] =
                  IF @[1] = 0 THEN NoData ELSE << @[1], last[2], sending # "running" >>]
  /\ sending' = IF sending = "running" THEN "no" ELSE sending
  /\ UNCHANGED << rpc, away, packets, last, event, step, transport, told, got >>

-----------------------------------------------------------------------------
(* The application core: the RPC thread *)

(* rpc_esb_event_handler, and on_esb_callback of the transport *)
TakeEvent ==
  /\ step = "idle" /\ events # << >> /\ Head(events)[2] # -1
  /\ event' = Head(events) /\ events' = Tail(events)
  /\ step' = "connect"
  /\ UNCHANGED << rpc, away, packets, network, transport, told, got >>

(* Faulty variant: the flag of a packet is not looked at. *)
ConnectCopiesAll ==
  /\ step = "connect"
  /\ connected' = TRUE
  /\ works' = IF connected THEN works ELSE Submit(works, "connect")
  /\ step' = "copy"
  /\ UNCHANGED << rpc, away, packets, network, events, event, armed, rx, told, got >>

Connect ==
  /\ step = "connect"
  /\ connected' = TRUE
  /\ works' = IF connected THEN works ELSE Submit(works, "connect")
  /\ step' = IF event[1] > 0 THEN "copy" ELSE "cancel"
  /\ UNCHANGED << rpc, away, packets, network, events, event, armed, rx, told, got >>

BeginCopy ==
  /\ step = "copy"
  /\ rx' = << event[1], rx[2], rx[3] >>
  /\ step' = "copying"
  /\ UNCHANGED << rpc, away, packets, network, events, event, connected, armed,
                  works, told, got >>

EndCopy ==
  /\ step = "copying"
  /\ rx' = << rx[1], event[2], event[3] >>
  /\ works' = Submit(works, "receive")
  /\ step' = "cancel"
  /\ UNCHANGED << rpc, away, packets, network, events, event, connected, armed, told, got >>

(* k_work_cancel_delayable: also when it is in the queue already *)
Cancel ==
  /\ step = "cancel"
  /\ armed' = FALSE
  /\ works' = Withdraw(works, "disconnect")
  /\ step' = "schedule"
  /\ UNCHANGED << rpc, away, packets, network, events, event, connected, rx, told, got >>

(* Faulty variant: the timer runs from the first packet on. *)
ScheduleOnce ==
  /\ step = "schedule"
  /\ UNCHANGED armed
  /\ step' = "idle" /\ event' = NoData
  /\ UNCHANGED << rpc, away, packets, network, events, connected, works, rx, told, got >>

Schedule ==
  /\ step = "schedule"
  /\ armed' = TRUE
  /\ step' = "idle" /\ event' = NoData
  /\ UNCHANGED << rpc, away, packets, network, events, connected, works, rx, told, got >>

Callback == Connect \/ BeginCopy \/ EndCopy \/ Cancel \/ Schedule

-----------------------------------------------------------------------------
(* The system workqueue *)

(* The timeout, when the other half is silent or its packets take long. *)
TimerExpires ==
  /\ armed
  /\ armed' = FALSE
  /\ works' = Submit(works, "disconnect")
  /\ UNCHANGED << rpc, away, packets, network, events, event, step, connected, rx, told, got >>

(* Faulty variant: what the transport believes stays. *)
DisconnectWorkOnly ==
  /\ UNCHANGED connected
  /\ told' = FALSE
  /\ UNCHANGED got

DisconnectWork ==
  /\ connected' = FALSE
  /\ told' = FALSE
  /\ UNCHANGED got

ConnectWork ==
  /\ told' = TRUE
  /\ UNCHANGED << connected, got >>

(* The sync layer drops what comes while it believes in no connection.  The *)
(* work may run while the next packet is copied.                            *)
ReceiveWork ==
  /\ got' = IF told THEN << rx[1], rx[2], rx[3] \/ step = "copying" >> ELSE got
  /\ UNCHANGED << connected, told >>

RunWork ==
  /\ works # << >>
  /\ works' = Tail(works)
  /\ \/ Head(works) = "disconnect" /\ DisconnectWork
     \/ Head(works) = "connect" /\ ConnectWork
     \/ Head(works) = "receive" /\ ReceiveWork
  /\ UNCHANGED << rpc, away, packets, network, events, event, step, armed, rx >>

-----------------------------------------------------------------------------
Cores == InitWork \/ Bound \/ BeginEncoding \/ EndEncoding \/ TakeEvent \/ Callback

RpcNext ==
  \/ Cores \/ GoesAway \/ TimerExpires \/ RunWork
  \/ \E data \in BOOLEAN : PacketComes(data)

-----------------------------------------------------------------------------
(* A transport that believes in the connection has told so, or is about to:  *)
(* on_esb_callback tells nobody while connected is set, whatever order the   *)
(* works ran in.  (The converse fails, if a timeout races packets: a         *)
(* disconnect that is queued is not cancelled by a connection that is.  The  *)
(* next packet, or the next timeout, makes up for it.)                       *)
ConnectedIsTold == works = << >> /\ connected => told

(* No part of what the sync layer gets is older than what it got before:     *)
(* packets are lost to later ones on the way ("latest wins"), and come       *)
(* twice.  The parts are of one packet, unless a copy of it was interrupted. *)
PacketIsNewer ==
  /\ got[1] <= got'[1] /\ got[2] <= got'[2]
  /\ got'[1] = got'[2] \/ got'[3]
PacketsInOrder == [][PacketIsNewer]_got

(* A half that is turned off is noticed; one that is not is connected, again *)
(* and again if its packets take longer than the timeout.                    *)
LinkFollowsPeer == (<>[]away /\ <>[]~told) \/ ([]~away /\ []<>told)

(* A half whose ykb_esb_init went through can send: nrf_rpc_init that failed *)
(* is made up for when the cores meet ("will retry via rpc_bound_handler").  *)
ReadyCanSend == ready => CanSend
=============================================================================
