------------------------------- MODULE YkbEsb -------------------------------
(***************************************************************************)
(* The transmitter of the ESB library (lib/ykb_esb/src/ykb_esb.c, mode     *)
(* PTX), on the core that has the radio.                                   *)
(*                                                                         *)
(* A packet waits in a message queue until the radio has sent it.  Whoever *)
(* finds the radio idle kicks it: the head of the queue is peeked into a   *)
(* static buffer, written to the FIFO of the ESB driver and started, and   *)
(* only the event of its success takes it from the queue.  Three parties   *)
(* kick: the thread that sends a packet, step by step (sender); the        *)
(* handler of the driver's events; and, where the radio is shared with     *)
(* Bluetooth (Mpsl), the callback at the start of a timeslot.  The last    *)
(* two are interrupts and run between two steps of the thread.             *)
(*                                                                         *)
(* The driver itself (Nordic ESB) and the timeslots (MPSL) are external:   *)
(* the FIFO, its state and when a slot starts and ends.  A packet is its   *)
(* number.  There is one sender, as on the network core, whose RPC pool    *)
(* has one thread.  A send that finds the queue full for 100 ms changes    *)
(* nothing.                                                                *)
(***************************************************************************)
EXTENDS Integers, Sequences, SequencesExt

CONSTANTS
  Mpsl,         \* CONFIG_LIB_YKB_ESB_MPSL: ESB runs in timeslots
  Depth,        \* packets in m_msgq_tx_payloads (8 in the code)
  MaxPackets,   \* bound: packets sent
  MaxFailures,  \* bound: transmissions that fail
  MaxSlots,     \* bound: timeslots that end
  InitFails,    \* esb_initialize may fail at the start of a timeslot
  QuickSends    \* no timeslot starts between a sender's check and its kick

ASSUME EsbAssumption ==
  /\ Mpsl \in BOOLEAN /\ InitFails \in BOOLEAN /\ QuickSends \in BOOLEAN
  /\ Depth \in Nat \ {0}
  /\ MaxPackets \in Nat /\ MaxFailures \in Nat /\ MaxSlots \in Nat

VARIABLES
  slot,       \* m_in_timeslot; TRUE for good without Mpsl
  active,     \* m_active
  queue,      \* m_msgq_tx_payloads
  held,       \* the static tx_payload of ptx_kick_next_from_msgq
  fifo,       \* the TX FIFO of the ESB driver
  radio,      \* "off", "idle", "sending"; "done", "failed" until the event
  sender,     \* the next step of ykb_esb_send
  accepted,   \* packets ykb_esb_send has put into the queue
  delivered,  \* packets the receiver has got
  discarded,  \* packets given up after a failure
  failures, slots  \* counters of the bounds

vars == << slot, active, queue, held, fifo, radio, sender, accepted, delivered,
           discarded, failures, slots >>

air == << delivered, discarded, failures >>

Packet == 1 .. MaxPackets

Kicking == {"kick", "peeked", "written"}

TypeOK ==
  /\ slot \in BOOLEAN /\ active \in BOOLEAN
  /\ queue \in Seq(Packet) /\ Len(queue) <= Depth
  /\ held \in Packet \cup {0}
  /\ fifo \in Seq(Packet)
  /\ radio \in {"off", "idle", "sending", "done", "failed"}
  /\ sender \in {"idle", "queued"} \cup Kicking
  /\ accepted \in 0 .. MaxPackets
  /\ delivered \subseteq Packet /\ discarded \subseteq Packet
  /\ failures \in 0 .. MaxFailures /\ slots \in 0 .. MaxSlots

Init ==
  /\ slot = ~Mpsl /\ active = ~Mpsl
  /\ queue = << >> /\ held = 0 /\ fifo = << >>
  /\ radio = IF Mpsl THEN "off" ELSE "idle"
  /\ sender = "idle" /\ accepted = 0
  /\ delivered = {} /\ discarded = {} /\ failures = 0 /\ slots = 0

-----------------------------------------------------------------------------
(* ykb_esb_send, by the thread.  Interrupts are handled before it goes on. *)

ThreadRuns == radio \notin {"done", "failed"}

Put ==
  /\ ThreadRuns
  /\ sender = "idle" /\ accepted < MaxPackets /\ Len(queue) < Depth
  /\ accepted' = accepted + 1
  /\ queue' = Append(queue, accepted + 1)
  /\ sender' = "queued"
  /\ UNCHANGED << slot, active, held, fifo, radio, air, slots >>

RadioIsIdle == active /\ radio = "idle"

Check ==
  /\ ThreadRuns
  /\ sender = "queued"
  /\ sender' = IF RadioIsIdle THEN "kick" ELSE "idle"
  /\ UNCHANGED << slot, active, queue, held, fifo, radio, accepted, air, slots >>

Peek ==
  /\ ThreadRuns
  /\ sender = "kick"
  /\ IF queue = << >> THEN sender' = "idle" /\ UNCHANGED held
     ELSE sender' = "peeked" /\ held' = Head(queue)
  /\ UNCHANGED << slot, active, queue, fifo, radio, accepted, air, slots >>

WritePayload ==
  /\ ThreadRuns
  /\ sender = "peeked"
  /\ IF radio = "off" THEN sender' = "idle" /\ UNCHANGED fifo
     ELSE sender' = "written" /\ fifo' = Append(fifo, held)
  /\ UNCHANGED << slot, active, queue, held, radio, accepted, air, slots >>

StartTx ==
  /\ ThreadRuns
  /\ sender = "written"
  /\ radio' = IF radio = "idle" /\ fifo # << >> THEN "sending" ELSE radio
  /\ sender' = "idle"
  /\ UNCHANGED << slot, active, queue, held, fifo, accepted, air, slots >>

Send == Put \/ Check \/ Peek \/ WritePayload \/ StartTx

-----------------------------------------------------------------------------
(* ptx_kick_next_from_msgq in an interrupt, when the driver is idle, with  *)
(* the queue q and the FIFO f.                                             *)

KickNext(q, f) ==
  IF q = << >>
  THEN /\ fifo' = f /\ radio' = "idle" /\ UNCHANGED held
  ELSE /\ fifo' = Append(f, Head(q)) /\ radio' = "sending" /\ held' = Head(q)

-----------------------------------------------------------------------------
(* The radio: the packet at the head of the FIFO is acknowledged, or not,  *)
(* whether it has arrived or only its acknowledgement was lost.            *)

Acknowledged ==
  /\ radio = "sending"
  /\ delivered' = delivered \cup {Head(fifo)}
  /\ fifo' = Tail(fifo)
  /\ radio' = "done"
  /\ UNCHANGED << slot, active, queue, held, sender, accepted, discarded,
                  failures, slots >>

NotAcknowledged ==
  /\ radio = "sending" /\ failures < MaxFailures
  /\ \E arrived \in {{}, {Head(fifo)}} : delivered' = delivered \cup arrived
  /\ radio' = "failed"
  /\ failures' = failures + 1
  /\ UNCHANGED << slot, active, queue, held, fifo, sender, accepted, discarded,
                  slots >>

(* event_handler *)

Consumed == IF queue = << >> THEN queue ELSE Tail(queue)

(* Faulty variant: nothing kicks the next packet after a success. *)
SuccessWithoutKick ==
  /\ radio = "done"
  /\ queue' = Consumed
  /\ radio' = "idle"
  /\ UNCHANGED << slot, active, held, fifo, sender, accepted, air, slots >>

TxSuccess ==
  /\ radio = "done"
  /\ queue' = Consumed
  /\ KickNext(queue', fifo)
  /\ UNCHANGED << slot, active, sender, accepted, air, slots >>

(* Faulty variant: the failed packet is still in the FIFO when the next is written. *)
FailedKeepsFifo ==
  /\ radio = "failed"
  /\ queue' = IF Mpsl THEN queue ELSE Consumed
  /\ discarded' = IF Mpsl \/ queue = << >> THEN discarded
                  ELSE discarded \cup {Head(queue)}
  /\ KickNext(queue', fifo)
  /\ UNCHANGED << slot, active, sender, accepted, delivered, failures, slots >>

(* Faulty variant: the failed packet is given up in a timeslot, too. *)
FailedIsDropped ==
  /\ radio = "failed"
  /\ queue' = Consumed
  /\ KickNext(queue', << >>)
  /\ UNCHANGED << slot, active, sender, accepted, delivered, discarded,
                  failures, slots >>

(* Faulty variant: the failed packet goes to the end of the queue. *)
FailedToTheEnd ==
  /\ radio = "failed"
  /\ queue' = IF queue = << >> THEN queue ELSE Append(Tail(queue), Head(queue))
  /\ KickNext(queue', << >>)
  /\ UNCHANGED << slot, active, sender, accepted, delivered, discarded,
                  failures, slots >>

TxFailed ==
  /\ radio = "failed"
  /\ queue' = IF Mpsl THEN queue ELSE Consumed
  /\ discarded' = IF Mpsl \/ queue = << >> THEN discarded
                  ELSE discarded \cup {Head(queue)}
  /\ KickNext(queue', << >>)
  /\ UNCHANGED << slot, active, sender, accepted, delivered, failures, slots >>

-----------------------------------------------------------------------------
(* on_timeslot_start_stop.  A start initialises the driver and kicks; an   *)
(* end disables the driver, with its FIFO and a pending event.             *)

Resume ==
  \/ active' = TRUE /\ KickNext(queue, << >>)
  \/ InitFails /\ UNCHANGED << active, fifo, radio, held >>

TimeslotStarts ==
  /\ Mpsl /\ ~slot
  /\ QuickSends => sender \notin Kicking
  /\ slot' = TRUE
  /\ Resume
  /\ UNCHANGED << queue, sender, accepted, air, slots >>

Suspend ==
  /\ active' = FALSE
  /\ fifo' = << >> /\ radio' = "off"
  /\ UNCHANGED << queue, held >>

TimeslotEnds ==
  /\ Mpsl /\ slot /\ slots < MaxSlots
  /\ slot' = FALSE
  /\ Suspend
  /\ slots' = slots + 1
  /\ UNCHANGED << sender, accepted, air >>

Radio == Acknowledged \/ NotAcknowledged \/ TxSuccess \/ TxFailed

Next == Send \/ Radio \/ TimeslotStarts \/ TimeslotEnds

Spec == Init /\ [][Next]_vars

(* The thread runs on, the radio and its interrupt do not stop, and a      *)
(* timeslot that was asked for starts: every end asks for the next one.    *)
Fairness ==
  /\ WF_vars(Check \/ Peek \/ WritePayload \/ StartTx)
  /\ WF_vars(Radio)
  /\ WF_vars(TimeslotStarts)

FairSpec == Spec /\ Fairness

-----------------------------------------------------------------------------
(* A packet leaves the queue when it has arrived, or, without timeslots,   *)
(* when its transmission has failed: no packet that ykb_esb_send took is   *)
(* lost between the queue, the FIFO and the radio.                         *)
ConsumedAfterSuccess ==
  1 .. accepted \subseteq delivered \cup discarded \cup ToSet(queue)

(* While the radio sends, the FIFO holds the head of the queue and nothing *)
(* else, so that the event of its success removes the packet that was      *)
(* sent: nobody kicks twice, however thread, events and the ends of        *)
(* timeslots interleave.  (With QuickSends; a timeslot that ends and one   *)
(* that starts between a sender's check and its kick send a packet twice.) *)
RadioSendsHead ==
  radio \in {"sending", "failed"} => queue # << >> /\ fifo = << Head(queue) >>

(* Both, if no timeslot starts between a sender's check and its kick: what *)
(* the radio sends is the head of the queue, which stays until it is       *)
(* settled.                                                                *)
HeadIsSent == ConsumedAfterSuccess /\ RadioSendsHead

(* No packet arrives before one that was sent earlier, unless that one was *)
(* given up.                                                               *)
PacketsArriveInOrder ==
  [][\A p \in delivered' \ delivered :
       1 .. (p - 1) \subseteq delivered \cup discarded]_vars

(* Every packet that ykb_esb_send took arrives or is given up once the     *)
(* timeslots stop ending and the transmissions stop failing, unless the    *)
(* last timeslot is one in which the driver could not be initialised.      *)
EveryPacketArrives ==
  \/ <>[](slot /\ ~active)
  \/ \A p \in Packet : p <= accepted ~> p \in delivered \cup discarded

=============================================================================
