------------------------------ MODULE EsbStack ------------------------------
(* The ESB library as a transmitter with the radio to itself ("alone"), and  *)
(* as a transmitter and as a receiver in the timeslots of lib/ykb_timeslot;  *)
(* and the receiving half of SplitLink on another core ("rpc").              *)
EXTENDS YkbEsb

CONSTANTS Calls, MaxRefusals, MaxSends, MaxData, MaxEvents, RpcInitFails

ASSUME EsbStackAssumption ==
  /\ Calls \in Nat /\ Calls >= 2 /\ MaxRefusals \in Nat
  /\ MaxSends \in Nat \ {0} /\ MaxData \in Nat /\ MaxEvents \in Nat /\ RpcInitFails \in BOOLEAN

VARIABLES
  session, timer, extension_failed, calls, oops, refusals,  \* YkbTimeslot
  cache, valid, acks, acking, sent, heard, lost,            \* YkbEsbPrx
  attempted, initialized, bound, ready, away, packets,      \* EsbRpc
  last, sending, events, event, step, connected, armed, works, rx, told, got,
  mode            \* how the library is built and configured

slotOnly == << session, timer, extension_failed, calls, oops, refusals >>
slotVars == << slot, slotOnly >>
ptxOnly  == << queue, held, fifo, radio, accepted, delivered, discarded, failures >>
prxOnly  == << cache, valid, acks, acking, sent, heard, lost >>
rpcOnly  == << attempted, initialized, bound, ready, away, packets, last, sending,
               events, event, step, connected, armed, works, rx, told, got >>
receiverVars == << slot, active, sender, slots, prxOnly >>
both     == << active, sender, slots >>

Alone == INSTANCE YkbEsb WITH Mpsl <- FALSE, QuickSends <- FALSE
Time  == INSTANCE YkbTimeslot
Prx   == INSTANCE YkbEsbPrx
Rpc   == INSTANCE EsbRpc WITH MaxPackets <- MaxData

MCInit ==
  /\ mode \in {"alone", "ptx", "prx", "rpc"}
  /\ IF mode = "alone" THEN Alone!Init ELSE Init
  /\ Time!SlotInit \/ (mode = "alone" /\ session = "none" /\ timer = "early"
                       /\ extension_failed = FALSE /\ calls = << >>
                       /\ oops = FALSE /\ refusals = 0)
  /\ cache = << 0, 0 >> /\ valid = FALSE /\ acks = << >> /\ acking = FALSE /\ sent = 0
  /\ heard = << 0, 0, FALSE >> /\ lost = FALSE
  /\ Rpc!RpcInit

InTime    == mode \in {"ptx", "prx"}
Transmits == mode \in {"ptx", "alone"}

\* The callback of the timeslots is the library's.
Started ==
  \/ mode = "ptx" /\ TimeslotStarts /\ UNCHANGED prxOnly
  \/ mode = "prx" /\ Prx!SlotStarts /\ UNCHANGED ptxOnly

Stopped ==
  \/ mode = "ptx" /\ TimeslotEnds /\ UNCHANGED prxOnly
  \/ mode = "prx" /\ Prx!SlotEnds /\ UNCHANGED ptxOnly

NotCalled == InTime /\ UNCHANGED << ptxOnly, prxOnly, both >>

TimeStarts == Time!Start /\ Started
TimeStops  == Time!Stop /\ (Stopped \/ (~slot /\ NotCalled))
TimeQuiet  == Time!Quiet /\ NotCalled

PtxStep == mode = "ptx" /\ (Send \/ Radio) /\ UNCHANGED << slotOnly, prxOnly >>

PrxStep ==
  /\ mode = "prx"
  /\ Prx!PrxSend \/ \E next \in BOOLEAN : Prx!Polled(next)
  /\ UNCHANGED << slotOnly, ptxOnly >>

AloneStep == mode = "alone" /\ Alone!Next /\ UNCHANGED << slotOnly, prxOnly >>

RpcStep == mode = "rpc" /\ Rpc!RpcNext /\ UNCHANGED << vars, slotOnly, prxOnly >>

MCNext ==
  /\ \/ /\ TimeStarts \/ TimeStops \/ TimeQuiet \/ PtxStep \/ PrxStep \/ AloneStep
        /\ UNCHANGED rpcOnly
     \/ RpcStep
  /\ UNCHANGED mode

MCVars == << vars, slotOnly, prxOnly, rpcOnly, mode >>

(* The threads, works and timers run.  MPSL goes on to signal what happens.  *)
(* The radio finishes what was started.  The transmitter that a receiver     *)
(* hears goes on to send, and not every acknowledgement is lost; the other   *)
(* half of SplitLink sends that it is alive until it is turned off.          *)
MCSpec ==
  /\ MCInit /\ [][MCNext]_MCVars
  /\ WF_slotVars(TimeStarts)
  /\ WF_slotVars(InTime /\ (Time!MakeCall \/ Time!SessionIdle \/ Time!RequestNext))
  /\ WF_slotVars(InTime /\ Time!AskExtension) /\ WF_slotVars(InTime /\ Time!ExtendSucceeded)
  /\ WF_vars(Transmits /\ (Check \/ Peek \/ WritePayload \/ StartTx))
  /\ WF_vars(mode = "ptx" /\ Radio) /\ WF_vars(mode = "alone" /\ Alone!Radio)
  /\ WF_receiverVars(mode = "prx" /\ Prx!Goes) /\ SF_receiverVars(mode = "prx" /\ Prx!Arrives)
  /\ WF_rpcOnly(mode = "rpc" /\ Rpc!Cores) /\ WF_rpcOnly(mode = "rpc" /\ Rpc!RunWork)
  /\ WF_rpcOnly(mode = "rpc" /\ Rpc!TimerExpires)
  /\ SF_rpcOnly(mode = "rpc" /\ Rpc!PacketComes(FALSE))

-----------------------------------------------------------------------------
(* What the library asks of MPSL succeeds, and it uses the radio only in     *)
(* timeslots that MPSL granted (or has it to itself): ESB is suspended in     *)
(* the handler of every signal that ends one.                                *)
TimeslotsAreKept ==
  /\ Time!CallsSucceed
  /\ active => mode = "alone" \/ session = "running"

(* Whatever MPSL refuses, there are timeslots again when it stops refusing.  *)
SlotsGoOn == mode = "rpc" \/ Time!SlotsGoOn

(* The packets of a transmitter arrive, in the end, or are given up; of those *)
(* of a receiver the last does, unless the transmitter went on without its   *)
(* acknowledgement or the driver could not be initialised.                   *)
SentArrives == EveryPacketArrives /\ Prx!LatestArrives

(* No part of what is received is older than what was, neither the data of   *)
(* acknowledgements nor what crosses the cores, and the parts are of one     *)
(* packet unless the copying of that very packet was interrupted.            *)
ReceivedInOrder == [][Prx!AckIsNewer /\ Rpc!PacketIsNewer]_MCVars

(* That no two packets are mixed ("the work item always sees stable data"),  *)
(* which fails: neither copy is protected, nor is the cache of the receiver. *)
NothingIsMixed == got[1] = got[2] /\ heard[1] = heard[2]

(* The transport of SplitLink that believes in the connection has told the   *)
(* sync layer.                                                               *)
ConnectedIsTold == Rpc!ConnectedIsTold

(* A half that is turned off is noticed, and one that is not is connected.   *)
LinkFollowsPeer == mode = "rpc" => Rpc!LinkFollowsPeer
=============================================================================
