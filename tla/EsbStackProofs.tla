---------------------------- MODULE EsbStackProofs ----------------------------
(***************************************************************************)
(* What holds of YkbEsb for any number of packets, failures and timeslots, *)
(* as long as no timeslot starts between a sender's check and its kick,    *)
(* and of the timeslots of EsbStack for any number of refusals.            *)
(* Neither property of YkbEsb is inductive: a success removes the head of  *)
(* the queue whatever was sent, so the invariant says who may kick, what   *)
(* he kicks, and that the queue holds the last packets taken, in order.    *)
(* That of the timeslots says which calls are due in which state of the    *)
(* session, and that a timeslot that is not extended has no radio time.    *)
(* What is received stays in order because every place data pass on their  *)
(* way holds nothing newer than the place before it.                       *)
(***************************************************************************)
EXTENDS EsbStack, SequenceTheorems, TLAPS

Types ==
  /\ queue \in Seq(Nat) /\ fifo \in Seq(Nat)
  /\ radio \in {"off", "idle", "sending", "done", "failed"}
  /\ sender \in {"idle", "queued"} \cup Kicking
  /\ accepted \in Nat

(* A sender between its check and its kick is alone: the radio does not    *)
(* send, and what it has peeked is the head of the queue still.            *)
SenderIsAlone ==
  /\ sender \in Kicking => radio \in {"off", "idle"}
  /\ sender \in {"peeked", "written"} => queue # << >>
  /\ sender = "peeked" => held = Head(queue)

(* The FIFO holds the head of the queue or nothing. *)
FifoIsKicked ==
  /\ radio \in {"off", "done"} => fifo = << >>
  /\ radio = "idle" => fifo = IF sender = "written" THEN << Head(queue) >> ELSE << >>

(* The event of a success finds the packet that has arrived. *)
DoneIsDelivered == radio = "done" => queue # << >> /\ Head(queue) \in delivered

(* The queue holds the last packets taken, in their order ... *)
QueueIsLatest ==
  /\ Len(queue) <= accepted
  /\ \A i \in 1 .. Len(queue) : queue[i] = accepted - Len(queue) + i

(* ... and the earlier ones have arrived or were given up. *)
EarlierAreOut == 1 .. (accepted - Len(queue)) \subseteq delivered \cup discarded

EsbInv ==
  /\ Types
  /\ SenderIsAlone
  /\ FifoIsKicked
  /\ RadioSendsHead
  /\ DoneIsDelivered
  /\ QueueIsLatest
  /\ EarlierAreOut

(* The queue tells which packets were consumed, so that none is missing. *)
LEMMA NoneIsMissing == EsbInv => ConsumedAfterSuccess
  <1> SUFFICES ASSUME EsbInv PROVE ConsumedAfterSuccess
    OBVIOUS
  <1>1. Len(queue) \in Nat /\ accepted \in Nat /\ DOMAIN queue = 1 .. Len(queue)
    BY DEF EsbInv, Types
  <1>2. ASSUME NEW p \in 1 .. accepted
        PROVE  p \in delivered \cup discarded \cup ToSet(queue)
    <2>1. CASE p <= accepted - Len(queue)
      BY <2>1, <1>1 DEF EsbInv, EarlierAreOut
    <2>2. CASE p > accepted - Len(queue)
      <3>1. PICK i \in 1 .. Len(queue) : p = accepted - Len(queue) + i
        <4>1. p - (accepted - Len(queue)) \in 1 .. Len(queue)
          BY <2>2, <1>1
        <4> QED
          BY <4>1, <1>1
      <3>2. queue[i] = p
        BY <3>1 DEF EsbInv, QueueIsLatest
      <3> QED
        BY <3>2, <1>1 DEF ToSet
    <2> QED
      BY <2>1, <2>2, <1>1
  <1> QED
    BY <1>2 DEF ConsumedAfterSuccess

LEMMA EsbInvInit == Init => EsbInv
  BY EsbAssumption
     DEF Init, EsbInv, Types, SenderIsAlone, FifoIsKicked, RadioSendsHead,
         DoneIsDelivered, QueueIsLatest, EarlierAreOut, Kicking

(* The first packet of the queue is the next to arrive. *)
LEMMA HeadIsNext ==
  ASSUME EsbInv, queue # << >>
  PROVE  /\ Head(queue) = accepted - Len(queue) + 1
         /\ 1 .. (Head(queue) - 1) \subseteq delivered \cup discarded
  BY DEF EsbInv, Types, QueueIsLatest, EarlierAreOut

(* Taking the head of the queue when it is out leaves the queue in order.  *)
LEMMA ConsumedKeepsOrder ==
  ASSUME EsbInv, queue # << >>, queue' = Tail(queue), accepted' = accepted,
         delivered \subseteq delivered', discarded \subseteq discarded',
         Head(queue) \in delivered' \cup discarded'
  PROVE  queue' \in Seq(Nat) /\ QueueIsLatest' /\ EarlierAreOut'
  <1>1. /\ queue' \in Seq(Nat) /\ Len(queue') = Len(queue) - 1
        /\ \A i \in 1 .. Len(queue') : queue'[i] = queue[i + 1]
    BY DEF EsbInv, Types
  <1>2. QueueIsLatest'
    BY <1>1 DEF EsbInv, Types, QueueIsLatest
  <1>3. EarlierAreOut'
    BY <1>1, HeadIsNext DEF EsbInv, Types, EarlierAreOut
  <1> QED
    BY <1>1, <1>2, <1>3

(* An interrupt kicks when no sender is between its check and its kick.    *)
LEMMA KickSendsHead ==
  ASSUME NEW q \in Seq(Nat), KickNext(q, << >>), queue' = q,
         sender \in {"idle", "queued"}, sender' = sender
  PROVE  /\ fifo' \in Seq(Nat) /\ radio' \in {"idle", "sending"}
         /\ SenderIsAlone' /\ FifoIsKicked' /\ RadioSendsHead' /\ DoneIsDelivered'
  <1> USE DEF SenderIsAlone, FifoIsKicked, RadioSendsHead, DoneIsDelivered, Kicking
  <1>1. CASE q = << >>
    BY <1>1 DEF KickNext
  <1>2. CASE q # << >>
    <2>1. fifo' = << Head(q) >> /\ radio' = "sending" /\ Head(q) \in Nat
      BY <1>2 DEF KickNext
    <2> QED
      BY <1>2, <2>1
  <1> QED
    BY <1>1, <1>2

LEMMA SendKeepsEsbInv == ASSUME EsbInv, Send PROVE EsbInv'
  <1> USE DEF EsbInv, Types, SenderIsAlone, FifoIsKicked, RadioSendsHead,
              DoneIsDelivered, Kicking, ThreadRuns, air
  <1>1. CASE Put
    <2>1. /\ queue' \in Seq(Nat) /\ Len(queue') = Len(queue) + 1 /\ queue' # << >>
          /\ \A i \in 1 .. Len(queue) : queue'[i] = queue[i]
          /\ queue'[Len(queue) + 1] = accepted + 1
          /\ queue # << >> => Head(queue') = Head(queue)
      BY <1>1 DEF Put
    <2>2. /\ accepted' = accepted + 1 /\ radio' = radio /\ fifo' = fifo
          /\ sender' = "queued" /\ sender = "idle" /\ UNCHANGED << delivered, discarded >>
      BY <1>1 DEF Put
    <2>3. QueueIsLatest'
      <3>1. Len(queue') <= accepted' /\ accepted' - Len(queue') = accepted - Len(queue)
        BY <2>1, <2>2 DEF QueueIsLatest
      <3>2. ASSUME NEW i \in 1 .. Len(queue')
            PROVE  queue'[i] = accepted' - Len(queue') + i
        <4>1. CASE i \in 1 .. Len(queue)
          BY <2>1, <3>1, <4>1 DEF QueueIsLatest
        <4>2. CASE i = Len(queue) + 1
          BY <2>1, <2>2, <4>2
        <4> QED
          BY <2>1, <4>1, <4>2
      <3> QED
        BY <3>1, <3>2 DEF QueueIsLatest
    <2>4. EarlierAreOut'
      BY <2>1, <2>2 DEF EarlierAreOut
    <2>5. FifoIsKicked'
      BY <2>2
    <2>6. RadioSendsHead' /\ DoneIsDelivered'
      BY <2>1, <2>2
    <2>7. Types' /\ SenderIsAlone'
      BY <2>1, <2>2
    <2> QED
      BY <2>3, <2>4, <2>5, <2>6, <2>7
  <1>2. CASE Check
    BY <1>2 DEF Check, RadioIsIdle, QueueIsLatest, EarlierAreOut
  <1>3. CASE Peek
    BY <1>3 DEF Peek, QueueIsLatest, EarlierAreOut
  <1>4. CASE WritePayload
    <2>1. CASE radio = "off"
      BY <1>4, <2>1 DEF WritePayload, QueueIsLatest, EarlierAreOut
    <2>2. CASE radio = "idle"
      <3>1. /\ sender = "peeked" /\ fifo = << >> /\ held = Head(queue) /\ queue # << >>
            /\ sender' = "written" /\ fifo' = Append(<< >>, held)
            /\ UNCHANGED << queue, held, radio, accepted, delivered, discarded >>
        BY <1>4, <2>2 DEF WritePayload
      <3>2. Head(queue) \in Nat /\ fifo' = << Head(queue) >>
        BY <3>1
      <3> QED
        BY <2>2, <3>1, <3>2 DEF QueueIsLatest, EarlierAreOut
    <2> QED
      BY <1>4, <2>1, <2>2 DEF WritePayload
  <1>5. CASE StartTx
    <2>1. /\ sender = "written" /\ radio \in {"off", "idle"} /\ queue # << >>
          /\ sender' = "idle"
          /\ UNCHANGED << queue, held, fifo, accepted, delivered, discarded >>
      BY <1>5 DEF StartTx
    <2>2. CASE radio = "off"
      BY <1>5, <2>1, <2>2 DEF StartTx, QueueIsLatest, EarlierAreOut
    <2>3. CASE radio = "idle"
      <3>1. fifo = << Head(queue) >> /\ fifo # << >>
        BY <2>1, <2>3
      <3>2. radio' = "sending"
        BY <1>5, <2>3, <3>1 DEF StartTx
      <3> QED
        BY <2>1, <3>1, <3>2 DEF QueueIsLatest, EarlierAreOut
    <2> QED
      BY <2>1, <2>2, <2>3
  <1> QED
    BY <1>1, <1>2, <1>3, <1>4, <1>5 DEF Send

LEMMA RadioKeepsEsbInv == ASSUME EsbInv, Radio PROVE EsbInv'
  <1> USE DEF air
  <1>1. CASE Acknowledged
    <2>1. queue # << >> /\ fifo = << Head(queue) >> /\ sender \in {"idle", "queued"}
      BY <1>1 DEF Acknowledged, EsbInv, Types, SenderIsAlone, RadioSendsHead, Kicking
    <2>2. /\ fifo' = << >> /\ radio' = "done" /\ Head(queue) \in delivered'
          /\ delivered \subseteq delivered'
          /\ UNCHANGED << queue, held, sender, accepted, discarded >>
      BY <1>1, <2>1 DEF Acknowledged
    <2> QED
      BY <2>1, <2>2 DEF EsbInv, Types, SenderIsAlone, FifoIsKicked, RadioSendsHead,
                        DoneIsDelivered, QueueIsLatest, EarlierAreOut, Kicking
  <1>2. CASE NotAcknowledged
    BY <1>2 DEF NotAcknowledged, EsbInv, Types, SenderIsAlone, FifoIsKicked,
                RadioSendsHead, DoneIsDelivered, QueueIsLatest, EarlierAreOut, Kicking
  <1>3. CASE TxSuccess
    <2>1. /\ queue # << >> /\ fifo = << >> /\ Head(queue) \in delivered
          /\ sender \in {"idle", "queued"}
      BY <1>3 DEF TxSuccess, EsbInv, Types, SenderIsAlone, FifoIsKicked, DoneIsDelivered,
                  Kicking
    <2>2. queue' \in Seq(Nat) /\ QueueIsLatest' /\ EarlierAreOut'
      BY <1>3, <2>1, ConsumedKeepsOrder DEF TxSuccess, Consumed
    <2> QED
      BY <1>3, <2>1, <2>2, KickSendsHead DEF TxSuccess, EsbInv, Types
  <1>4. CASE TxFailed
    <2>1. queue # << >> /\ sender \in {"idle", "queued"}
      BY <1>4 DEF TxFailed, EsbInv, Types, SenderIsAlone, RadioSendsHead, Kicking
    <2>2. queue' \in Seq(Nat) /\ QueueIsLatest' /\ EarlierAreOut'
      <3>1. CASE Mpsl
        BY <1>4, <3>1 DEF TxFailed, EsbInv, Types, QueueIsLatest, EarlierAreOut
      <3>2. CASE ~Mpsl
        BY <1>4, <2>1, <3>2, ConsumedKeepsOrder DEF TxFailed, Consumed
      <3> QED
        BY <3>1, <3>2
    <2> QED
      BY <1>4, <2>1, <2>2, KickSendsHead DEF TxFailed, EsbInv, Types
  <1> QED
    BY <1>1, <1>2, <1>3, <1>4 DEF Radio

LEMMA SlotsKeepEsbInv ==
  ASSUME EsbInv, TimeslotStarts \/ TimeslotEnds, Mpsl => QuickSends
  PROVE  EsbInv'
  <1> USE DEF air
  <1>1. CASE TimeslotStarts
    <2>1. sender \in {"idle", "queued"} /\ queue' = queue /\ sender' = sender
      BY <1>1 DEF TimeslotStarts, EsbInv, Types
    <2>2. QueueIsLatest' /\ EarlierAreOut' /\ accepted' \in Nat
      BY <1>1 DEF TimeslotStarts, EsbInv, Types, QueueIsLatest, EarlierAreOut
    <2>3. CASE KickNext(queue, << >>)
      BY <2>1, <2>2, <2>3, KickSendsHead DEF EsbInv, Types
    <2>4. CASE UNCHANGED << active, fifo, radio, held >>
      BY <1>1, <2>1, <2>2, <2>4
         DEF TimeslotStarts, EsbInv, Types, SenderIsAlone, FifoIsKicked, RadioSendsHead,
             DoneIsDelivered
    <2> QED
      BY <1>1, <2>3, <2>4 DEF TimeslotStarts, Resume
  <1>2. CASE TimeslotEnds
    BY <1>2 DEF TimeslotEnds, Suspend, EsbInv, Types, SenderIsAlone, FifoIsKicked,
                RadioSendsHead, DoneIsDelivered, QueueIsLatest, EarlierAreOut, Kicking
  <1> QED
    BY <1>1, <1>2

LEMMA EsbInvStep == ASSUME EsbInv, [Next]_vars, Mpsl => QuickSends PROVE EsbInv'
  <1>1. CASE UNCHANGED vars
    BY <1>1 DEF vars, air, EsbInv, Types, SenderIsAlone, FifoIsKicked, RadioSendsHead,
                DoneIsDelivered, QueueIsLatest, EarlierAreOut
  <1> QED
    BY <1>1, SendKeepsEsbInv, RadioKeepsEsbInv, SlotsKeepEsbInv DEF Next

(* No packet that ykb_esb_send took is lost: it is in the queue until it   *)
(* has arrived or was given up.                                            *)
LEMMA NothingIsLost == ASSUME Mpsl => QuickSends PROVE Spec => []ConsumedAfterSuccess
  <1>1. EsbInv /\ [Next]_vars => EsbInv'
    BY EsbInvStep
  <1> QED
    BY EsbInvInit, <1>1, NoneIsMissing, PTL DEF Spec

(* The radio sends the head of the queue, which its success removes.       *)
LEMMA OnlyHeadsAreSent == ASSUME Mpsl => QuickSends PROVE Spec => []RadioSendsHead
  <1>1. EsbInv /\ [Next]_vars => EsbInv'
    BY EsbInvStep
  <1>2. EsbInv => RadioSendsHead
    BY DEF EsbInv
  <1> QED
    BY EsbInvInit, <1>1, <1>2, PTL DEF Spec

(* What the radio sends is the head of the queue, and no packet is lost.     *)
THEOREM HeadsAreSent == ASSUME Mpsl => QuickSends PROVE Spec => []HeadIsSent
  <1>1. ConsumedAfterSuccess /\ RadioSendsHead <=> HeadIsSent
    BY DEF HeadIsSent
  <1> QED
    BY <1>1, NothingIsLost, OnlyHeadsAreSent, PTL

(* Packets arrive in the order ykb_esb_send took them.                     *)
THEOREM OrderIsKept == ASSUME Mpsl => QuickSends PROVE Spec => PacketsArriveInOrder
  <1> DEFINE InOrder == \A p \in delivered' \ delivered :
                          1 .. (p - 1) \subseteq delivered \cup discarded
  <1>1. EsbInv /\ [Next]_vars => EsbInv'
    BY EsbInvStep
  <1>2. ASSUME EsbInv, [Next]_vars PROVE [InOrder]_vars
    <2>1. CASE Acknowledged \/ NotAcknowledged
      <3>1. queue # << >> /\ Head(fifo) = Head(queue)
        BY <2>1, <1>2 DEF Acknowledged, NotAcknowledged, EsbInv, RadioSendsHead
      <3>2. delivered' \ delivered \subseteq {Head(queue)}
        BY <2>1, <3>1 DEF Acknowledged, NotAcknowledged
      <3> QED
        BY <3>1, <3>2, <1>2, HeadIsNext
    <2>2. CASE ~(Acknowledged \/ NotAcknowledged) /\ Next
      <3>1. delivered' = delivered
        BY <2>2 DEF Next, Send, Radio, Put, Check, Peek, WritePayload, StartTx, TxSuccess,
                    TxFailed, TimeslotStarts, TimeslotEnds, air
      <3> QED
        BY <3>1
    <2> QED
      BY <2>1, <2>2, <1>2
  <1> QED
    BY EsbInvInit, <1>1, <1>2, PTL DEF Spec, PacketsArriveInOrder


-----------------------------------------------------------------------------
(* The timeslots of EsbStack. *)

(* Which calls are due: a timeslot is asked for once, by a call or by a    *)
(* signal.                                                                 *)
CallsAreDue ==
  /\ oops = FALSE
  /\ \/ session = "none" /\ calls \in { << >>, << "open", "request" >> }
     \/ session = "idle" /\ calls = << "request" >>
     \/ session \in {"requested", "running", "over"} /\ calls = << >>

(* ESB is active in a timeslot that may still be extended. *)
ActiveInSlot ==
  active => mode = "alone" \/ (slot /\ session = "running" /\ timer # "late")

SlotInv == CallsAreDue /\ ActiveInSlot

LEMMA SlotInvInit == ASSUME Mpsl PROVE MCInit => SlotInv
  BY DEF MCInit, Init, SlotInv, CallsAreDue, ActiveInSlot, Time!SlotInit

LEMMA SlotInvKept == SlotInv => TimeslotsAreKept
  <1> SUFFICES ASSUME SlotInv PROVE TimeslotsAreKept
    OBVIOUS
  <1>1. calls # << >> => session \in {"none", "idle"} /\ Time!ToSet(calls) \subseteq {"open", "request"}
    BY DEF SlotInv, CallsAreDue, Time!ToSet
  <1> QED
    BY <1>1 DEF SlotInv, CallsAreDue, ActiveInSlot, TimeslotsAreKept, Time!CallsSucceed

(* A call is made once, in the state of the session that allows it. *)
LEMMA CallKeepsSlotInv ==
  ASSUME SlotInv, Time!MakeCall, UNCHANGED << active, mode >>
  PROVE  SlotInv'
  <1>1. CASE session = "none" /\ calls = << "open", "request" >>
    <2>1. Head(calls) = "open" /\ Tail(calls) = << "request" >>
      BY <1>1
    <2> QED
      BY <1>1, <2>1 DEF SlotInv, CallsAreDue, ActiveInSlot, Time!MakeCall
  <1>2. CASE session = "idle" /\ calls = << "request" >>
    <2>1. Head(calls) = "request" /\ Tail(calls) = << >>
      BY <1>2
    <2> QED
      BY <1>2, <2>1 DEF SlotInv, CallsAreDue, ActiveInSlot, Time!MakeCall
  <1> QED
    BY <1>1, <1>2 DEF SlotInv, CallsAreDue, Time!MakeCall

(* A session that is idle without a call gets one. *)
LEMMA ScheduleKeepsCalls ==
  ASSUME calls = << >>, oops = FALSE, Time!Schedule("request"), session' = "idle"
  PROVE  CallsAreDue'
  <1>1. Len(calls) < Calls /\ Append(calls, "request") = << "request" >>
    BY EsbStackAssumption
  <1> QED
    BY <1>1 DEF Time!Schedule, CallsAreDue

LEMMA QuietKeepsSlotInv == ASSUME SlotInv, TimeQuiet, mode' = mode PROVE SlotInv'
  <1> USE DEF SlotInv, CallsAreDue, ActiveInSlot
  <1>1. UNCHANGED << active, mode >> /\ InTime
    BY DEF TimeQuiet, NotCalled, both
  <1>2. CASE Time!MakeCall
    BY <1>1, <1>2, CallKeepsSlotInv
  <1>3. CASE Time!AskExtension \/ Time!ExtendSucceeded
    BY <1>1, <1>3 DEF Time!AskExtension, Time!ExtendSucceeded
  <1>4. CASE Time!RequestNext
    BY <1>1, <1>4 DEF Time!RequestNext, InTime
  <1>5. CASE Time!SessionIdle \/ Time!Blocked
    <2>1. /\ calls = << >> /\ session \in {"over", "requested"}
          /\ session' = "idle" /\ Time!Schedule("request")
      BY <1>5 DEF Time!SessionIdle, Time!Blocked
    <2>2. CallsAreDue'
      BY <2>1, ScheduleKeepsCalls
    <2> QED
      BY <1>1, <2>1, <2>2 DEF InTime
  <1> QED
    BY <1>2, <1>3, <1>4, <1>5 DEF TimeQuiet, Time!Quiet

LEMMA StartKeepsSlotInv == ASSUME SlotInv, TimeStarts, mode' = mode PROVE SlotInv'
  BY DEF SlotInv, CallsAreDue, ActiveInSlot, TimeStarts, Time!Start

(* The end of radio time suspends ESB, unless it was suspended before. *)
LEMMA StopKeepsSlotInv == ASSUME SlotInv, TimeStops, mode' = mode PROVE SlotInv'
  <1> USE DEF SlotInv, CallsAreDue, ActiveInSlot
  <1>1. active' = FALSE \/ (~slot /\ active' = active)
    BY DEF TimeStops, Stopped, TimeslotEnds, Suspend, Prx!SlotEnds, NotCalled, both
  <1> QED
    BY <1>1 DEF TimeStops, Time!Stop, Time!ExtendFailed, Time!Overstayed

(* Nothing else of the library or the transport above it touches the        *)
(* session, or starts to use the radio.                                     *)
LEMMA OthersKeepSlotInv ==
  ASSUME SlotInv, PtxStep \/ PrxStep \/ AloneStep \/ RpcStep, mode' = mode
  PROVE  SlotInv'
  <1>1. UNCHANGED slotOnly
    BY DEF PtxStep, PrxStep, AloneStep, RpcStep
  <1>2. mode = "alone" \/ UNCHANGED << slot, active >>
    <2>1. CASE PtxStep
      <3>1. CASE Send
        BY <3>1 DEF Send, Put, Check, Peek, WritePayload, StartTx
      <3>2. CASE Radio
        BY <3>2 DEF Radio, Acknowledged, NotAcknowledged, TxSuccess, TxFailed
      <3> QED
        BY <2>1, <3>1, <3>2 DEF PtxStep
    <2>2. CASE PrxStep
      BY <2>2 DEF PrxStep, Prx!PrxSend, Prx!BeginCopy, Prx!EndCopy, Prx!CheckActive,
                  Prx!Flush, Prx!Write, Prx!Polled
    <2>3. CASE AloneStep
      BY <2>3 DEF AloneStep
    <2>4. CASE RpcStep
      BY <2>4 DEF RpcStep, vars
    <2> QED
      BY <2>1, <2>2, <2>3, <2>4
  <1> QED
    BY <1>1, <1>2 DEF slotOnly, SlotInv, CallsAreDue, ActiveInSlot

(* What the library asks of MPSL succeeds, and it uses the radio only in    *)
(* timeslots that were granted, whatever MPSL refuses and however often.    *)
THEOREM TimeslotsKept == ASSUME Mpsl PROVE MCSpec => []TimeslotsAreKept
  <1>1. MCInit => SlotInv
    BY SlotInvInit
  <1>2. SlotInv /\ [MCNext]_MCVars => SlotInv'
    <2> SUFFICES ASSUME SlotInv, [MCNext]_MCVars PROVE SlotInv'
      OBVIOUS
    <2>1. CASE MCNext
      BY <2>1, QuietKeepsSlotInv, StartKeepsSlotInv, StopKeepsSlotInv, OthersKeepSlotInv
         DEF MCNext
    <2>2. CASE UNCHANGED MCVars
      BY <2>2 DEF MCVars, vars, slotOnly, SlotInv, CallsAreDue, ActiveInSlot
    <2> QED
      BY <2>1, <2>2
  <1> QED
    BY <1>1, <1>2, SlotInvKept, PTL DEF MCSpec
-----------------------------------------------------------------------------
(* The transport of SplitLink, in EsbStack behind RPC. *)

Works == {"connect", "disconnect", "receive"}

Queued(work) == \E i \in DOMAIN works : works[i] = work

(* A transport that believes in the connection has told so, or has the work *)
(* that does in the queue.                                                  *)
TellInv == works \in Seq(Works) /\ (connected => told \/ Queued("connect"))

LEMMA SubmitKeeps ==
  ASSUME NEW work \in Works, works \in Seq(Works), works' = Rpc!Submit(works, work)
  PROVE  /\ works' \in Seq(Works) /\ Queued(work)'
         /\ \A other \in Works : Queued(other) => Queued(other)'
  <1>1. CASE Queued(work)
    BY <1>1 DEF Rpc!Submit, Queued
  <1>2. CASE ~Queued(work)
    <2>1. works' = Append(works, work)
      BY <1>2 DEF Rpc!Submit, Queued
    <2>2. /\ works' \in Seq(Works) /\ Len(works') = Len(works) + 1
          /\ works'[Len(works) + 1] = work
          /\ \A i \in 1 .. Len(works) : works'[i] = works[i]
      BY <2>1
    <2>3. DOMAIN works = 1 .. Len(works) /\ DOMAIN works' = 1 .. Len(works')
      BY <2>2
    <2> QED
      BY <2>2, <2>3 DEF Queued
  <1> QED
    BY <1>1, <1>2

(* A work that is taken out leaves the others in the queue. *)
LEMMA WithdrawKeeps ==
  ASSUME NEW work \in Works, works \in Seq(Works), works' = Rpc!Withdraw(works, work)
  PROVE  /\ works' \in Seq(Works)
         /\ \A other \in Works \ {work} : Queued(other) => Queued(other)'
  <1>1. CASE ~Queued(work)
    BY <1>1 DEF Rpc!Withdraw, Queued
  <1>2. CASE Queued(work)
    <2> DEFINE at == CHOOSE i \in DOMAIN works : works[i] = work
               front == SubSeq(works, 1, at - 1)
               back == SubSeq(works, at + 1, Len(works))
    <2>1. at \in 1 .. Len(works) /\ works[at] = work /\ works' = front \o back
      <3>1. \E i \in DOMAIN works : works[i] = work
        BY <1>2 DEF Queued
      <3>2. at \in DOMAIN works /\ works[at] = work
        BY <3>1
      <3>3. works' = front \o back
        BY <3>1 DEF Rpc!Withdraw
      <3> QED
        BY <3>2, <3>3
    <2> HIDE DEF at
    <2>2. /\ front \in Seq(Works) /\ Len(front) = at - 1
          /\ \A i \in 1 .. (at - 1) : front[i] = works[i]
      BY <2>1
    <2>3. /\ back \in Seq(Works) /\ Len(back) = Len(works) - at
          /\ \A i \in 1 .. (Len(works) - at) : back[i] = works[at + i]
      BY <2>1
    <2> HIDE DEF front, back
    <2>4. /\ works' \in Seq(Works) /\ Len(works') = Len(works) - 1
          /\ \A i \in 1 .. (at - 1) : works'[i] = works[i]
          /\ \A i \in at .. (Len(works) - 1) : works'[i] = works[i + 1]
      <3>1. /\ works' \in Seq(Works) /\ Len(works') = Len(front) + Len(back)
            /\ \A i \in 1 .. Len(front) + Len(back) :
                 works'[i] = IF i <= Len(front) THEN front[i] ELSE back[i - Len(front)]
        <4>1. front \in Seq(Works) /\ back \in Seq(Works) /\ works' = front \o back
          BY <2>1, <2>2, <2>3
        <4> QED
          BY <4>1, ConcatProperties
      <3>2. Len(works) \in Nat /\ at \in Nat
        BY <2>1
      <3>3. ASSUME NEW i \in at .. (Len(works) - 1) PROVE works'[i] = works[i + 1]
        <4>1. works'[i] = back[i - (at - 1)] /\ i - (at - 1) \in 1 .. (Len(works) - at)
          BY <2>1, <2>2, <2>3, <3>1, <3>2
        <4>2. at + (i - (at - 1)) = i + 1
          BY <3>2
        <4> QED
          BY <2>3, <4>1, <4>2
      <3>4. ASSUME NEW i \in 1 .. (at - 1) PROVE works'[i] = works[i]
        BY <2>1, <2>2, <2>3, <3>1, <3>2
      <3> QED
        BY <2>1, <2>2, <2>3, <3>1, <3>2, <3>3, <3>4
    <2>5. ASSUME NEW other \in Works \ {work}, Queued(other) PROVE Queued(other)'
      <3>1. PICK i \in 1 .. Len(works) : works[i] = other
        BY <2>5 DEF Queued
      <3>2. CASE i < at
        <4>1. i \in 1 .. (at - 1) /\ i \in DOMAIN works'
          BY <2>1, <2>4, <3>2
        <4> QED
          BY <2>4, <3>1, <4>1 DEF Queued
      <3>3. CASE i > at
        <4>1. i - 1 \in at .. (Len(works) - 1) /\ i - 1 \in DOMAIN works' /\ (i - 1) + 1 = i
          BY <2>1, <2>4, <3>3
        <4>2. works'[i - 1] = works[i]
          BY <2>4, <4>1
        <4> QED
          BY <3>1, <4>1, <4>2 DEF Queued
      <3> QED
        BY <2>1, <3>1, <3>2, <3>3
    <2> QED
      BY <2>4, <2>5
  <1> QED
    BY <1>1, <1>2

(* A work that runs is the only one that leaves the queue. *)
LEMMA RunKeeps ==
  ASSUME works \in Seq(Works), works # << >>, works' = Tail(works)
  PROVE  /\ works' \in Seq(Works) /\ Head(works) \in Works
         /\ \A other \in Works \ {Head(works)} : Queued(other) => Queued(other)'
  <1>1. /\ works' \in Seq(Works) /\ Len(works') = Len(works) - 1
        /\ Head(works) = works[1] /\ Head(works) \in Works
        /\ \A i \in 1 .. (Len(works) - 1) : works'[i] = works[i + 1]
    OBVIOUS
  <1>2. ASSUME NEW other \in Works \ {Head(works)}, Queued(other) PROVE Queued(other)'
    <2>1. PICK i \in 1 .. Len(works) : works[i] = other
      BY <1>2 DEF Queued
    <2>2. i - 1 \in 1 .. (Len(works) - 1) /\ i - 1 \in DOMAIN works' /\ (i - 1) + 1 = i
      BY <1>1, <2>1
    <2> QED
      BY <1>1, <2>1, <2>2 DEF Queued
  <1> QED
    BY <1>1, <1>2

(* The thread of RPC: its callback tells nobody while connected is set, and *)
(* takes no connection out of the queue.                                    *)
LEMMA CoresKeepTellInv == ASSUME TellInv, Rpc!Cores PROVE TellInv'
  <1> USE DEF TellInv
  <1>1. CASE Rpc!InitWork \/ Rpc!Bound \/ Rpc!BeginEncoding \/ Rpc!EndEncoding \/ Rpc!TakeEvent
    <2>1. UNCHANGED << connected, works, told >>
      BY <1>1 DEF Rpc!InitWork, Rpc!Bound, Rpc!BeginEncoding, Rpc!EndEncoding,
                  Rpc!TakeEvent, Rpc!transport
    <2> QED
      BY <2>1 DEF Queued
  <1>2. CASE Rpc!BeginCopy \/ Rpc!Schedule
    BY <1>2 DEF Rpc!BeginCopy, Rpc!Schedule, Queued
  <1>3. CASE Rpc!Connect
    <2>1. CASE connected
      BY <1>3, <2>1 DEF Rpc!Connect, Queued
    <2>2. CASE ~connected
      <3>1. "connect" \in Works /\ works' = Rpc!Submit(works, "connect")
        BY <1>3, <2>2 DEF Rpc!Connect, Works
      <3> QED
        BY <3>1, SubmitKeeps
    <2> QED
      BY <2>1, <2>2
  <1>4. CASE Rpc!EndCopy
    <2>1. /\ "receive" \in Works /\ "connect" \in Works /\ UNCHANGED << connected, told >>
          /\ works' = Rpc!Submit(works, "receive")
      BY <1>4 DEF Rpc!EndCopy, Works
    <2> QED
      BY <2>1, SubmitKeeps
  <1>5. CASE Rpc!Cancel
    <2>1. /\ "disconnect" \in Works /\ "connect" \in Works \ {"disconnect"}
          /\ UNCHANGED << connected, told >>
          /\ works' = Rpc!Withdraw(works, "disconnect")
      BY <1>5 DEF Rpc!Cancel, Works
    <2> QED
      BY <2>1, WithdrawKeeps
  <1> QED
    BY <1>1, <1>2, <1>3, <1>4, <1>5 DEF Rpc!Cores, Rpc!Callback

LEMMA WorksKeepTellInv == ASSUME TellInv, Rpc!TimerExpires \/ Rpc!RunWork PROVE TellInv'
  <1> USE DEF TellInv
  <1>1. CASE Rpc!TimerExpires
    <2>1. /\ "disconnect" \in Works /\ "connect" \in Works /\ UNCHANGED << connected, told >>
          /\ works' = Rpc!Submit(works, "disconnect")
      BY <1>1 DEF Rpc!TimerExpires, Works
    <2> QED
      BY <2>1, SubmitKeeps
  <1>2. CASE Rpc!RunWork
    <2>1. works # << >> /\ works' = Tail(works)
      BY <1>2 DEF Rpc!RunWork
    <2>2. /\ works' \in Seq(Works) /\ "connect" \in Works
          /\ Head(works) # "connect" /\ Queued("connect") => Queued("connect")'
      BY <2>1, RunKeeps DEF Works
    <2>3. \/ Head(works) = "disconnect" /\ connected' = FALSE
          \/ Head(works) = "connect" /\ told' = TRUE
          \/ Head(works) = "receive" /\ UNCHANGED << connected, told >>
      BY <1>2 DEF Rpc!RunWork, Rpc!DisconnectWork, Rpc!ConnectWork, Rpc!ReceiveWork
    <2> QED
      BY <2>2, <2>3
  <1> QED
    BY <1>1, <1>2

LEMMA TellInvStep == ASSUME TellInv, [MCNext]_MCVars PROVE TellInv'
  <1>1. CASE RpcStep
    <2>1. CASE Rpc!GoesAway \/ \E data \in BOOLEAN : Rpc!PacketComes(data)
      BY <2>1 DEF Rpc!GoesAway, Rpc!PacketComes, Rpc!transport, TellInv, Queued
    <2> QED
      BY <1>1, <2>1, CoresKeepTellInv, WorksKeepTellInv DEF RpcStep, Rpc!RpcNext
  <1>2. CASE UNCHANGED rpcOnly
    BY <1>2 DEF rpcOnly, TellInv, Queued
  <1> QED
    BY <1>1, <1>2 DEF MCNext, MCVars

(* A transport that believes in the connection has told the sync layer once  *)
(* the works have run, however packets, timeouts and works interleave.      *)
THEOREM ConnectionsAreTold == MCSpec => []ConnectedIsTold
  <1>1. MCInit => TellInv
    BY DEF MCInit, Rpc!RpcInit, TellInv
  <1>2. TellInv => ConnectedIsTold
    <2> SUFFICES ASSUME TellInv, works = << >>, connected PROVE told
      BY DEF ConnectedIsTold, Rpc!ConnectedIsTold
    <2> QED
      BY DEF TellInv, Queued
  <1> QED
    BY <1>1, <1>2, TellInvStep, PTL DEF MCSpec

-----------------------------------------------------------------------------
(* What is received, by a transmitter with its acknowledgements and over RPC. *)

Data == Nat \X Nat \X BOOLEAN

(* The parts are of one packet, or the copying was interrupted. *)
Whole(d) == d[1] = d[2] \/ d[3] = TRUE

Upto(d, e) == d[1] <= e[1] /\ d[2] <= e[2]

(* The FIFO holds copies of the cache, no part of them older than what        *)
(* arrived, in the order of the calls.                                       *)
AcksInv ==
  /\ sent \in Nat /\ cache \in Nat \X Nat /\ heard \in Data
  /\ cache[1] = sent /\ cache[2] <= sent
  /\ (mode = "prx" /\ sender = "copying") \/ cache[2] = sent
  /\ Whole(heard) /\ Upto(heard, cache)
  /\ acks \in Seq(Data)
  /\ \A i \in 1 .. Len(acks) :
       Whole(acks[i]) /\ Upto(heard, acks[i]) /\ Upto(acks[i], cache)
  /\ \A i, j \in 1 .. Len(acks) : i <= j => Upto(acks[i], acks[j])

(* A cache that is newer is as good. *)
LEMMA CacheKeepsAcks ==
  ASSUME AcksInv, UNCHANGED << acks, heard >>,
         sent' \in Nat, cache' \in Nat \X Nat, cache'[1] = sent', cache'[2] <= sent',
         (mode' = "prx" /\ sender' = "copying") \/ cache'[2] = sent',
         Upto(cache, cache')
  PROVE  AcksInv'
  <1>1. Upto(heard, cache')
    BY DEF AcksInv, Upto, Data
  <1>2. ASSUME NEW i \in 1 .. Len(acks) PROVE Upto(acks[i], cache')
    <2>1. acks[i] \in Data /\ Upto(acks[i], cache)
      BY DEF AcksInv
    <2> QED
      BY <2>1 DEF AcksInv, Upto, Data
  <1> QED
    BY <1>1, <1>2 DEF AcksInv

LEMMA SendKeepsAcks ==
  ASSUME AcksInv, Prx!PrxSend, mode = "prx", mode' = mode
  PROVE  AcksInv' /\ heard' = heard
  <1>1. CASE Prx!BeginCopy
    <2>1. /\ UNCHANGED << acks, heard >> /\ sender' = "copying"
          /\ sent' = sent + 1 /\ cache' = << sent + 1, cache[2] >>
      BY <1>1 DEF Prx!BeginCopy
    <2>2. /\ sent' \in Nat /\ cache' \in Nat \X Nat /\ cache'[1] = sent' /\ cache'[2] <= sent'
          /\ Upto(cache, cache')
      BY <2>1 DEF AcksInv, Upto
    <2> QED
      BY <2>1, <2>2, CacheKeepsAcks
  <1>2. CASE Prx!EndCopy
    <2>1. UNCHANGED << acks, heard, sent >> /\ cache' = << cache[1], sent >>
      BY <1>2 DEF Prx!EndCopy
    <2>2. /\ sent' \in Nat /\ cache' \in Nat \X Nat /\ cache'[1] = sent' /\ cache'[2] = sent'
          /\ cache'[2] <= sent' /\ Upto(cache, cache')
      BY <2>1 DEF AcksInv, Upto
    <2> QED
      BY <2>1, <2>2, CacheKeepsAcks
  <1>3. CASE Prx!CheckActive
    <2>1. UNCHANGED << acks, heard, sent, cache >> /\ sender = "copied"
      BY <1>3 DEF Prx!CheckActive
    <2> QED
      BY <2>1 DEF AcksInv
  <1>4. CASE Prx!Flush
    <2>1. UNCHANGED << heard, sent, cache >> /\ sender = "flush" /\ acks' = << >>
      BY <1>4 DEF Prx!Flush
    <2> QED
      BY <2>1 DEF AcksInv
  <1>5. CASE Prx!Write
    <2> DEFINE p == Prx!Payload
               n == Len(acks) + 1
    <2>1. /\ UNCHANGED << cache, sent, heard >> /\ sender = "write"
          /\ acks' = Append(acks, p) \/ acks' = acks
      BY <1>5 DEF Prx!Write
    <2>2. p \in Data /\ p[1] = cache[1] /\ p[2] = cache[2] /\ p[1] = p[2]
      BY <2>1 DEF Prx!Payload, AcksInv, Data
    <2> HIDE DEF p
    <2>3. CASE acks' = acks
      BY <2>1, <2>3 DEF AcksInv
    <2>4. CASE acks' = Append(acks, p)
      <3>1. /\ acks' \in Seq(Data) /\ Len(acks') = n /\ n \in Nat /\ acks'[n] = p
            /\ \A i \in 1 .. Len(acks) : acks'[i] = acks[i]
        <4>1. acks \in Seq(Data)
          BY DEF AcksInv
        <4> QED
          BY <2>2, <2>4, <4>1
      <3>2. \A i \in 1 .. n : i = n \/ i \in 1 .. Len(acks)
        BY <3>1
      <3>3. /\ Whole(p) /\ Upto(heard, p) /\ Upto(p, cache) /\ Upto(p, p)
            /\ \A i \in 1 .. Len(acks) : Upto(acks[i], p)
        BY <2>2 DEF AcksInv, Upto, Whole, Data
      <3>4. \A i \in 1 .. n :
              Whole(acks'[i]) /\ Upto(heard, acks'[i]) /\ Upto(acks'[i], cache)
        BY <3>1, <3>2, <3>3 DEF AcksInv
      <3>5. ASSUME NEW i \in 1 .. n, NEW j \in 1 .. n, i <= j
            PROVE  Upto(acks'[i], acks'[j])
        <4>1. CASE j = n
          BY <3>1, <3>2, <3>3, <4>1
        <4>2. CASE j \in 1 .. Len(acks)
          <5>1. i \in 1 .. Len(acks)
            BY <3>1, <3>2, <3>5, <4>2
          <5> QED
            BY <3>1, <3>5, <4>2, <5>1 DEF AcksInv
        <4> QED
          BY <3>2, <4>1, <4>2
      <3> HIDE DEF n
      <3> QED
        BY <2>1, <3>1, <3>4, <3>5 DEF AcksInv
    <2> QED
      BY <2>1, <2>3, <2>4
  <1> QED
    BY <1>1, <1>2, <1>3, <1>4, <1>5 DEF Prx!PrxSend, Prx!BeginCopy, Prx!EndCopy,
       Prx!CheckActive, Prx!Flush, Prx!Write

(* The head of the FIFO goes out; the next one is not older. *)
LEMMA PollKeepsAcks ==
  ASSUME AcksInv, NEW next \in BOOLEAN, Prx!Polled(next), mode' = mode
  PROVE  AcksInv' /\ Prx!AckIsNewer
  <1>1. /\ UNCHANGED << cache, sent, sender >>
        /\ acks' = IF next /\ acking THEN Tail(acks) ELSE acks
        /\ (acks' # << >> /\ heard' = Head(acks')) \/ heard' = heard
    BY DEF Prx!Polled
  <1>2. acking /\ next => acks # << >> \/ heard' = heard
    BY <1>1
  <1>3. /\ acks' \in Seq(Data)
        /\ \A i \in 1 .. Len(acks') :
             Whole(acks'[i]) /\ Upto(heard, acks'[i]) /\ Upto(acks'[i], cache)
        /\ \A i, j \in 1 .. Len(acks') : i <= j => Upto(acks'[i], acks'[j])
    <2>1. CASE acks' = Tail(acks) /\ acks # << >>
      <3>1. /\ acks' \in Seq(Data) /\ Len(acks') = Len(acks) - 1 /\ Len(acks) \in Nat
            /\ \A i \in 1 .. Len(acks') : acks'[i] = acks[i + 1]
        BY <2>1 DEF AcksInv
      <3>2. \A i \in 1 .. Len(acks') : i + 1 \in 1 .. Len(acks)
        BY <3>1
      <3>3. ASSUME NEW i \in 1 .. Len(acks'), NEW j \in 1 .. Len(acks'), i <= j
            PROVE  Upto(acks'[i], acks'[j])
        <4>1. i + 1 \in 1 .. Len(acks) /\ j + 1 \in 1 .. Len(acks) /\ i + 1 <= j + 1
          BY <3>2, <3>3
        <4>2. Upto(acks[i + 1], acks[j + 1])
          BY <4>1 DEF AcksInv
        <4> QED
          BY <3>1, <4>2
      <3>4. \A i \in 1 .. Len(acks') :
              Whole(acks'[i]) /\ Upto(heard, acks'[i]) /\ Upto(acks'[i], cache)
        BY <3>1, <3>2 DEF AcksInv
      <3> QED
        BY <3>1, <3>3, <3>4
    <2>2. CASE acks' = acks
      BY <2>2 DEF AcksInv
    <2>3. CASE acks' = Tail(acks) /\ acks = << >>
      BY <2>2, <2>3
    <2> QED
      BY <1>1, <2>1, <2>2, <2>3
  <1>4. CASE heard' = heard
    <2>1. Prx!AckIsNewer
      BY <1>4 DEF AcksInv, Prx!AckIsNewer, Whole, Data
    <2> QED
      BY <1>1, <1>3, <1>4, <2>1 DEF AcksInv
  <1>5. CASE acks' # << >> /\ heard' = Head(acks')
    <2>1. heard' = acks'[1] /\ 1 \in 1 .. Len(acks') /\ heard' \in Data
      <3>1. acks' \in Seq(Data) /\ acks' # << >> /\ heard' = Head(acks')
        BY <1>3, <1>5
      <3> QED
        BY <3>1
    <2>2. /\ Whole(heard') /\ Upto(heard, heard') /\ Upto(heard', cache)
          /\ \A i \in 1 .. Len(acks') : Upto(heard', acks'[i])
      BY <1>3, <2>1
    <2>3. Prx!AckIsNewer
      BY <2>2 DEF Prx!AckIsNewer, Upto, Whole
    <2> QED
      BY <1>1, <1>3, <2>1, <2>2, <2>3 DEF AcksInv
  <1> QED
    BY <1>1, <1>4, <1>5

(* A timeslot that starts puts the cache into the FIFO as it is. *)
LEMMA StartKeepsAcks ==
  ASSUME AcksInv, Prx!SlotStarts, mode = "prx", mode' = mode
  PROVE  AcksInv' /\ heard' = heard
  <1> DEFINE p == Prx!Payload
  <1>1. /\ UNCHANGED << cache, sender, sent, heard >>
        /\ acks' \in { << p >>, << >> }
    BY DEF Prx!SlotStarts
  <1>2. p \in Data /\ p[1] = cache[1] /\ p[2] = cache[2] /\ Whole(p)
    BY DEF Prx!Payload, AcksInv, Data, Whole
  <1> HIDE DEF p
  <1>3. CASE acks' = << >>
    BY <1>1, <1>3 DEF AcksInv
  <1>4. CASE acks' = << p >>
    <2>1. Upto(heard, p) /\ Upto(p, cache) /\ Upto(p, p)
      BY <1>2 DEF AcksInv, Upto, Data
    <2>2. acks' \in Seq(Data) /\ Len(acks') = 1 /\ acks'[1] = p
      BY <1>2, <1>4
    <2> QED
      BY <1>1, <1>2, <2>1, <2>2 DEF AcksInv
  <1> QED
    BY <1>1, <1>3, <1>4

LEMMA AcksStep ==
  ASSUME AcksInv, [MCNext]_MCVars
  PROVE  AcksInv' /\ Prx!AckIsNewer
  <1>1. SUFFICES AcksInv' /\ (heard' = heard \/ Prx!AckIsNewer)
    BY DEF Prx!AckIsNewer, AcksInv, Data, Whole
  <1>2. CASE UNCHANGED << prxOnly, mode >> /\ (mode # "prx" \/ sender' = sender)
    BY <1>2 DEF prxOnly, AcksInv
  <1>3. CASE PrxStep /\ mode' = mode
    BY <1>3, SendKeepsAcks, PollKeepsAcks DEF PrxStep
  <1>4. CASE mode = "prx" /\ mode' = mode /\ Prx!SlotStarts
    BY <1>4, StartKeepsAcks
  <1>5. CASE mode' = mode /\ Prx!SlotEnds
    BY <1>5 DEF Prx!SlotEnds, AcksInv
  <1>6. CASE TimeQuiet \/ TimeStops \/ TimeStarts \/ PtxStep \/ AloneStep \/ RpcStep
    BY <1>2, <1>4, <1>5, <1>6
       DEF MCNext, MCVars, TimeQuiet, TimeStops, TimeStarts, NotCalled, Started, Stopped,
           PtxStep, AloneStep, RpcStep, both, vars
  <1> QED
    BY <1>2, <1>3, <1>6 DEF MCNext, MCVars, vars

-----------------------------------------------------------------------------
(* A part of data does not come after one with a higher number, *)
Before(n, m) == m = 0 \/ n <= m

(* and the second part of an event is not there yet while it is encoded.     *)
Follows(d, e) == Before(d[1], e[1]) /\ (e[2] = -1 \/ Before(d[2], e[2]))

(* An event that was encoded. *)
Encoded(e) ==
  /\ e \in Data /\ Whole(e) /\ e[1] <= e[2] /\ e[2] <= packets
  /\ e[1] = 0 => e[2] = 0

Events == Nat \X Int \X BOOLEAN

(* The events between the cores, of which the last may be encoded now. *)
EventsInv ==
  /\ packets \in Nat /\ last \in Nat \X Nat /\ last[2] = packets /\ last[1] \in {0, packets}
  /\ events \in Seq(Events)
  /\ \A i \in 1 .. Len(events) :
       \/ Encoded(events[i])
       \/ /\ i = Len(events) /\ events[i][2] = -1 /\ events[i][1] <= packets
          /\ sending = "running" => events[i][1] = last[1]
  /\ \A i, j \in 1 .. Len(events) : i < j => Follows(events[i], events[j])

(* What the transport has copied, and the event in the hands of the thread,  *)
(* come before what is on the way.                                           *)
CopyInv ==
  /\ Encoded(event) /\ rx \in Data /\ got \in Data
  /\ Whole(got) /\ (step # "copying" => Whole(rx))
  /\ Upto(got, rx) /\ rx[1] <= packets /\ rx[2] <= packets
  /\ \A i \in 1 .. Len(events) : Follows(event, events[i]) /\ Follows(rx, events[i])
  /\ step \in {"connect", "copy", "copying"} => Follows(rx, event)
  /\ step \in {"copy", "copying"} => event[1] > 0
  /\ step = "copying" => rx[1] = event[1]

PacketsInv == EventsInv /\ CopyInv

LEMMA PacketKeepsOrder ==
  ASSUME PacketsInv, NEW data \in BOOLEAN, Rpc!PacketComes(data)
  PROVE  PacketsInv'
  <1>1. /\ sending' = "queued" /\ UNCHANGED << events, event, step, rx, got >>
        /\ packets' = IF data THEN packets + 1 ELSE packets
        /\ last' = IF data THEN << packets', packets' >> ELSE << 0, last[2] >>
    BY DEF Rpc!PacketComes, Rpc!transport
  <1>2. /\ packets' \in Nat /\ packets <= packets' /\ last' \in Nat \X Nat
        /\ last'[2] = packets' /\ last'[1] \in {0, packets'}
    BY <1>1 DEF PacketsInv, EventsInv
  <1>3. \A e : Encoded(e) => Encoded(e)'
    BY <1>2 DEF Encoded, Data, PacketsInv, EventsInv
  <1>4. EventsInv'
    <2>1. ASSUME NEW i \in 1 .. Len(events), ~Encoded(events[i])
          PROVE  i = Len(events) /\ events[i][2] = -1 /\ events[i][1] <= packets'
      <3>1. events[i] \in Events
        BY DEF PacketsInv, EventsInv
      <3> QED
        BY <1>2, <2>1, <3>1 DEF PacketsInv, EventsInv, Events
    <2> QED
      BY <1>1, <1>2, <1>3, <2>1 DEF PacketsInv, EventsInv
  <1>5. CopyInv'
    <2>1. rx[1] <= packets' /\ rx[2] <= packets'
      BY <1>2 DEF PacketsInv, EventsInv, CopyInv, Data
    <2> QED
      BY <1>1, <1>3, <2>1 DEF PacketsInv, CopyInv
  <1> QED
    BY <1>4, <1>5 DEF PacketsInv

LEMMA BeginKeepsOrder == ASSUME PacketsInv, Rpc!BeginEncoding PROVE PacketsInv'
  <1> DEFINE n == Len(events) + 1
             e == << last[1], -1, FALSE >>
  <1>1. /\ ~Rpc!Encoding /\ events' = Append(events, e) /\ sending' = "running"
        /\ UNCHANGED << packets, last, event, step, rx, got >>
    BY DEF Rpc!BeginEncoding, Rpc!transport
  <1>2. /\ e \in Events /\ e[1] = last[1] /\ e[2] = -1 /\ last[1] \in {0, packets}
        /\ packets \in Nat /\ e[1] <= packets
    <2>1. last[1] \in Nat /\ last[1] \in {0, packets} /\ packets \in Nat
      BY DEF PacketsInv, EventsInv
    <2>2. -1 \in Int /\ FALSE \in BOOLEAN
      OBVIOUS
    <2>3. e \in Events
      BY <2>1, <2>2 DEF Events
    <2>4. e[1] = last[1] /\ e[2] = -1
      OBVIOUS
    <2> HIDE DEF e
    <2> QED
      BY <2>1, <2>3, <2>4
  <1>3. ASSUME NEW d \in Data, d[1] <= packets PROVE Follows(d, e)
    BY <1>2, <1>3 DEF Follows, Before
  <1> HIDE DEF e
  <1>4. /\ events' \in Seq(Events) /\ Len(events') = n /\ n \in Nat /\ events'[n] = e
        /\ \A i \in 1 .. Len(events) : events'[i] = events[i]
    BY <1>1, <1>2 DEF PacketsInv, EventsInv
  <1>5. \A i \in 1 .. n : i = n \/ i \in 1 .. Len(events)
    BY <1>4
  <1>6. ASSUME NEW i \in 1 .. Len(events) PROVE Encoded(events[i]) /\ Follows(events[i], e)
    <2>1. Encoded(events[i])
      <3>1. events # << >>
        OBVIOUS
      <3> QED
        BY <1>1, <3>1 DEF Rpc!Encoding, PacketsInv, EventsInv
    <2>2. events[i] \in Data /\ events[i][1] <= packets
      BY <1>2, <2>1 DEF Encoded, Data
    <2> QED
      BY <1>3, <2>1, <2>2
  <1>7. EventsInv'
    <2>1. ASSUME NEW i \in 1 .. n, NEW j \in 1 .. n, i < j
          PROVE  Follows(events'[i], events'[j])
      <3>1. CASE j = n
        <4>1. i \in 1 .. Len(events)
          BY <1>4, <1>5, <2>1, <3>1
        <4> QED
          BY <1>4, <1>6, <3>1, <4>1
      <3>2. CASE j \in 1 .. Len(events)
        <4>1. i \in 1 .. Len(events)
          BY <1>4, <1>5, <2>1, <3>2
        <4> QED
          BY <1>4, <2>1, <3>2, <4>1 DEF PacketsInv, EventsInv
      <3> QED
        BY <1>5, <3>1, <3>2
    <2>2. ASSUME NEW i \in 1 .. n
          PROVE  \/ Encoded(events[i])'
                 \/ /\ i = n /\ events'[i][2] = -1 /\ events'[i][1] <= packets
                    /\ events'[i][1] = last[1]
      <3>1. CASE i = n
        BY <1>2, <1>4, <3>1
      <3>2. CASE i \in 1 .. Len(events)
        BY <1>1, <1>4, <1>6, <3>2 DEF Encoded
      <3> QED
        BY <1>5, <3>1, <3>2
    <2> HIDE DEF n
    <2> QED
      BY <1>1, <1>4, <2>1, <2>2 DEF PacketsInv, EventsInv
  <1>8. CopyInv'
    <2>1. Follows(event, e) /\ Follows(rx, e)
      BY <1>2, <1>3 DEF PacketsInv, CopyInv, Encoded, Data
    <2>2. Encoded(event)' /\ \A i \in 1 .. n : Follows(event, events'[i]) /\ Follows(rx, events'[i])
      BY <1>1, <1>4, <1>5, <2>1 DEF PacketsInv, CopyInv, Encoded
    <2> HIDE DEF n
    <2> QED
      BY <1>1, <1>4, <2>2 DEF PacketsInv, CopyInv
  <1> QED
    BY <1>7, <1>8 DEF PacketsInv

LEMMA EndKeepsOrder == ASSUME PacketsInv, Rpc!EndEncoding PROVE PacketsInv'
  <1> DEFINE n == Len(events)
             e == IF events[n][1] = 0 THEN Rpc!NoData
                  ELSE << events[n][1], last[2], sending # "running" >>
  <1>1. /\ events # << >> /\ events[n][2] = -1 /\ events' = [events EXCEPT ![n] = e]
        /\ UNCHANGED << packets, last, event, step, rx, got >>
    BY DEF Rpc!EndEncoding, Rpc!Encoding, Rpc!transport
  <1>2. n \in 1 .. n /\ events[n] \in Events /\ n \in Nat /\ events \in Seq(Events)
    BY <1>1 DEF PacketsInv, EventsInv
  <1>3. /\ events[n][1] \in Nat /\ events[n][1] <= packets
        /\ sending = "running" => events[n][1] = last[1]
    BY <1>1, <1>2 DEF PacketsInv, EventsInv, Encoded, Data, Events
  <1>4. e \in Data /\ e[1] = events[n][1] /\ e[2] = IF events[n][1] = 0 THEN 0 ELSE packets
    BY <1>3 DEF PacketsInv, EventsInv, Data, Rpc!NoData
  <1>5. Whole(e)
    BY <1>3, <1>4 DEF PacketsInv, EventsInv, Whole, Rpc!NoData
  <1>6. Encoded(e)
    BY <1>3, <1>4, <1>5 DEF Encoded, PacketsInv, EventsInv
  <1> HIDE DEF e
  <1>7. /\ events' \in Seq(Events) /\ Len(events') = n /\ events'[n] = e
        /\ \A i \in 1 .. n : i # n => events'[i] = events[i]
    BY <1>1, <1>2, <1>4 DEF Data, Events
  <1>8. ASSUME NEW d \in Data, d[2] <= packets, Follows(d, events[n]) PROVE Follows(d, e)
    BY <1>4, <1>8 DEF Follows, Before, Data
  <1>9. ASSUME NEW i \in 1 .. n, i # n PROVE Encoded(events[i])
    BY <1>9 DEF PacketsInv, EventsInv
  <1>10. EventsInv'
    <2>1. ASSUME NEW i \in 1 .. n PROVE Encoded(events[i])'
      BY <1>1, <1>6, <1>7, <1>9 DEF Encoded
    <2>2. ASSUME NEW i \in 1 .. n, NEW j \in 1 .. n, i < j
          PROVE  Follows(events'[i], events'[j])
      <3>1. i # n /\ Encoded(events[i]) /\ Follows(events[i], events[j])
        <4>1. i # n
          BY <1>2, <2>2
        <4> QED
          BY <1>9, <2>2, <4>1 DEF PacketsInv, EventsInv
      <3>2. events[i] \in Data /\ events[i][2] <= packets
        BY <3>1 DEF Encoded
      <3>3. CASE j = n
        BY <1>7, <1>8, <3>1, <3>2, <3>3
      <3>4. CASE j # n
        BY <1>7, <3>1, <3>4
      <3> QED
        BY <3>3, <3>4
    <2> HIDE DEF n
    <2> QED
      BY <1>1, <1>7, <2>1, <2>2 DEF PacketsInv, EventsInv
  <1>11. CopyInv'
    <2>1. ASSUME NEW d \in {event, rx}, NEW i \in 1 .. n PROVE Follows(d, events'[i])
      <3>1. d \in Data /\ d[2] <= packets /\ Follows(d, events[i]) /\ Follows(d, events[n])
        BY <1>2 DEF PacketsInv, CopyInv, Encoded
      <3> QED
        BY <1>7, <1>8, <3>1
    <2>2. Encoded(event)'
      BY <1>1 DEF PacketsInv, CopyInv, Encoded
    <2> HIDE DEF n
    <2> QED
      BY <1>1, <1>7, <2>1, <2>2 DEF PacketsInv, CopyInv
  <1> QED
    BY <1>10, <1>11 DEF PacketsInv

LEMMA TakeKeepsOrder == ASSUME PacketsInv, Rpc!TakeEvent PROVE PacketsInv'
  <1>1. /\ step = "idle" /\ step' = "connect"
        /\ events # << >> /\ Head(events)[2] # -1
        /\ event' = Head(events) /\ events' = Tail(events)
        /\ UNCHANGED << packets, last, sending, rx, got >>
    BY DEF Rpc!TakeEvent, Rpc!transport, Rpc!network
  <1>2. /\ Len(events) \in Nat /\ 1 \in 1 .. Len(events) /\ event' = events[1]
        /\ events' \in Seq(Events) /\ Len(events') = Len(events) - 1
        /\ \A i \in 1 .. Len(events') : i + 1 \in 1 .. Len(events) /\ events'[i] = events[i + 1]
    BY <1>1 DEF PacketsInv, EventsInv
  <1>3. Encoded(event') /\ Follows(rx, event')
    BY <1>1, <1>2 DEF PacketsInv, EventsInv, CopyInv
  <1>4. EventsInv'
    <2>1. ASSUME NEW i \in 1 .. Len(events')
          PROVE  \/ Encoded(events[i])'
                 \/ /\ i = Len(events') /\ events'[i][2] = -1 /\ events'[i][1] <= packets
                    /\ sending = "running" => events'[i][1] = last[1]
      <3>1. i + 1 \in 1 .. Len(events) /\ events'[i] = events[i + 1]
        BY <1>2
      <3>2. CASE Encoded(events[i + 1])
        BY <1>1, <3>1, <3>2 DEF Encoded
      <3>3. CASE ~Encoded(events[i + 1])
        BY <1>2, <3>1, <3>3 DEF PacketsInv, EventsInv
      <3> QED
        BY <3>2, <3>3
    <2>2. ASSUME NEW i \in 1 .. Len(events'), NEW j \in 1 .. Len(events'), i < j
          PROVE  Follows(events'[i], events'[j])
      <3>1. i + 1 \in 1 .. Len(events) /\ j + 1 \in 1 .. Len(events) /\ i + 1 < j + 1
        BY <1>2, <2>2
      <3>2. Follows(events[i + 1], events[j + 1])
        BY <3>1 DEF PacketsInv, EventsInv
      <3> QED
        BY <1>2, <3>2
    <2> QED
      BY <1>1, <1>2, <2>1, <2>2 DEF PacketsInv, EventsInv
  <1>5. CopyInv'
    <2>1. ASSUME NEW i \in 1 .. Len(events')
          PROVE  Follows(event', events'[i]) /\ Follows(rx, events'[i])
      <3>1. i + 1 \in 1 .. Len(events) /\ events'[i] = events[i + 1] /\ 1 < i + 1
        BY <1>2
      <3>2. Follows(events[1], events[i + 1]) /\ Follows(rx, events[i + 1])
        BY <1>2, <3>1 DEF PacketsInv, EventsInv, CopyInv
      <3> QED
        BY <1>2, <3>1, <3>2
    <2>2. Encoded(event)'
      BY <1>1, <1>3 DEF Encoded
    <2> QED
      BY <1>1, <1>3, <2>1, <2>2 DEF PacketsInv, CopyInv
  <1> QED
    BY <1>4, <1>5 DEF PacketsInv

LEMMA CallbackKeepsOrder == ASSUME PacketsInv, Rpc!Callback PROVE PacketsInv' /\ got' = got
  <1>1. EventsInv' /\ UNCHANGED << packets, last, events, got >>
    BY DEF PacketsInv, EventsInv, Encoded, Rpc!Callback, Rpc!Connect, Rpc!BeginCopy,
           Rpc!EndCopy, Rpc!Cancel, Rpc!Schedule, Rpc!network
  <1>2. /\ (event' = event /\ Encoded(event)') \/ event' = Rpc!NoData
        /\ \/ rx' = rx /\ step' = "idle" /\ step # "copying"
           \/ event' = event /\ rx' = rx /\ step' \in {"cancel", "schedule"} /\ step # "copying"
           \/ event' = event /\ rx' = rx /\ step = "connect" /\ step' = "copy" /\ event[1] > 0
           \/ event' = event /\ rx' = << event[1], rx[2], rx[3] >> /\ step = "copy" /\ step' = "copying"
           \/ event' = event /\ rx' = << rx[1], event[2], event[3] >> /\ step = "copying" /\ step' = "cancel"
    BY <1>1 DEF Rpc!Callback, Rpc!Connect, Rpc!BeginCopy, Rpc!EndCopy, Rpc!Cancel, Rpc!Schedule,
       Encoded, PacketsInv, CopyInv
  <1>3. CASE rx' = rx /\ step' = "idle" /\ step # "copying"
    <2>1. CASE event' = Rpc!NoData
      <3>1. Encoded(event)'
        <4>1. /\ Rpc!NoData \in Data /\ Rpc!NoData[1] = 0 /\ Rpc!NoData[2] = 0
              /\ packets \in Nat
          BY DEF Data, Rpc!NoData, PacketsInv, EventsInv
        <4> QED
          BY <1>1, <2>1, <4>1 DEF Encoded, Whole
      <3>2. ASSUME NEW i \in 1 .. Len(events) PROVE Follows(Rpc!NoData, events[i])
        <4>1. events[i] \in Events /\ (Encoded(events[i]) \/ events[i][2] = -1)
          BY DEF PacketsInv, EventsInv
        <4> QED
          BY <4>1 DEF Follows, Before, Rpc!NoData, Events, Encoded, Data
      <3> QED
        BY <1>1, <1>3, <2>1, <3>1, <3>2 DEF PacketsInv, CopyInv
    <2>2. CASE event' = event
      BY <1>1, <1>2, <1>3, <2>2 DEF PacketsInv, CopyInv, Encoded
    <2> QED
      BY <1>2, <2>1, <2>2
  <1>4. CASE event' = event /\ rx' = rx /\ step' \in {"cancel", "schedule"} /\ step # "copying"
    BY <1>1, <1>4 DEF PacketsInv, CopyInv, Encoded
  <1>5. CASE event' = event /\ rx' = rx /\ step = "connect" /\ step' = "copy" /\ event[1] > 0
    BY <1>1, <1>5 DEF PacketsInv, CopyInv, Encoded
  <1>6. CASE event' = event /\ rx' = << event[1], rx[2], rx[3] >> /\ step = "copy" /\ step' = "copying"
    <2>1. /\ rx' \in Data /\ rx'[1] = event[1] /\ rx'[2] = rx[2] /\ rx[1] <= event[1]
          /\ event[1] \in Nat /\ event[2] \in Nat /\ event[1] <= event[2] /\ event[2] <= packets
          /\ packets \in Nat
      BY <1>6 DEF PacketsInv, EventsInv, CopyInv, Encoded, Data, Follows, Before
    <2>2. Upto(got, rx') /\ rx'[1] <= packets /\ rx'[2] <= packets
      BY <2>1 DEF PacketsInv, CopyInv, Upto, Data
    <2>3. Follows(rx', event) /\ \A i \in 1 .. Len(events) : Follows(rx', events[i])
      BY <1>6, <2>1 DEF PacketsInv, CopyInv, Follows, Before
    <2> QED
      BY <1>1, <1>6, <2>1, <2>2, <2>3 DEF PacketsInv, CopyInv, Encoded
  <1>7. CASE event' = event /\ rx' = << rx[1], event[2], event[3] >> /\ step = "copying" /\ step' = "cancel"
    <2>1. /\ rx' \in Data /\ rx'[1] = event[1] /\ rx'[2] = event[2] /\ Whole(rx')
          /\ rx[2] <= event[2] /\ event[1] \in Nat /\ event[2] \in Nat
          /\ event[1] <= event[2] /\ event[2] <= packets /\ packets \in Nat
      BY <1>7 DEF PacketsInv, EventsInv, CopyInv, Encoded, Data, Follows, Before, Whole
    <2>2. Upto(got, rx') /\ rx'[1] <= packets /\ rx'[2] <= packets
      BY <1>7, <2>1 DEF PacketsInv, CopyInv, Upto, Data
    <2>3. \A i \in 1 .. Len(events) : Follows(rx', events[i])
      BY <2>1 DEF PacketsInv, CopyInv, Follows
    <2> QED
      BY <1>1, <1>7, <2>1, <2>2, <2>3 DEF PacketsInv, CopyInv, Encoded
  <1> QED
    BY <1>1, <1>2, <1>3, <1>4, <1>5, <1>6, <1>7 DEF PacketsInv

(* The work of the transport hands over what the copy has reached. *)
LEMMA WorkKeepsOrder ==
  ASSUME PacketsInv, Rpc!RunWork
  PROVE  PacketsInv' /\ Rpc!PacketIsNewer
  <1>1. /\ got' \in {<< rx[1], rx[2], rx[3] \/ step = "copying" >>, got}
        /\ UNCHANGED << packets, last, sending, events, event, step, rx >>
    BY DEF Rpc!RunWork, Rpc!DisconnectWork, Rpc!ConnectWork, Rpc!ReceiveWork, Rpc!network
  <1>2. got' \in Data /\ Whole(got') /\ Upto(got, got') /\ Upto(got', rx)
    <2>1. CASE got' = got
      BY <2>1 DEF PacketsInv, CopyInv, Upto, Data
    <2>2. CASE got' = << rx[1], rx[2], rx[3] \/ step = "copying" >>
      <3>1. got' \in Data /\ got'[1] = rx[1] /\ got'[2] = rx[2]
            /\ got'[3] = (rx[3] \/ step = "copying")
        BY <2>2 DEF PacketsInv, CopyInv, Data
      <3>2. Whole(got')
        BY <3>1 DEF PacketsInv, CopyInv, Whole
      <3> QED
        BY <3>1, <3>2 DEF PacketsInv, CopyInv, Upto, Data
    <2> QED
      BY <1>1, <2>1, <2>2
  <1>3. PacketsInv'
    BY <1>1, <1>2 DEF PacketsInv, EventsInv, CopyInv, Encoded
  <1>4. Rpc!PacketIsNewer
    BY <1>2 DEF Rpc!PacketIsNewer, Upto, Whole
  <1> QED
    BY <1>3, <1>4

LEMMA PacketsStep ==
  ASSUME PacketsInv, [MCNext]_MCVars
  PROVE  PacketsInv' /\ Rpc!PacketIsNewer
  <1>1. SUFFICES \/ PacketsInv' /\ got' = got
                 \/ PacketsInv' /\ Rpc!PacketIsNewer
    BY DEF Rpc!PacketIsNewer, PacketsInv, CopyInv, Data, Whole
  <1>2. CASE UNCHANGED << packets, last, sending, events, event, step, rx, got >>
    BY <1>2 DEF PacketsInv, EventsInv, CopyInv, Encoded
  <1>3. CASE RpcStep
    <2>1. CASE Rpc!InitWork \/ Rpc!Bound \/ Rpc!GoesAway \/ Rpc!TimerExpires
      BY <1>2, <2>1 DEF Rpc!InitWork, Rpc!Bound, Rpc!GoesAway, Rpc!TimerExpires,
                        Rpc!network, Rpc!transport
    <2>2. CASE \E data \in BOOLEAN : Rpc!PacketComes(data)
      BY <2>2, PacketKeepsOrder DEF Rpc!PacketComes
    <2>3. CASE Rpc!BeginEncoding \/ Rpc!EndEncoding \/ Rpc!TakeEvent
      <3>1. got' = got
        BY <2>3 DEF Rpc!BeginEncoding, Rpc!EndEncoding, Rpc!TakeEvent
      <3> QED
        BY <2>3, <3>1, BeginKeepsOrder, EndKeepsOrder, TakeKeepsOrder
    <2>4. CASE Rpc!RunWork
      BY <2>4, WorkKeepsOrder
    <2>5. CASE Rpc!Callback
      BY <2>5, CallbackKeepsOrder
    <2> QED
      BY <1>3, <2>1, <2>2, <2>3, <2>4, <2>5 DEF RpcStep, Rpc!RpcNext, Rpc!Cores
  <1>4. CASE UNCHANGED rpcOnly
    BY <1>2, <1>4 DEF rpcOnly
  <1> QED
    BY <1>3, <1>4 DEF MCNext, MCVars

(* No part of what is received is older than what was, and it is one packet  *)
(* unless its own copying was interrupted, for any number of packets,        *)
(* timeslots, lost acknowledgements, alive packets and events between the    *)
(* cores, and whatever the copies are interrupted by.                        *)
THEOREM LatestWins == MCSpec => ReceivedInOrder
  <1>1. MCInit => AcksInv /\ PacketsInv
    <2> SUFFICES ASSUME MCInit PROVE AcksInv /\ PacketsInv
      OBVIOUS
    <2>1. << 0, 0, FALSE >> \in Data /\ << 0, 0, FALSE >>[1] = 0 /\ << 0, 0, FALSE >>[2] = 0
      BY DEF Data
    <2>2. AcksInv
      <3>1. /\ sent = 0 /\ cache = << 0, 0 >> /\ heard = << 0, 0, FALSE >> /\ acks = << >>
        BY DEF MCInit
      <3> QED
        BY <2>1, <3>1 DEF AcksInv, Whole, Upto
    <2>3. PacketsInv
      <3>1. /\ packets = 0 /\ last = << 0, 0 >> /\ events = << >> /\ step = "idle"
            /\ event = << 0, 0, FALSE >> /\ rx = << 0, 0, FALSE >> /\ got = << 0, 0, FALSE >>
        BY DEF MCInit, Rpc!RpcInit, Rpc!NoData
      <3>2. EventsInv
        BY <3>1 DEF EventsInv
      <3>3. CopyInv
        BY <2>1, <3>1 DEF CopyInv, Encoded, Whole, Upto
      <3> QED
        BY <3>2, <3>3 DEF PacketsInv
    <2> QED
      BY <2>2, <2>3
  <1>2. AcksInv /\ PacketsInv /\ [MCNext]_MCVars => (AcksInv /\ PacketsInv)'
    BY AcksStep, PacketsStep
  <1>3. AcksInv /\ PacketsInv /\ [MCNext]_MCVars => [Prx!AckIsNewer /\ Rpc!PacketIsNewer]_MCVars
    BY AcksStep, PacketsStep
  <1> QED
    BY <1>1, <1>2, <1>3, PTL DEF MCSpec, ReceivedInOrder
=============================================================================
