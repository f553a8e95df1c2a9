----------------------------- MODULE YkbTransfer -----------------------------
(***************************************************************************)
(* One sender, one ykb_protocol receive context and a channel that loses,  *)
(* repeats, reorders and damages packets.  The context has one of the      *)
(* owners of the tree: SplitLink, with or without the out-of-order bitmap, *)
(* which resets the context on an error, and VendorHID, in order, which    *)
(* leaves it as it is.  Neither gives its transfers ids of their own: a    *)
(* slot of SplitLink sends all of them with its slot id, VendorHID all     *)
(* answers with 0.  A receiver knows a transfer by id and length alone.    *)
(***************************************************************************)
EXTENDS YkbProtocol

CONSTANTS
    Lengths,        \* the payload length of each transfer: [1 .. n -> Nat]
    Ids,            \* its transfer id, which other transfers may have too
    Capacity        \* bytes of the receive buffer

\* How a context is initialised, and whether an error resets it.
Owners ==
    {[outOfOrder |-> TRUE,  bitmap |-> 1, resetOnError |-> TRUE],
     [outOfOrder |-> FALSE, bitmap |-> 0, resetOnError |-> TRUE],
     [outOfOrder |-> FALSE, bitmap |-> 0, resetOnError |-> FALSE]}

VARIABLES
    owner,    \* who has the receiver's context
    transfer, \* the transfer the sender is at
    tx,       \* its context
    sent,     \* every packet handed to the channel so far
    rx,       \* the receiver's context
    result    \* what the last push returned

vars == <<owner, transfer, tx, sent, rx, result>>

Transfers == DOMAIN Lengths

\* Every byte of every transfer is different, so that a misplaced byte shows.
Payload(t) == [i \in 0 .. Lengths[t] - 1 |-> 100 * t + i]

Blank == [i \in 0 .. Capacity - 1 |-> 0]

Init ==
    /\ owner \in Owners
    /\ transfer = 1
    /\ tx = TxInit(Payload(1), Lengths[1], Ids[1])
    /\ sent = {}
    /\ rx = RxInit(Blank, Capacity, owner.outOfOrder, owner.bitmap)
    /\ result = "ACCEPTED"

BuildPacket ==
    /\ TxHasMore(tx)
    /\ sent' = sent \cup {TxPacket(tx)}
    /\ tx' = TxAfterPacket(tx)
    /\ UNCHANGED <<owner, transfer, rx, result>>

\* The sender may give up a transfer half-way (a send error does that).
NextTransfer ==
    /\ transfer + 1 \in Transfers
    /\ transfer' = transfer + 1
    /\ tx' = TxInit(Payload(transfer'), Lengths[transfer'], Ids[transfer'])
    /\ UNCHANGED <<owner, sent, rx, result>>

Receive(p) ==
    /\ ~rx.complete
    /\ LET push == RxPushPacket(rx, p)
       IN /\ result' = push.res
          /\ rx' = IF push.res \in RxErrors /\ owner.resetOnError
                   THEN RxReset(push.rx) ELSE push.rx
    /\ UNCHANGED <<owner, transfer, tx, sent>>

ReceiveIntact == \E p \in sent : Receive(p)

ReceiveDamaged == \E p \in sent : Receive([p EXCEPT !.intact = FALSE])

\* The owner has used the payload.
Consume ==
    /\ rx.complete
    /\ rx' = RxReset(rx)
    /\ UNCHANGED <<owner, transfer, tx, sent, result>>

Next == BuildPacket \/ NextTransfer \/ ReceiveIntact \/ ReceiveDamaged \/ Consume

Spec == Init /\ [][Next]_vars

-----------------------------------------------------------------------------
TypeOK ==
    /\ owner \in Owners
    /\ transfer \in Transfers
    /\ tx.next_packet_idx \in 0 .. tx.packet_count
    /\ tx.offset \in 0 .. tx.total_len
    /\ rx.received_bytes \in 0 .. Capacity
    /\ rx.received_count \in 0 .. rx.packet_count
    /\ rx.received \subseteq 0 .. rx.packet_count - 1
    /\ result \in RxResults

\* What packet k of a transfer of this length is to hold: packet by packet
\* MaxPayload bytes, and in the last one the rest.
Bytes(length, k) ==
    {i \in 0 .. length - 1 : k * MaxPayload <= i /\ i < (k + 1) * MaxPayload}

\* The transfers begun so far that the receiver cannot tell from its own.
Alike == {t \in 1 .. transfer : Ids[t] = rx.transfer_id /\ Lengths[t] = rx.total_len}

(* A transfer the receiver calls complete has all its packets, each at its *)
(* place with what the sender put there, whatever the channel did.  They   *)
(* come from transfers of one id and one length: where only one such       *)
(* transfer was begun it is that one, byte for byte, and otherwise each    *)
(* packet comes whole from one of them (ykb_protocol_rx_push_packet).      *)
CompleteIsSent ==
    rx.complete =>
        \A k \in 0 .. CalcPacketCount(rx.total_len) - 1 :
            \E t \in Alike :
                \A i \in Bytes(rx.total_len, k) : rx.buffer[i] = Payload(t)[i]

(* Nothing is ever written behind the end of the transfer in progress: the *)
(* part of the buffer the accepted header does not claim keeps its bytes.  *)
WritesInside ==
    \A i \in DOMAIN rx.buffer : i >= rx'.total_len => rx'.buffer[i] = rx.buffer[i]
WritesStayInside == [][WritesInside]_vars
=============================================================================
