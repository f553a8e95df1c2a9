----------------------------- MODULE YkbProtocol -----------------------------
(***************************************************************************)
(* The framing of include/lib/ykb_protocol.h: how a payload is cut into    *)
(* packets and how packets are put back together.  Every function of the   *)
(* header is an operator on the context record it takes; one that returns  *)
(* a code and changes the context returns both.                            *)
(*                                                                         *)
(* A payload is a function from byte offsets to bytes.  The CRC is the     *)
(* Boolean "intact" of a packet: damage is always noticed.  Of type_flags  *)
(* only the type matters to a receiver (no sender sets ACK_REQ).  Pointers *)
(* are never NULL: every caller passes the address of an object.           *)
(***************************************************************************)
EXTENDS Integers, FiniteSets

CONSTANT MaxPayload      \* YKB_PROTOCOL_MAX_PAYLOAD_SIZE

ASSUME MaxPayloadAssumption == MaxPayload \in Nat \ {0}

\* uint16_t: every length, count and index of the header has this width.
U16 == 65536

Types == {"DATA", "ACK", "ABORT", "RESERVED"}    \* the two type bits

\* The results below zero of ykb_protocol_rx_result_t.
RxErrors == {"BAD_VERSION", "BAD_TYPE", "BAD_PACKET_COUNT", "BAD_PACKET_INDEX",
             "BAD_TOTAL_LEN", "PACKET_CRC", "TRANSFER_MISMATCH",
             "BUFFER_TOO_SMALL", "OUT_OF_ORDER", "MISSING_BITMAP_REQUIRED"}

RxResults == RxErrors \cup {"ACCEPTED", "COMPLETE", "DUPLICATE"}

-----------------------------------------------------------------------------
(* Cutting a payload *)

CalcPacketCount(total) ==
    IF total = 0 THEN 1
    ELSE ((total + MaxPayload - 1) \div MaxPayload) % U16

PayloadLenForIndex(total, idx, count) ==
    IF count = 0 \/ idx >= count \/ total = 0 THEN 0
    ELSE IF count = 1 THEN total
    ELSE IF idx < count - 1 THEN MaxPayload
    ELSE (total - (((count - 1) * MaxPayload) % U16)) % U16

\* A faulty variant, for the mutation runs: every packet at the buffer's start.
OffsetForgotten(idx) == 0

PacketOffset(idx) == (idx * MaxPayload) % U16

TxInit(data, total, id) ==
    [data |-> data, total_len |-> total, offset |-> 0, transfer_id |-> id,
     packet_count |-> CalcPacketCount(total), next_packet_idx |-> 0]

TxHasMore(tx) == tx.next_packet_idx < tx.packet_count

(* The packet ykb_protocol_tx_build_packet writes, and the context after it *)
TxPacket(tx) ==
    LET idx == tx.next_packet_idx
        n   == PayloadLenForIndex(tx.total_len, idx, tx.packet_count)
    IN [version |-> TRUE, type |-> "DATA", transfer_id |-> tx.transfer_id,
        start |-> idx = 0, end |-> idx = tx.packet_count - 1,
        packet_idx |-> idx, packet_count |-> tx.packet_count,
        total_len |-> tx.total_len,
        payload |-> [i \in 0 .. n - 1 |-> tx.data[tx.offset + i]],
        intact |-> TRUE]

TxAfterPacket(tx) ==
    LET n == PayloadLenForIndex(tx.total_len, tx.next_packet_idx, tx.packet_count)
    IN [tx EXCEPT !.offset = (@ + n) % U16,
                  !.next_packet_idx = (@ + 1) % U16]

-----------------------------------------------------------------------------
(* Putting packets back together *)

HeaderValid(p) ==
    /\ p.version
    /\ p.type # "RESERVED"
    /\ p.packet_count # 0
    /\ p.packet_idx < p.packet_count
    /\ IF p.total_len = 0 THEN p.packet_count = 1 /\ p.packet_idx = 0
       ELSE CalcPacketCount(p.total_len) = p.packet_count

HeaderError(p) ==
    IF ~p.version THEN "BAD_VERSION"
    ELSE IF p.type = "RESERVED" THEN "BAD_TYPE"
    ELSE IF p.packet_count = 0 THEN "BAD_PACKET_COUNT"
    ELSE IF p.packet_idx >= p.packet_count THEN "BAD_PACKET_INDEX"
    ELSE "BAD_TOTAL_LEN"

RxReset(rx) ==
    [rx EXCEPT !.active = FALSE, !.complete = FALSE, !.transfer_id = 0,
               !.total_len = 0, !.received_bytes = 0, !.packet_count = 0,
               !.received_count = 0, !.next_expected = 0, !.received = {}]

\* bitmap is the size of received_bitmap in bytes, 0 where there is none.
RxInit(buffer, capacity, outOfOrder, bitmap) ==
    [buffer |-> buffer, capacity |-> capacity, out_of_order |-> outOfOrder,
     bitmap |-> bitmap, active |-> FALSE, complete |-> FALSE,
     transfer_id |-> 0, total_len |-> 0, received_bytes |-> 0,
     packet_count |-> 0, received_count |-> 0, next_expected |-> 0,
     received |-> {}]

\* What the first packet of a transfer is refused for.
BeginError(rx, p) ==
    IF p.total_len > rx.capacity THEN "BUFFER_TOO_SMALL"
    ELSE IF rx.out_of_order /\ rx.bitmap < (p.packet_count + 7) \div 8
         THEN "MISSING_BITMAP_REQUIRED"
    ELSE "none"

RxBeginTransfer(rx, p) ==
    [RxReset(rx) EXCEPT !.active = TRUE, !.transfer_id = p.transfer_id,
                        !.total_len = p.total_len,
                        !.packet_count = p.packet_count]

SameTransfer(rx, p) ==
    /\ rx.transfer_id = p.transfer_id
    /\ rx.total_len = p.total_len
    /\ rx.packet_count = p.packet_count

\* The checks that come before the context changes, in the code's order.
Refusal(rx, p) ==
    IF ~HeaderValid(p) THEN HeaderError(p)
    ELSE IF p.type # "DATA" THEN "BAD_TYPE"
    ELSE IF ~p.intact THEN "PACKET_CRC"
    ELSE IF ~rx.active THEN BeginError(rx, p)
    ELSE IF ~SameTransfer(rx, p) THEN "TRANSFER_MISMATCH"
    ELSE "none"

\* Copy the payload and count it.
RxStore(rx, p, n) ==
    LET offset == PacketOffset(p.packet_idx)
    IN [rx EXCEPT
          !.buffer = [i \in DOMAIN @ |->
                        IF i \in offset .. offset + n - 1
                        THEN p.payload[i - offset] ELSE @[i]],
          !.received_bytes = (@ + n) % U16,
          !.received_count = (@ + 1) % U16,
          !.received = IF rx.out_of_order THEN @ \cup {p.packet_idx} ELSE @,
          !.next_expected = IF rx.out_of_order THEN @ ELSE (@ + 1) % U16]

AlreadyReceived(rx, p) == rx.out_of_order /\ p.packet_idx \in rx.received

RxPushPacket(rx, p) ==
    LET r       == IF rx.active THEN rx ELSE RxBeginTransfer(rx, p)
        n       == PayloadLenForIndex(r.total_len, p.packet_idx, r.packet_count)
        stored  == RxStore(r, p, n)
    IN IF Refusal(rx, p) # "none" THEN [res |-> Refusal(rx, p), rx |-> rx]
       ELSE IF ~r.out_of_order /\ p.packet_idx # r.next_expected
            THEN [res |-> "OUT_OF_ORDER", rx |-> r]
       ELSE IF AlreadyReceived(r, p) THEN [res |-> "DUPLICATE", rx |-> r]
       ELSE IF PacketOffset(p.packet_idx) + n > r.capacity
            THEN [res |-> "BUFFER_TOO_SMALL", rx |-> r]
       ELSE IF stored.received_count # stored.packet_count
            THEN [res |-> "ACCEPTED", rx |-> stored]
       ELSE IF stored.received_bytes # stored.total_len
            THEN [res |-> "BAD_TOTAL_LEN", rx |-> stored]
       ELSE [res |-> "COMPLETE", rx |-> [stored EXCEPT !.complete = TRUE]]

\* The indices a receiver would ask for again.
RxMissing(rx) ==
    IF rx.out_of_order THEN (0 .. rx.packet_count - 1) \ rx.received ELSE {}
=============================================================================
