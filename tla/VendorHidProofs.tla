---------------------------- MODULE VendorHidProofs ----------------------------
(***************************************************************************)
(* Framing, answers and settings of VendorHID, for every size of packet,   *)
(* buffer and settings.                                                    *)
(*                                                                         *)
(* A receive context carries a payload: the packets it has stored hold its *)
(* bytes, and their number and sizes are what it has counted.  Each packet *)
(* of the payload keeps that, whatever came before, so a context whose     *)
(* packets are all there holds all of it.  From this follow the settings   *)
(* of the patient configurator, and the framing over a bad channel: there  *)
(* the payload is put together, packet by packet, from transfers that the  *)
(* receiver cannot tell from one another.                                  *)
(*                                                                         *)
(* Answers and requests stay, for any number of transports and             *)
(* configurators, because of how a context is busy: from the moment its    *)
(* work is queued until the work ends, and one work runs at a time.        *)
(***************************************************************************)
EXTENDS VendorHidMC, YkbProtocolProofs

-----------------------------------------------------------------------------
(* The framing over the bad channel is that of the configurators.            *)
LEMMA SameProtocol ==
    /\ Channel!RxErrors = RxErrors
    /\ \A d, l, id : Channel!TxInit(d, l, id) = TxInit(d, l, id)
    /\ \A t : /\ Channel!TxHasMore(t) <=> TxHasMore(t)
              /\ Channel!TxPacket(t) = TxPacket(t)
              /\ Channel!TxAfterPacket(t) = TxAfterPacket(t)
    /\ \A b, c, o, m : Channel!RxInit(b, c, o, m) = RxInit(b, c, o, m)
    /\ \A r : Channel!RxReset(r) = RxReset(r)
    /\ \A r, p : Channel!RxPushPacket(r, p) = RxPushPacket(r, p)
<1>1. Channel!U16 = U16 /\ Channel!RxErrors = RxErrors
  BY DEF U16, Channel!U16, RxErrors, Channel!RxErrors
<1>2. \A l : Channel!CalcPacketCount(l) = CalcPacketCount(l)
  BY <1>1 DEF CalcPacketCount, Channel!CalcPacketCount
<1>3. \A l, i, c : Channel!PayloadLenForIndex(l, i, c) = PayloadLenForIndex(l, i, c)
  BY <1>1 DEF PayloadLenForIndex, Channel!PayloadLenForIndex
<1>4. \A i : Channel!PacketOffset(i) = PacketOffset(i)
  BY <1>1 DEF PacketOffset, Channel!PacketOffset
<1>5. \A d, l, id : Channel!TxInit(d, l, id) = TxInit(d, l, id)
  BY <1>2 DEF TxInit, Channel!TxInit
<1>6. \A t : /\ Channel!TxHasMore(t) <=> TxHasMore(t)
             /\ Channel!TxPacket(t) = TxPacket(t)
             /\ Channel!TxAfterPacket(t) = TxAfterPacket(t)
  BY <1>1, <1>3 DEF TxHasMore, Channel!TxHasMore, TxPacket, Channel!TxPacket,
                    TxAfterPacket, Channel!TxAfterPacket
<1>7. /\ \A b, c, o, m : Channel!RxInit(b, c, o, m) = RxInit(b, c, o, m)
      /\ \A r : Channel!RxReset(r) = RxReset(r)
  BY DEF RxInit, Channel!RxInit, RxReset, Channel!RxReset
<1>8. \A r, p : Channel!RxBeginTransfer(r, p) = RxBeginTransfer(r, p)
  BY <1>7 DEF RxBeginTransfer, Channel!RxBeginTransfer
<1>9. \A r, p : Channel!Refusal(r, p) = Refusal(r, p)
  <2>1. \A p : (Channel!HeaderValid(p) <=> HeaderValid(p)) /\ Channel!HeaderError(p) = HeaderError(p)
    BY <1>2 DEF HeaderValid, Channel!HeaderValid, HeaderError, Channel!HeaderError
  <2>2. \A r, p : /\ Channel!BeginError(r, p) = BeginError(r, p)
                  /\ Channel!SameTransfer(r, p) <=> SameTransfer(r, p)
    BY DEF BeginError, Channel!BeginError, SameTransfer, Channel!SameTransfer
  <2> QED
    BY <2>1, <2>2 DEF Refusal, Channel!Refusal
<1>10. \A r, p, n : Channel!RxStore(r, p, n) = RxStore(r, p, n)
  <2> SUFFICES ASSUME NEW r, NEW p, NEW n
               PROVE  Channel!RxStore(r, p, n) = RxStore(r, p, n)
    OBVIOUS
  <2> DEFINE at == PacketOffset(p.packet_idx)
             buffer == [i \in DOMAIN r.buffer |->
                          IF i \in at .. at + n - 1 THEN p.payload[i - at] ELSE r.buffer[i]]
             bytes == (r.received_bytes + n) % U16
             count == (r.received_count + 1) % U16
             got == IF r.out_of_order THEN r.received \cup {p.packet_idx} ELSE r.received
             next == IF r.out_of_order THEN r.next_expected ELSE (r.next_expected + 1) % U16
             stored == [r EXCEPT !.buffer = buffer, !.received_bytes = bytes,
                                 !.received_count = count, !.received = got,
                                 !.next_expected = next]
  <2>1. RxStore(r, p, n) = stored
    BY DEF RxStore
  <2>2. Channel!PacketOffset(p.packet_idx) = at /\ Channel!U16 = U16
    BY <1>1, <1>4
  <2>3. Channel!RxStore(r, p, n) = stored
    BY <2>2 DEF Channel!RxStore
  <2> QED
    BY <2>1, <2>3
<1>11. \A r, p : Channel!AlreadyReceived(r, p) <=> AlreadyReceived(r, p)
  BY DEF AlreadyReceived, Channel!AlreadyReceived
<1>12. \A r, p : Channel!RxPushPacket(r, p) = RxPushPacket(r, p)
  <2> SUFFICES ASSUME NEW r, NEW p
               PROVE  Channel!RxPushPacket(r, p) = RxPushPacket(r, p)
    OBVIOUS
  <2> DEFINE b == IF r.active THEN r ELSE RxBeginTransfer(r, p)
             n == PayloadLenForIndex(b.total_len, p.packet_idx, b.packet_count)
             s == RxStore(b, p, n)
             f == [s EXCEPT !.complete = TRUE]
             push == IF Refusal(r, p) # "none" THEN [res |-> Refusal(r, p), rx |-> r]
                     ELSE IF ~b.out_of_order /\ p.packet_idx # b.next_expected
                          THEN [res |-> "OUT_OF_ORDER", rx |-> b]
                     ELSE IF AlreadyReceived(b, p) THEN [res |-> "DUPLICATE", rx |-> b]
                     ELSE IF PacketOffset(p.packet_idx) + n > b.capacity
                          THEN [res |-> "BUFFER_TOO_SMALL", rx |-> b]
                     ELSE IF s.received_count # s.packet_count
                          THEN [res |-> "ACCEPTED", rx |-> s]
                     ELSE IF s.received_bytes # s.total_len
                          THEN [res |-> "BAD_TOTAL_LEN", rx |-> s]
                     ELSE [res |-> "COMPLETE", rx |-> f]
  <2>1. RxPushPacket(r, p) = push
    BY DEF RxPushPacket
  <2>2. /\ Channel!RxBeginTransfer(r, p) = RxBeginTransfer(r, p)
        /\ Channel!PayloadLenForIndex(b.total_len, p.packet_idx, b.packet_count) = n
        /\ Channel!RxStore(b, p, n) = s /\ Channel!Refusal(r, p) = Refusal(r, p)
        /\ Channel!PacketOffset(p.packet_idx) = PacketOffset(p.packet_idx)
        /\ Channel!AlreadyReceived(b, p) <=> AlreadyReceived(b, p)
    BY <1>3, <1>4, <1>8, <1>9, <1>10, <1>11
  <2>3. Channel!RxPushPacket(r, p) = push
    BY <2>2 DEF Channel!RxPushPacket
  <2> QED
    BY <2>1, <2>3
<1> QED
  BY <1>1, <1>5, <1>6, <1>7, <1>12

(* The framing of the patient configurator is the same.                      *)
LEMMA SamePatientProtocol ==
    /\ Patient!RxErrors = RxErrors
    /\ \A d, l, id : Patient!TxInit(d, l, id) = TxInit(d, l, id)
    /\ \A t : /\ Patient!TxHasMore(t) <=> TxHasMore(t)
              /\ Patient!TxPacket(t) = TxPacket(t)
              /\ Patient!TxAfterPacket(t) = TxAfterPacket(t)
    /\ \A b, c, o, m : Patient!RxInit(b, c, o, m) = RxInit(b, c, o, m)
    /\ \A r : Patient!RxReset(r) = RxReset(r)
    /\ \A r, p : Patient!RxPushPacket(r, p) = RxPushPacket(r, p)
<1>1. Patient!U16 = U16 /\ Patient!RxErrors = RxErrors
  BY DEF U16, Patient!U16, RxErrors, Patient!RxErrors
<1>2. \A l : Patient!CalcPacketCount(l) = CalcPacketCount(l)
  BY <1>1 DEF CalcPacketCount, Patient!CalcPacketCount
<1>3. \A l, i, c : Patient!PayloadLenForIndex(l, i, c) = PayloadLenForIndex(l, i, c)
  BY <1>1 DEF PayloadLenForIndex, Patient!PayloadLenForIndex
<1>4. \A i : Patient!PacketOffset(i) = PacketOffset(i)
  BY <1>1 DEF PacketOffset, Patient!PacketOffset
<1>5. \A d, l, id : Patient!TxInit(d, l, id) = TxInit(d, l, id)
  BY <1>2 DEF TxInit, Patient!TxInit
<1>6. \A t : /\ Patient!TxHasMore(t) <=> TxHasMore(t)
             /\ Patient!TxPacket(t) = TxPacket(t)
             /\ Patient!TxAfterPacket(t) = TxAfterPacket(t)
  BY <1>1, <1>3 DEF TxHasMore, Patient!TxHasMore, TxPacket, Patient!TxPacket,
                    TxAfterPacket, Patient!TxAfterPacket
<1>7. /\ \A b, c, o, m : Patient!RxInit(b, c, o, m) = RxInit(b, c, o, m)
      /\ \A r : Patient!RxReset(r) = RxReset(r)
  BY DEF RxInit, Patient!RxInit, RxReset, Patient!RxReset
<1>8. \A r, p : Patient!RxBeginTransfer(r, p) = RxBeginTransfer(r, p)
  BY <1>7 DEF RxBeginTransfer, Patient!RxBeginTransfer
<1>9. \A r, p : Patient!Refusal(r, p) = Refusal(r, p)
  <2>1. \A p : (Patient!HeaderValid(p) <=> HeaderValid(p)) /\ Patient!HeaderError(p) = HeaderError(p)
    BY <1>2 DEF HeaderValid, Patient!HeaderValid, HeaderError, Patient!HeaderError
  <2>2. \A r, p : /\ Patient!BeginError(r, p) = BeginError(r, p)
                  /\ Patient!SameTransfer(r, p) <=> SameTransfer(r, p)
    BY DEF BeginError, Patient!BeginError, SameTransfer, Patient!SameTransfer
  <2> QED
    BY <2>1, <2>2 DEF Refusal, Patient!Refusal
<1>10. \A r, p, n : Patient!RxStore(r, p, n) = RxStore(r, p, n)
  <2> SUFFICES ASSUME NEW r, NEW p, NEW n
               PROVE  Patient!RxStore(r, p, n) = RxStore(r, p, n)
    OBVIOUS
  <2> DEFINE at == PacketOffset(p.packet_idx)
             buffer == [i \in DOMAIN r.buffer |->
                          IF i \in at .. at + n - 1 THEN p.payload[i - at] ELSE r.buffer[i]]
             bytes == (r.received_bytes + n) % U16
             count == (r.received_count + 1) % U16
             got == IF r.out_of_order THEN r.received \cup {p.packet_idx} ELSE r.received
             next == IF r.out_of_order THEN r.next_expected ELSE (r.next_expected + 1) % U16
             stored == [r EXCEPT !.buffer = buffer, !.received_bytes = bytes,
                                 !.received_count = count, !.received = got,
                                 !.next_expected = next]
  <2>1. RxStore(r, p, n) = stored
    BY DEF RxStore
  <2>2. Patient!PacketOffset(p.packet_idx) = at /\ Patient!U16 = U16
    BY <1>1, <1>4
  <2>3. Patient!RxStore(r, p, n) = stored
    BY <2>2 DEF Patient!RxStore
  <2> QED
    BY <2>1, <2>3
<1>11. \A r, p : Patient!AlreadyReceived(r, p) <=> AlreadyReceived(r, p)
  BY DEF AlreadyReceived, Patient!AlreadyReceived
<1>12. \A r, p : Patient!RxPushPacket(r, p) = RxPushPacket(r, p)
  <2> SUFFICES ASSUME NEW r, NEW p
               PROVE  Patient!RxPushPacket(r, p) = RxPushPacket(r, p)
    OBVIOUS
  <2> DEFINE b == IF r.active THEN r ELSE RxBeginTransfer(r, p)
             n == PayloadLenForIndex(b.total_len, p.packet_idx, b.packet_count)
             s == RxStore(b, p, n)
             f == [s EXCEPT !.complete = TRUE]
             push == IF Refusal(r, p) # "none" THEN [res |-> Refusal(r, p), rx |-> r]
                     ELSE IF ~b.out_of_order /\ p.packet_idx # b.next_expected
                          THEN [res |-> "OUT_OF_ORDER", rx |-> b]
                     ELSE IF AlreadyReceived(b, p) THEN [res |-> "DUPLICATE", rx |-> b]
                     ELSE IF PacketOffset(p.packet_idx) + n > b.capacity
                          THEN [res |-> "BUFFER_TOO_SMALL", rx |-> b]
                     ELSE IF s.received_count # s.packet_count
                          THEN [res |-> "ACCEPTED", rx |-> s]
                     ELSE IF s.received_bytes # s.total_len
                          THEN [res |-> "BAD_TOTAL_LEN", rx |-> s]
                     ELSE [res |-> "COMPLETE", rx |-> f]
  <2>1. RxPushPacket(r, p) = push
    BY DEF RxPushPacket
  <2>2. /\ Patient!RxBeginTransfer(r, p) = RxBeginTransfer(r, p)
        /\ Patient!PayloadLenForIndex(b.total_len, p.packet_idx, b.packet_count) = n
        /\ Patient!RxStore(b, p, n) = s /\ Patient!Refusal(r, p) = Refusal(r, p)
        /\ Patient!PacketOffset(p.packet_idx) = PacketOffset(p.packet_idx)
        /\ Patient!AlreadyReceived(b, p) <=> AlreadyReceived(b, p)
    BY <1>3, <1>4, <1>8, <1>9, <1>10, <1>11
  <2>3. Patient!RxPushPacket(r, p) = push
    BY <2>2 DEF Patient!RxPushPacket
  <2> QED
    BY <2>1, <2>3
<1> QED
  BY <1>1, <1>5, <1>6, <1>7, <1>12

(* And so is the count of its packets.                                       *)
LEMMA SameCount == \A l : Channel!CalcPacketCount(l) = CalcPacketCount(l)
<1>1. Channel!U16 = U16
  BY DEF U16, Channel!U16
<1> QED
  BY <1>1 DEF CalcPacketCount, Channel!CalcPacketCount

(* A packet holds the bytes it is to hold.                                   *)
LEMMA SameBytes ==
    ASSUME NEW L \in 0 .. U16 - 1, NEW k \in 0 .. CalcPacketCount(L) - 1
    PROVE  Channel!Bytes(L, k) = Chunk(L, k)
<1> DEFINE c == CalcPacketCount(L)
<1>1. /\ Chunk(L, k) = Times(k) .. Times(k) + Length(L, k) - 1
      /\ Times(k) \in Nat /\ Length(L, k) \in Nat /\ Times(k) + Length(L, k) <= L
      /\ Length(L, k) = IF k = c - 1 THEN L - Times(k) ELSE MaxPayload
  BY ChunkFacts DEF Chunk
<1>2. c \in Nat /\ L <= Times(c) /\ L \in Nat
  BY CountFacts
<1> HIDE DEF c
<1>3. k \in Int /\ k \in 0 .. c - 1
  BY <1>2 DEF c
<1>4. Times(k + 1) = Times(k) + MaxPayload /\ Times(k + 1) \in Int
  BY <1>3, TimesNext
<1>5. /\ Times(k) + Length(L, k) <= Times(k + 1)
      /\ Times(k) + Length(L, k) \in {Times(k + 1), L}
  <2>1. CASE k = c - 1
    <3>1. k + 1 = c
      BY <1>2, <1>3, <2>1
    <3> QED
      BY <1>1, <1>2, <1>4, <2>1, <3>1
  <2>2. CASE k # c - 1
    BY <1>1, <1>4, <2>2
  <2> QED
    BY <2>1, <2>2
<1>6. Channel!Bytes(L, k) = {i \in 0 .. L - 1 : Times(k) <= i /\ i < Times(k + 1)}
  BY DEF Channel!Bytes, Times
<1> QED
  BY <1>1, <1>2, <1>4, <1>5, <1>6

-----------------------------------------------------------------------------
(* The transfers begun so far that have this id and length. *)
AlikeTo(id, L) == {t \in 1 .. transfer : Ids[t] = id /\ Lengths[t] = L}

(* A payload of which each packet is one of such a transfer. *)
Pieced(d, id, L) ==
    \A k \in 0 .. CalcPacketCount(L) - 1 :
        \E t \in AlikeTo(id, L) : \A i \in Chunk(L, k) : d[i] = Channel!Payload(t)[i]

SentInv(p) ==
    \E t \in 1 .. transfer :
        /\ p.transfer_id = Ids[t] /\ DOMAIN p = PacketFields
        /\ PartOf(p, Lengths[t], Channel!Payload(t))

ReceiverInv(r) ==
    /\ RxContext(r)
    /\ r.active => \E d : /\ Pieced(d, r.transfer_id, r.total_len)
                          /\ Carries(r, r.total_len, d)
    /\ r.complete => Pieced(r.buffer, r.transfer_id, r.total_len)

ChannelInv ==
    /\ transfer \in Nat /\ 1 .. transfer \subseteq DOMAIN Lengths /\ 1 <= transfer
    /\ tx.transfer_id = Ids[transfer]
    /\ Sends(tx, Lengths[transfer], Channel!Payload(transfer))
    /\ \A p \in packets : SentInv(p)
    /\ ReceiverInv(ctx)

(* At first nothing is on the channel.                                       *)
LEMMA ChannelInit == Channel!Init => ChannelInv
<1> SUFFICES ASSUME Channel!Init PROVE ChannelInv
  OBVIOUS
<1>1. transfer = 1 /\ tx = TxInit(Channel!Payload(1), Lengths[1], Ids[1]) /\ packets = {}
  BY SameProtocol DEF Channel!Init
<1>2. /\ tx.transfer_id = Ids[1] /\ 1 \in DOMAIN Lengths
      /\ Sends(tx, Lengths[1], Channel!Payload(1))
  BY <1>1, ChannelAssumption, SendingStarts
<1>3. ctx = RxInit(Channel!Blank, Capacity, owner.outOfOrder, owner.bitmap)
  BY SameProtocol DEF Channel!Init
<1>4. DOMAIN Channel!Blank = 0 .. Capacity - 1
  BY DEF Channel!Blank
<1>5. RxContext(ctx) /\ ~ctx.active /\ ~ctx.complete
  BY <1>3, <1>4, ChannelAssumption DEF RxInit, RxContext, RxFields
<1> QED
  BY <1>1, <1>2, <1>5 DEF ChannelInv, ReceiverInv

(* What becomes of a payload when packet k of transfer t is put in its place. *)
With(d, L, k, t) ==
    [i \in 0 .. L - 1 |-> IF i \in Chunk(L, k) THEN Channel!Payload(t)[i] ELSE d[i]]

(* It is still made of the same transfers, and carried by a context that has *)
(* no packet there yet.                                                      *)
LEMMA WithPacket ==
    ASSUME NEW L \in 0 .. U16 - 1, NEW k \in 0 .. CalcPacketCount(L) - 1, NEW id,
           NEW t \in AlikeTo(id, L), NEW d, Pieced(d, id, L)
    PROVE  /\ Pieced(With(d, L, k, t), id, L)
           /\ \A i \in Chunk(L, k) : With(d, L, k, t)[i] = Channel!Payload(t)[i]
           /\ \A r : Carries(r, L, d) /\ k \notin Stored(r) => Carries(r, L, With(d, L, k, t))
<1> DEFINE c == CalcPacketCount(L)
           e == With(d, L, k, t)
<1>1. \A m \in 0 .. c - 1 : Chunk(L, m) \subseteq 0 .. L - 1
  <2> SUFFICES ASSUME NEW m \in 0 .. c - 1 PROVE Chunk(L, m) \subseteq 0 .. L - 1
    OBVIOUS
  <2>1. /\ PacketOffset(m) = Times(m) /\ Times(m) \in Nat
        /\ Length(L, m) \in Nat /\ Times(m) + Length(L, m) <= L
    BY ChunkFacts
  <2>2. L \in Nat
    BY CountFacts
  <2> HIDE DEF c
  <2> QED
    BY <2>1, <2>2 DEF Chunk
<1>2. \A i \in Chunk(L, k) : e[i] = Channel!Payload(t)[i]
  BY <1>1 DEF With
<1>3. \A m \in 0 .. c - 1 : m # k => \A i \in Chunk(L, m) : e[i] = d[i]
  BY <1>1, ChunksApart DEF With
<1> HIDE DEF c, e
<1>4. Pieced(e, id, L)
  <2> SUFFICES ASSUME NEW m \in 0 .. c - 1
               PROVE  \E u \in AlikeTo(id, L) : \A i \in Chunk(L, m) : e[i] = Channel!Payload(u)[i]
    BY DEF Pieced, c
  <2>1. CASE m = k
    BY <1>2, <2>1
  <2>2. CASE m # k
    BY <1>3, <2>2 DEF Pieced, c
  <2> QED
    BY <2>1, <2>2
<1>5. ASSUME NEW r, Carries(r, L, d), k \notin Stored(r)
      PROVE  Carries(r, L, e)
  <2>1. \A m \in Stored(r) : m \in 0 .. c - 1 /\ m # k
    BY <1>5 DEF Carries, c
  <2>2. \A m \in Stored(r) : \A i \in Chunk(L, m) : e[i] = d[i]
    BY <1>3, <2>1
  <2> QED
    BY <1>5, <2>2 DEF Carries
<1> QED
  BY <1>2, <1>4, <1>5 DEF e

(* A packet the channel delivers, damaged or not.                            *)
LEMMA ReceiveKeeps ==
    ASSUME transfer \in Nat, 1 .. transfer \subseteq DOMAIN Lengths,
           ReceiverInv(ctx), NEW p, SentInv(p), Channel!Receive(p)
    PROVE  ReceiverInv(ctx') /\ Channel!WritesInside
<1> DEFINE push == RxPushPacket(ctx, p)
<1>1. /\ ~ctx.complete
      /\ ctx' = IF push.res \in RxErrors /\ owner.resetOnError THEN RxReset(push.rx) ELSE push.rx
  BY SameProtocol DEF Channel!Receive
<1>2. PICK t \in 1 .. transfer : /\ p.transfer_id = Ids[t] /\ DOMAIN p = PacketFields
                                 /\ PartOf(p, Lengths[t], Channel!Payload(t))
  BY DEF SentInv
<1> DEFINE L == Lengths[t]
           id == Ids[t]
           k == p.packet_idx
<1>3. /\ L \in 0 .. U16 - 1 /\ t \in AlikeTo(id, L)
      /\ k \in 0 .. CalcPacketCount(L) - 1
      /\ p.total_len = L /\ p.packet_count = CalcPacketCount(L)
  BY <1>2, ChannelAssumption DEF AlikeTo, PartOf
<1>4. \/ push.rx = ctx /\ push.res # "COMPLETE"
      \/ \E d : Pieced(d, id, L) /\ PushEffect(push, ctx, id, L, d)
  <2>1. CASE ~ctx.active
    <3>1. PushEffect(push, ctx, id, L, Channel!Payload(t))
      BY <1>1, <1>2, <1>3, <2>1, PushCarries DEF ReceiverInv
    <3>2. Pieced(Channel!Payload(t), id, L)
      BY <1>3 DEF Pieced
    <3> QED
      BY <3>1, <3>2
  <2>2. CASE ctx.active /\ ~SameTransfer(ctx, p)
    BY <2>2, PushRefused
  <2>3. CASE ctx.active /\ SameTransfer(ctx, p)
    <3>1. ctx.transfer_id = id /\ ctx.total_len = L
      BY <1>2, <1>3, <2>3 DEF SameTransfer
    <3>2. PICK d : Pieced(d, id, L) /\ Carries(ctx, L, d)
      BY <2>3, <3>1 DEF ReceiverInv
    <3>3. CASE k \in Stored(ctx)
      BY <2>3, <3>2, <3>3, PushRefused DEF Carries
    <3>4. CASE k \notin Stored(ctx)
      <4> DEFINE e == With(d, L, k, t)
      <4>1. /\ Pieced(e, id, L) /\ Carries(ctx, L, e)
            /\ \A i \in Chunk(L, k) : e[i] = Channel!Payload(t)[i]
        BY <1>3, <3>2, <3>4, WithPacket
      <4> HIDE DEF e
      <4>2. PartOf(p, L, e)
        <5>1. \A j \in 0 .. Length(L, k) - 1 : PacketOffset(k) + j \in Chunk(L, k)
          <6>1. PacketOffset(k) \in Nat /\ Length(L, k) \in Nat
            BY <1>3, ChunkFacts
          <6> HIDE DEF L, k
          <6> QED
            BY <6>1 DEF Chunk
        <5> QED
          BY <1>2, <4>1, <5>1 DEF PartOf
      <4>3. RxContext(ctx)
        BY DEF ReceiverInv
      <4>4. PushEffect(push, ctx, p.transfer_id, L, e)
        <5> HIDE DEF L
        <5> QED
          BY <1>1, <1>3, <4>1, <4>2, <4>3, PushCarries
      <4> QED
        BY <1>2, <4>1, <4>4
    <3> QED
      BY <3>3, <3>4
  <2> QED
    BY <2>1, <2>2, <2>3
<1> HIDE DEF push, L, id, k
<1>5. RxContext(ctx) /\ RxContext(push.rx)
  BY <1>4 DEF PushEffect, ReceiverInv
<1>6. /\ RxContext(RxReset(push.rx)) /\ ~RxReset(push.rx).active /\ ~RxReset(push.rx).complete
      /\ RxReset(push.rx).buffer = push.rx.buffer
  BY <1>5, ResetContext
<1>7. CASE push.rx = ctx /\ push.res # "COMPLETE"
  <2>1. ReceiverInv(ctx')
    BY <1>1, <1>6, <1>7 DEF ReceiverInv
  <2> QED
    BY <1>1, <1>6, <1>7, <2>1 DEF Channel!WritesInside
<1>8. CASE /\ ~(push.rx = ctx /\ push.res # "COMPLETE")
          /\ \E d : Pieced(d, id, L) /\ PushEffect(push, ctx, id, L, d)
  <2>1. PICK d : Pieced(d, id, L) /\ PushEffect(push, ctx, id, L, d)
    BY <1>8
  <2>2. /\ push.rx.active /\ push.rx.transfer_id = id /\ push.rx.total_len = L
        /\ Carries(push.rx, L, d)
        /\ push.rx.complete => \A i \in 0 .. L - 1 : push.rx.buffer[i] = d[i]
        /\ push.res \in RxErrors => push.rx.buffer = ctx.buffer
        /\ \A i \in DOMAIN ctx.buffer : i >= L => push.rx.buffer[i] = ctx.buffer[i]
    BY <1>8, <2>1 DEF PushEffect, Carries
  <2>3. push.rx.complete => Pieced(push.rx.buffer, id, L)
    <3> SUFFICES ASSUME push.rx.complete, NEW m \in 0 .. CalcPacketCount(L) - 1
                 PROVE  \A i \in Chunk(L, m) : push.rx.buffer[i] = d[i]
      BY <2>1 DEF Pieced
    <3>1. /\ PacketOffset(m) = Times(m) /\ Times(m) \in Nat
          /\ Length(L, m) \in Nat /\ Times(m) + Length(L, m) <= L /\ L \in Nat
      BY <1>3, ChunkFacts, CountFacts
    <3>2. Chunk(L, m) \subseteq 0 .. L - 1
      BY <3>1 DEF Chunk
    <3> QED
      BY <2>2, <3>2
  <2>4. ReceiverInv(push.rx)
    BY <1>5, <2>1, <2>2, <2>3 DEF ReceiverInv
  <2>5. ReceiverInv(ctx')
    BY <1>1, <1>6, <2>4 DEF ReceiverInv
  <2>6. ASSUME NEW i \in DOMAIN ctx.buffer, i >= ctx'.total_len
        PROVE  ctx'.buffer[i] = ctx.buffer[i]
    <3>1. CASE push.res \in RxErrors
      BY <1>1, <1>6, <2>2, <3>1
    <3>2. CASE push.res \notin RxErrors
      BY <1>1, <2>2, <2>6, <3>2
    <3> QED
      BY <3>1, <3>2
  <2> QED
    BY <2>5, <2>6 DEF Channel!WritesInside
<1> QED
  BY <1>4, <1>7, <1>8

(* Every step of sender, channel and receiver keeps this.                    *)
LEMMA ChannelStep ==
    ASSUME ChannelInv, Channel!Next
    PROVE  ChannelInv' /\ Channel!WritesInside
<1>0. ASSUME transfer' = transfer \/ transfer' = transfer + 1
      PROVE  /\ \A p : SentInv(p) => SentInv(p)'
             /\ UNCHANGED ctx => ReceiverInv(ctx)'
  <2>1. transfer \in Nat
    BY DEF ChannelInv
  <2>2. \A id, l : AlikeTo(id, l) \subseteq AlikeTo(id, l)'
    BY <1>0, <2>1 DEF AlikeTo
  <2>3. ASSUME NEW p, SentInv(p) PROVE SentInv(p)'
    <3>1. PICK t \in 1 .. transfer : /\ p.transfer_id = Ids[t] /\ DOMAIN p = PacketFields
                                     /\ PartOf(p, Lengths[t], Channel!Payload(t))
      BY <2>3 DEF SentInv
    <3>2. t \in 1 .. transfer'
      BY <1>0, <2>1
    <3> QED
      BY <3>1, <3>2 DEF SentInv, Channel!Payload
  <2>4. \A d, id, l : Pieced(d, id, l) => Pieced(d, id, l)'
    BY <2>2 DEF Pieced, Channel!Payload
  <2>5. UNCHANGED ctx => ReceiverInv(ctx)'
    BY <2>4 DEF ChannelInv, ReceiverInv
  <2> QED
    BY <2>3, <2>5
<1>1. CASE Channel!BuildPacket
  <2>1. /\ TxHasMore(tx) /\ packets' = packets \cup {TxPacket(tx)} /\ tx' = TxAfterPacket(tx)
        /\ ctx' = ctx /\ transfer' = transfer
    BY <1>1, SameProtocol DEF Channel!BuildPacket
  <2>2. transfer \in 1 .. transfer /\ Lengths[transfer] \in 0 .. U16 - 1
    BY ChannelAssumption DEF ChannelInv
  <2>3. /\ PartOf(TxPacket(tx), Lengths[transfer], Channel!Payload(transfer))
        /\ DOMAIN TxPacket(tx) = PacketFields /\ TxPacket(tx).transfer_id = Ids[transfer]
        /\ TxAfterPacket(tx).transfer_id = Ids[transfer]
        /\ Sends(TxAfterPacket(tx), Lengths[transfer], Channel!Payload(transfer))
    BY <2>1, <2>2, SendingGoesOn DEF ChannelInv
  <2>4. SentInv(TxPacket(tx))
    BY <2>2, <2>3 DEF SentInv
  <2>5. ChannelInv'
    BY <1>0, <2>1, <2>3, <2>4 DEF ChannelInv, Channel!Payload
  <2> QED
    BY <2>1, <2>5 DEF Channel!WritesInside
<1>2. CASE Channel!NextTransfer
  <2> DEFINE t == transfer + 1
  <2>1. /\ t \in DOMAIN Lengths /\ tx' = TxInit(Channel!Payload(t), Lengths[t], Ids[t])
        /\ transfer' = t /\ UNCHANGED <<packets, ctx>>
    BY <1>2, SameProtocol DEF Channel!NextTransfer, Channel!Transfers
  <2>2. Sends(tx', Lengths[t], Channel!Payload(t)) /\ tx'.transfer_id = Ids[t]
    <3> HIDE DEF t
    <3> QED
      BY <2>1, ChannelAssumption, SendingStarts
  <2>3. t \in Nat /\ 1 <= t /\ 1 .. t \subseteq DOMAIN Lengths
    BY <2>1 DEF ChannelInv
  <2>4. ReceiverInv(ctx)' /\ \A p \in packets' : SentInv(p)'
    BY <1>0, <2>1 DEF ChannelInv
  <2>5. ChannelInv'
    <3> HIDE DEF t
    <3> QED
      BY <2>1, <2>2, <2>3, <2>4 DEF ChannelInv, Channel!Payload
  <2> QED
    BY <2>1, <2>5 DEF Channel!WritesInside
<1>3. CASE Channel!ReceiveIntact \/ Channel!ReceiveDamaged
  <2>1. PICK p \in packets : Channel!Receive(p) \/ Channel!Receive([p EXCEPT !.intact = FALSE])
    BY <1>3 DEF Channel!ReceiveIntact, Channel!ReceiveDamaged
  <2>2. SentInv(p) /\ SentInv([p EXCEPT !.intact = FALSE])
    <3> DEFINE q == [p EXCEPT !.intact = FALSE]
    <3>1. SentInv(p)
      BY DEF ChannelInv
    <3>2. /\ DOMAIN q = PacketFields /\ q.transfer_id = p.transfer_id
          /\ q.total_len = p.total_len /\ q.packet_count = p.packet_count
          /\ q.packet_idx = p.packet_idx /\ q.payload = p.payload
      BY <3>1 DEF SentInv, PacketFields
    <3> HIDE DEF q
    <3>3. SentInv(q)
      BY <3>1, <3>2 DEF SentInv, PartOf
    <3> QED
      BY <3>1, <3>3 DEF q
  <2>3. ReceiverInv(ctx') /\ Channel!WritesInside /\ UNCHANGED <<transfer, tx, packets>>
    BY <2>1, <2>2, ReceiveKeeps DEF ChannelInv, Channel!Receive
  <2>4. ReceiverInv(ctx)' /\ \A p1 \in packets' : SentInv(p1)'
    BY <1>0, <2>3 DEF ChannelInv, ReceiverInv, Pieced, AlikeTo, Channel!Payload
  <2> QED
    BY <2>3, <2>4 DEF ChannelInv, Channel!Payload
<1>4. CASE Channel!Consume
  <2>1. ctx' = RxReset(ctx) /\ UNCHANGED <<transfer, tx, packets>>
    BY <1>4, SameProtocol DEF Channel!Consume
  <2>2. /\ RxContext(ctx') /\ ~ctx'.active /\ ~ctx'.complete /\ ctx'.buffer = ctx.buffer
    BY <2>1, ResetContext DEF ChannelInv, ReceiverInv
  <2>3. ReceiverInv(ctx)' /\ \A p \in packets' : SentInv(p)'
    BY <1>0, <2>1, <2>2 DEF ChannelInv, ReceiverInv
  <2> QED
    BY <2>1, <2>2, <2>3 DEF ChannelInv, Channel!Payload, Channel!WritesInside
<1> QED
  BY <1>1, <1>2, <1>3, <1>4 DEF Channel!Next

(* Whatever the channel loses, repeats, reorders or damages, a transfer that *)
(* is complete has each of its packets in its place, from a transfer of that *)
(* id and length, and nothing is written behind its end                      *)
(* (ykb_protocol_rx_push_packet).                                            *)
THEOREM TransfersAreFramed == MCSpec => FramingHolds
<1>1. MCInit => ChannelInv
  BY ChannelInit DEF MCInit
<1>2. ChannelInv => Channel!CompleteIsSent
  <2>1. Channel!Alike = AlikeTo(ctx.transfer_id, ctx.total_len)
    BY DEF Channel!Alike, AlikeTo
  <2> SUFFICES ASSUME ChannelInv, ctx.complete,
                      NEW k \in 0 .. CalcPacketCount(ctx.total_len) - 1
               PROVE  \E t \in Channel!Alike : \A i \in Channel!Bytes(ctx.total_len, k) :
                          ctx.buffer[i] = Channel!Payload(t)[i]
    BY SameCount DEF Channel!CompleteIsSent
  <2>2. PICK t \in AlikeTo(ctx.transfer_id, ctx.total_len) :
            \A i \in Chunk(ctx.total_len, k) : ctx.buffer[i] = Channel!Payload(t)[i]
    BY DEF ChannelInv, ReceiverInv, Pieced
  <2>3. ctx.total_len \in 0 .. U16 - 1
    BY ChannelAssumption DEF AlikeTo, ChannelInv
  <2> QED
    BY <2>1, <2>2, <2>3, SameBytes
<1>3. ASSUME ChannelInv, [MCNext]_MCVars
      PROVE  ChannelInv' /\ [Channel!WritesInside]_MCVars
  <2>1. CASE UNCHANGED channelVars
    <3>1. UNCHANGED <<transfer, tx, packets, ctx>>
      BY <2>1 DEF channelVars
    <3>2. \A d, id, l : Pieced(d, id, l)' <=> Pieced(d, id, l)
      BY <3>1 DEF Pieced, AlikeTo, Channel!Payload
    <3>3. ReceiverInv(ctx)'
      BY <1>3, <3>1, <3>2 DEF ChannelInv, ReceiverInv
    <3>4. \A p \in packets' : SentInv(p)'
      BY <1>3, <3>1 DEF ChannelInv, SentInv, Channel!Payload
    <3>5. ChannelInv'
      BY <1>3, <3>1, <3>3, <3>4 DEF ChannelInv, Channel!Payload
    <3> QED
      BY <3>1, <3>5 DEF Channel!WritesInside
  <2>2. CASE Channel!Next
    BY <1>3, <2>2, ChannelStep
  <2>3. UNCHANGED MCVars => UNCHANGED channelVars
    BY DEF MCVars
  <2> QED
    BY <1>3, <2>1, <2>2, <2>3 DEF MCNext
<1>4. ASSUME ChannelInv', [Channel!WritesInside]_MCVars
      PROVE  [Channel!CompleteIsSent' /\ Channel!WritesInside]_MCVars
  <2>1. Channel!CompleteIsSent'
    BY <1>2, <1>4, PTL
  <2> QED
    BY <1>4, <2>1
<1> QED
  BY <1>1, <1>3, <1>4, PTL DEF MCSpec, FramingHolds

-----------------------------------------------------------------------------
(* The context a packet is built from. *)
TxContext(t) ==
    /\ t = [data |-> t.data, total_len |-> t.total_len, offset |-> t.offset,
            transfer_id |-> t.transfer_id, packet_count |-> t.packet_count,
            next_packet_idx |-> t.next_packet_idx]
    /\ {t.total_len, t.offset, t.packet_count, t.next_packet_idx} \subseteq Nat

(* What is known of the contexts, queue and buffers. *)
ContextsInv ==
    /\ {DOMAIN rx, DOMAIN busy, DOMAIN answers, DOMAIN sent} = {Contexts}
    /\ works \in Seq(Contexts)
    /\ DOMAIN snapshots = Snapshots
    /\ DOMAIN settings = 0 .. SettingsSize - 1

(* A context that is busy has its work queued or its answer running, once,  *)
(* and one answer runs at a time.                                          *)
WorkInv ==
    /\ \A c \in Contexts : Pending(c) => busy[c]
    /\ \A i \in DOMAIN works : answers[works[i]] = None
    /\ \A i, j \in DOMAIN works : works[i] = works[j] => i = j
    /\ \A c, d \in Contexts : answers[c] # None /\ answers[d] # None => c = d

(* An answer has been sent up to its offset, from data that its buffer still *)
(* holds.                                                                  *)
AnswerInv(c) ==
    LET a == answers[c]
    IN  /\ a = [from |-> a.from, tx |-> a.tx]
        /\ TxContext(a.tx)
        /\ a.tx.data = Bytes(a)
        /\ 0 .. a.tx.offset - 1 \subseteq DOMAIN sent[c]
        /\ \A i \in DOMAIN sent[c] : sent[c][i] = a.tx.data[i]

HostsInv ==
    /\ ContextsInv
    /\ WorkInv
    /\ \A c \in Contexts : answers[c] # None => AnswerInv(c)

-----------------------------------------------------------------------------
(* The next packet moves the offset over at most the bytes it carries, and   *)
(* leaves the data.                                                          *)
LEMMA PacketLength ==
    ASSUME NEW total \in Nat, NEW idx \in Nat, NEW count \in Nat
    PROVE  PayloadLenForIndex(total, idx, count) \in Nat
BY MaxPayloadAssumption DEF PayloadLenForIndex, U16

(* A transfer has a number of packets.                                       *)
LEMMA PacketCount ==
    ASSUME NEW total \in Nat
    PROVE  CalcPacketCount(total) \in Nat
BY MaxPayloadAssumption DEF CalcPacketCount, U16

(* A context that is initialised has sent nothing.                           *)
LEMMA InitialContext ==
    ASSUME NEW data, NEW total \in Nat
    PROVE  /\ TxContext(TxInit(data, total, 0))
           /\ TxInit(data, total, 0).data = data /\ TxInit(data, total, 0).offset = 0
BY PacketCount DEF TxInit, TxContext

LEMMA NextContext ==
    ASSUME NEW t, TxContext(t)
    PROVE  LET n == PayloadLenForIndex(t.total_len, t.next_packet_idx, t.packet_count)
           IN  /\ n \in Nat
               /\ TxContext(TxAfterPacket(t))
               /\ TxAfterPacket(t).data = t.data
               /\ TxAfterPacket(t).offset \in Nat
               /\ TxAfterPacket(t).offset <= t.offset + n
<1> DEFINE n == PayloadLenForIndex(t.total_len, t.next_packet_idx, t.packet_count)
<1>1. n \in Nat
  BY PacketLength DEF TxContext
<1> HIDE DEF n
<1>2. /\ (t.offset + n) % U16 \in Nat /\ (t.offset + n) % U16 <= t.offset + n
      /\ (t.next_packet_idx + 1) % U16 \in Nat
  BY <1>1 DEF TxContext, U16
<1>3. TxAfterPacket(t) = [t EXCEPT !.offset = (t.offset + n) % U16,
                                   !.next_packet_idx = (t.next_packet_idx + 1) % U16]
  BY DEF TxAfterPacket, n
<1>4. TxAfterPacket(t) =
        [data |-> t.data, total_len |-> t.total_len, offset |-> (t.offset + n) % U16,
         transfer_id |-> t.transfer_id, packet_count |-> t.packet_count,
         next_packet_idx |-> (t.next_packet_idx + 1) % U16]
  BY <1>3 DEF TxContext
<1>5. TxContext(TxAfterPacket(t))
  BY <1>2, <1>4 DEF TxContext
<1> QED
  BY <1>1, <1>2, <1>4, <1>5 DEF n

(* An answer that is given up has sent what it sent.                         *)
LEMMA GivenUpContext ==
    ASSUME NEW t, TxContext(t)
    PROVE  TxContext(GivenUp(t)) /\ GivenUp(t).data = t.data /\ GivenUp(t).offset = t.offset
<1>1. GivenUp(t) = [data |-> t.data, total_len |-> t.total_len, offset |-> t.offset,
                    transfer_id |-> t.transfer_id, packet_count |-> t.packet_count,
                    next_packet_idx |-> t.packet_count]
  BY DEF GivenUp, TxContext
<1> QED
  BY <1>1 DEF TxContext

-----------------------------------------------------------------------------
(* The hosts: a packet changes a context that is not busy, or nothing.       *)

(* What does not touch answers or buffers leaves the answers as they were.   *)
LEMMA AnswersStay ==
    ASSUME ContextsInv, UNCHANGED <<answers, snapshots, sent>>,
           \A c \in Contexts : answers[c] # None => AnswerInv(c)
    PROVE  \A c \in Contexts : answers'[c] # None => AnswerInv(c)'
<1> SUFFICES ASSUME NEW c \in Contexts, answers[c] # None PROVE AnswerInv(c)'
  OBVIOUS
<1>1. Bytes(answers[c])' = Bytes(answers[c])
  BY DEF Bytes
<1>2. answers'[c] = answers[c] /\ sent'[c] = sent[c] /\ AnswerInv(c)
  OBVIOUS
<1> QED
  BY <1>1, <1>2 DEF AnswerInv

(* A packet changes a context that is not busy, or nothing.                  *)
LEMMA ParseFacts ==
    ASSUME ContextsInv, NEW c \in Contexts, NEW p, Parse(c, p)
    PROVE  \/ UNCHANGED <<rx, busy, works>>
           \/ /\ ~busy[c]
              /\ DOMAIN rx' = Contexts /\ \A d \in Contexts \ {c} : rx'[d] = rx[d]
              /\ \/ UNCHANGED <<busy, works>>
                 \/ busy' = [busy EXCEPT ![c] = TRUE] /\ works' = Submit(works, c)
<1>1. CASE busy[c]
  BY <1>1 DEF Parse
<1>2. CASE ~busy[c] /\ RxPushPacket(rx[c], p).res # "COMPLETE"
  <2>1. UNCHANGED <<busy, works>> /\ rx' = [rx EXCEPT ![c] = RxPushPacket(rx[c], p).rx]
    BY <1>2 DEF Parse
  <2> QED
    BY <1>2, <2>1 DEF ContextsInv
<1>3. CASE ~busy[c] /\ RxPushPacket(rx[c], p).res = "COMPLETE"
  <2>1. RequestComplete(c, RxPushPacket(rx[c], p).rx)
    BY <1>3 DEF Parse
  <2>2. /\ rx' = [rx EXCEPT ![c] = RxPushPacket(rx[c], p).rx]
        /\ busy' = [busy EXCEPT ![c] = TRUE] /\ works' = Submit(works, c)
    BY <2>1 DEF RequestComplete
  <2> QED
    BY <1>3, <2>2 DEF ContextsInv
<1> QED
  BY <1>1, <1>2, <1>3

(* A context that is not pending comes to the end of the queue.              *)
LEMMA QueueGrows ==
    ASSUME NEW c \in Contexts, works \in Seq(Contexts), ~Pending(c)
    PROVE  /\ Submit(works, c) = Append(works, c) /\ Append(works, c) \in Seq(Contexts)
           /\ Len(works) \in Nat /\ DOMAIN works = 1 .. Len(works)
           /\ DOMAIN Append(works, c) = 1 .. Len(works) + 1
           /\ Append(works, c)[Len(works) + 1] = c
           /\ \A i \in 1 .. Len(works) : Append(works, c)[i] = works[i] /\ works[i] # c
<1>1. Submit(works, c) = Append(works, c)
  BY DEF Submit, Pending
<1> QED
  BY <1>1 DEF Pending

(* What is left of the queue when its head is taken.                         *)
LEMMA QueueShrinks ==
    ASSUME works \in Seq(Contexts), works # << >>
    PROVE  /\ Tail(works) \in Seq(Contexts)
           /\ Len(works) \in Nat \ {0} /\ DOMAIN works = 1 .. Len(works)
           /\ Head(works) = works[1] /\ Head(works) \in Contexts
           /\ DOMAIN Tail(works) = 1 .. Len(works) - 1
           /\ \A i \in 1 .. Len(works) - 1 : Tail(works)[i] = works[i + 1]
OBVIOUS

(* A packet of a host leaves every pending request alone.                    *)
LEMMA HostSendsKeeps ==
    ASSUME HostsInv, NEW h \in Hosts, HostSends(h)
    PROVE  HostsInv' /\ \A c \in Contexts : Pending(c) => rx'[c] = rx[c]
<1>1. Via[h] \in Contexts
  BY VendorHidAssumption
<1> DEFINE c == Via[h]
<1> HIDE DEF c
<1>2. UNCHANGED <<answers, settings, snapshots, sent>> /\ \E p : Parse(c, p)
  BY DEF HostSends, c
<1>3. \/ UNCHANGED <<rx, busy, works>>
      \/ /\ ~busy[c]
         /\ DOMAIN rx' = Contexts /\ \A d \in Contexts \ {c} : rx'[d] = rx[d]
         /\ \/ UNCHANGED <<busy, works>>
            \/ busy' = [busy EXCEPT ![c] = TRUE] /\ works' = Submit(works, c)
  BY <1>1, <1>2, ParseFacts DEF HostsInv, c
<1>4. \A d \in Contexts : answers'[d] # None => AnswerInv(d)'
  BY <1>2, AnswersStay DEF HostsInv
<1>5. \A d \in Contexts : Pending(d) => rx'[d] = rx[d]
  BY <1>3 DEF HostsInv, WorkInv
<1>6. CASE UNCHANGED <<busy, works>>
  <2>1. WorkInv'
    BY <1>2, <1>6 DEF HostsInv, WorkInv, Pending
  <2>2. ContextsInv'
    BY <1>2, <1>3, <1>6 DEF HostsInv, ContextsInv
  <2> QED
    BY <1>4, <1>5, <2>1, <2>2 DEF HostsInv
<1>7. CASE ~busy[c] /\ busy' = [busy EXCEPT ![c] = TRUE] /\ works' = Submit(works, c)
  <2>1. ~Pending(c)
    BY <1>1, <1>7 DEF HostsInv, WorkInv, c
  <2>2. /\ works' = Append(works, c) /\ works' \in Seq(Contexts)
        /\ Len(works) \in Nat /\ DOMAIN works = 1 .. Len(works)
        /\ DOMAIN works' = 1 .. Len(works) + 1 /\ works'[Len(works) + 1] = c
        /\ \A i \in 1 .. Len(works) : works'[i] = works[i] /\ works[i] # c
    BY <1>1, <1>7, <2>1, QueueGrows DEF HostsInv, ContextsInv, c
  <2>3. \A d \in Contexts : busy[d] \/ d = c => busy'[d]
    BY <1>7 DEF HostsInv, ContextsInv
  <2>4. \A d \in Contexts : Pending(d)' => Pending(d) \/ d = c
    BY <1>2, <2>2 DEF Pending
  <2>5. answers[c] = None
    BY <2>1 DEF Pending
  <2>6. WorkInv'
    <3>1. \A d \in Contexts : Pending(d)' => busy'[d]
      BY <2>3, <2>4 DEF HostsInv, WorkInv
    <3>2. \A i \in DOMAIN works' : answers'[works'[i]] = None
      BY <1>2, <2>2, <2>5 DEF HostsInv, WorkInv
    <3>3. \A i, j \in DOMAIN works' : works'[i] = works'[j] => i = j
      BY <2>2 DEF HostsInv, WorkInv
    <3> QED
      BY <1>2, <3>1, <3>2, <3>3 DEF HostsInv, WorkInv
  <2>7. ContextsInv'
    BY <1>2, <1>3, <1>7, <2>2 DEF HostsInv, ContextsInv
  <2> QED
    BY <1>4, <1>5, <2>6, <2>7 DEF HostsInv
<1> QED
  BY <1>3, <1>6, <1>7

(* Neither does a host that starts, or is closed, concern them.              *)
LEMMA OthersKeep ==
    ASSUME HostsInv, UNCHANGED <<rx, busy, works, answers, settings, snapshots, sent>>
    PROVE  HostsInv'
<1>1. \A c \in Contexts : answers'[c] # None => AnswerInv(c)'
  BY AnswersStay DEF HostsInv
<1> QED
  BY <1>1 DEF HostsInv, ContextsInv, WorkInv, Pending

-----------------------------------------------------------------------------
(* The work: it begins while no other runs, and takes what it sends.         *)

(* The size of what an answer is sent from.                                  *)
LEMMA TakenIsFinite ==
    ASSUME NEW data, NEW n \in Nat, DOMAIN data = 0 .. n
    PROVE  Cardinality(DOMAIN data) \in Nat
BY FS_Interval

LEMMA StartResponseKeeps ==
    ASSUME HostsInv, NEW c \in Contexts, NEW ok \in BOOLEAN, StartResponse(c, ok)
    PROVE  HostsInv'
<1> DEFINE from == IF ok THEN response[c] ELSE "ERROR"
           data == IF from \in Snapshots THEN snapshots'[from] ELSE [i \in {0} |-> from]
           t    == TxInit(data, Cardinality(DOMAIN data), 0)
<1>1. /\ works # << >> /\ Head(works) = c /\ works' = Tail(works)
      /\ \A d \in Contexts : answers[d] = None
      /\ snapshots' = Take(response[c], ok)
      /\ answers' = [answers EXCEPT ![c] = [from |-> from, tx |-> t]]
      /\ sent' = [sent EXCEPT ![c] = [i \in {} |-> Zero]]
      /\ UNCHANGED <<rx, busy>>
  BY DEF StartResponse, WorkqueueFree
<1>2. DOMAIN settings' = 0 .. SettingsSize - 1
  BY VendorHidAssumption DEF StartResponse, Effect, SettingsOf, HostsInv, ContextsInv
<1>3. DOMAIN snapshots' = Snapshots
  BY <1>1 DEF Take, HostsInv, ContextsInv
<1>4. Cardinality(DOMAIN data) \in Nat
  <2>1. CASE from \in Snapshots
    <3>1. ok /\ response[c] \in Snapshots /\ from = response[c] /\ data = snapshots'[response[c]]
      BY <2>1 DEF Snapshots
    <3>2. CASE response[c] = "GET_SETTINGS"
      <4>1. snapshots' = [snapshots EXCEPT !["GET_SETTINGS"] = settings]
        BY <1>1, <3>1, <3>2 DEF Take
      <4>2. DOMAIN data = 0 .. SettingsSize - 1 /\ SettingsSize - 1 \in Nat
        BY <3>1, <3>2, <4>1, VendorHidAssumption DEF HostsInv, ContextsInv, Snapshots
      <4> QED
        BY <4>2, TakenIsFinite
    <3>3. CASE response[c] = "GET_SLOT"
      <4>1. DOMAIN data = 0 .. 1
        BY <1>1, <3>1, <3>3 DEF Take, HostsInv, ContextsInv, Snapshots
      <4> QED
        BY <4>1, TakenIsFinite
    <3>4. CASE response[c] = "SLOT_INFO"
      <4>1. DOMAIN data = 0 .. 0
        BY <1>1, <3>1, <3>4 DEF Take, HostsInv, ContextsInv, Snapshots
      <4> QED
        BY <4>1, TakenIsFinite
    <3> QED
      BY <3>1, <3>2, <3>3, <3>4 DEF Snapshots
  <2>2. CASE from \notin Snapshots
    <3>1. DOMAIN data = 0 .. 0
      BY <2>2
    <3> QED
      BY <3>1, TakenIsFinite
  <2> QED
    BY <2>1, <2>2
<1>5. TxContext(t) /\ t.data = data /\ t.offset = 0
  BY <1>4, InitialContext
<1> HIDE DEF t
<1>6. \A d \in Contexts : answers'[d] = IF d = c THEN [from |-> from, tx |-> t] ELSE None
  BY <1>1 DEF HostsInv, ContextsInv
<1>7. AnswerInv(c)'
  <2>1. answers'[c].from = from /\ answers'[c].tx = t /\ sent'[c] = [i \in {} |-> Zero]
    BY <1>1, <1>6 DEF HostsInv, ContextsInv
  <2>2. Bytes(answers[c])' = data
    BY <2>1 DEF Bytes
  <2> HIDE DEF from, data
  <2> QED
    BY <1>5, <1>6, <2>1, <2>2 DEF AnswerInv
<1>8. ContextsInv'
  <2>1. works' \in Seq(Contexts)
    BY <1>1 DEF HostsInv, ContextsInv
  <2> HIDE DEF from, data
  <2>2. DOMAIN answers' = Contexts /\ DOMAIN sent' = Contexts
    BY <1>1 DEF HostsInv, ContextsInv
  <2> QED
    BY <1>1, <1>2, <1>3, <2>1, <2>2 DEF HostsInv, ContextsInv
<1> HIDE DEF from, data
<1>9. WorkInv'
  <2>1. /\ Len(works) \in Nat \ {0} /\ DOMAIN works = 1 .. Len(works) /\ works[1] = c
        /\ DOMAIN works' = 1 .. Len(works) - 1
        /\ \A i \in 1 .. Len(works) - 1 : works'[i] = works[i + 1]
    BY <1>1, QueueShrinks DEF HostsInv, ContextsInv
  <2>2. \A i \in DOMAIN works' : i + 1 \in DOMAIN works /\ works'[i] = works[i + 1] /\ works'[i] # c
    BY <2>1 DEF HostsInv, WorkInv
  <2>3. \A d \in Contexts : Pending(d)' => Pending(d)
    BY <1>6, <2>1, <2>2 DEF Pending
  <2>4. \A i \in DOMAIN works' : answers'[works'[i]] = None
    <3>1. \A i \in DOMAIN works' : works'[i] \in Contexts
      BY <1>8 DEF ContextsInv
    <3> QED
      BY <1>6, <2>2, <3>1
  <2>5. \A i, j \in DOMAIN works' : works'[i] = works'[j] => i = j
    BY <2>1, <2>2 DEF HostsInv, WorkInv
  <2> QED
    BY <1>1, <1>6, <2>3, <2>4, <2>5 DEF HostsInv, WorkInv
<1> QED
  BY <1>6, <1>7, <1>8, <1>9 DEF HostsInv

(* A packet carries the bytes that follow those already sent.                *)
LEMMA BuiltIsData ==
    ASSUME HostsInv, NEW c \in Contexts, answers[c] # None, NEW at \in Nat,
           at <= answers[c].tx.offset
                   + PayloadLenForIndex(answers[c].tx.total_len, answers[c].tx.next_packet_idx,
                                        answers[c].tx.packet_count)
    PROVE  /\ 0 .. at - 1 \subseteq DOMAIN Built(c)
           /\ \A i \in DOMAIN Built(c) : Built(c)[i] = answers[c].tx.data[i]
<1> DEFINE t == answers[c].tx
           n == PayloadLenForIndex(t.total_len, t.next_packet_idx, t.packet_count)
<1>1. /\ TxContext(t) /\ t.data = Bytes(answers[c])
      /\ 0 .. t.offset - 1 \subseteq DOMAIN sent[c]
      /\ \A i \in DOMAIN sent[c] : sent[c][i] = t.data[i]
  BY DEF HostsInv, AnswerInv
<1>2. [t EXCEPT !.data = Bytes(answers[c])] = t
  BY <1>1 DEF TxContext
<1>3. n \in Nat /\ t.offset \in Nat
  BY <1>1, NextContext DEF TxContext
<1>4. NextPacket(c).payload = [i \in 0 .. n - 1 |-> t.data[t.offset + i]]
  <2>1. NextPacket(c) = TxPacket(t)
    BY <1>2 DEF NextPacket
  <2>2. TxPacket(t).payload = [i \in 0 .. n - 1 |-> t.data[t.offset + i]]
    BY DEF TxPacket
  <2> QED
    BY <2>1, <2>2
<1>5. Cardinality(DOMAIN NextPacket(c).payload) = n
  <2> HIDE DEF n
  <2>1. Cardinality(0 .. n - 1) = n
    BY <1>3, FS_Interval
  <2> QED
    BY <1>4, <2>1
<1>6. Built(c) = [i \in 0 .. t.offset + n - 1 |->
                    IF i < t.offset THEN sent[c][i] ELSE NextPacket(c).payload[i - t.offset]]
  BY <1>5 DEF Built
<1>7. at <= t.offset + n
  OBVIOUS
<1> HIDE DEF t, n
<1>8. 0 .. at - 1 \subseteq DOMAIN Built(c)
  BY <1>3, <1>6, <1>7
<1>9. ASSUME NEW i \in 0 .. t.offset + n - 1 PROVE Built(c)[i] = t.data[i]
  <2>1. CASE i < t.offset
    <3>1. i \in 0 .. t.offset - 1
      BY <1>3, <1>9, <2>1
    <3> QED
      BY <1>1, <1>6, <2>1, <3>1
  <2>2. CASE ~(i < t.offset)
    <3>1. i - t.offset \in 0 .. n - 1 /\ t.offset + (i - t.offset) = i
      BY <1>3, <1>9, <2>2
    <3>2. NextPacket(c).payload[i - t.offset] = t.data[i]
      BY <1>4, <3>1
    <3> QED
      BY <1>6, <2>2, <3>2
  <2> QED
    BY <2>1, <2>2
<1> QED
  BY <1>6, <1>8, <1>9 DEF t

(* A packet that is sent or lost changes only the answer it belongs to.      *)
LEMMA SendKeeps ==
    ASSUME HostsInv, NEW c \in Contexts, answers[c] # None, NEW t, TxContext(t),
           t.data = answers[c].tx.data,
           t.offset <= answers[c].tx.offset
                   + PayloadLenForIndex(answers[c].tx.total_len, answers[c].tx.next_packet_idx,
                                        answers[c].tx.packet_count),
           answers' = [answers EXCEPT ![c] = [from |-> answers[c].from, tx |-> t]],
           sent' = [sent EXCEPT ![c] = Built(c)],
           UNCHANGED <<rx, busy, works, settings, snapshots>>
    PROVE  HostsInv'
<1>1. /\ 0 .. t.offset - 1 \subseteq DOMAIN Built(c)
      /\ \A i \in DOMAIN Built(c) : Built(c)[i] = answers[c].tx.data[i]
  BY BuiltIsData DEF TxContext
<1>2. /\ answers'[c] = [from |-> answers[c].from, tx |-> t] /\ sent'[c] = Built(c)
      /\ \A d \in Contexts \ {c} : answers'[d] = answers[d] /\ sent'[d] = sent[d]
      /\ DOMAIN answers' = Contexts /\ DOMAIN sent' = Contexts
  BY DEF HostsInv, ContextsInv
<1>3. Bytes(answers[c])' = Bytes(answers[c]) /\ answers[c].tx.data = Bytes(answers[c])
  BY <1>2 DEF Bytes, HostsInv, AnswerInv
<1>4. AnswerInv(c)'
  BY <1>1, <1>2, <1>3 DEF AnswerInv
<1>5. ASSUME NEW d \in Contexts \ {c}, answers'[d] # None PROVE AnswerInv(d)'
  <2>1. Bytes(answers[d])' = Bytes(answers[d]) /\ AnswerInv(d)
    BY <1>2, <1>5 DEF Bytes, HostsInv
  <2> QED
    BY <1>2, <2>1 DEF AnswerInv
<1>6. ContextsInv'
  BY <1>2 DEF HostsInv, ContextsInv
<1>7. \A d \in Contexts : answers'[d] # None => answers[d] # None
  BY <1>2
<1>8. \A i \in DOMAIN works : works[i] \in Contexts /\ works[i] # c
  BY DEF HostsInv, ContextsInv, WorkInv
<1>9. WorkInv'
  <2>1. \A d \in Contexts : Pending(d)' => Pending(d)
    BY <1>7 DEF Pending
  <2>2. \A i \in DOMAIN works : answers'[works[i]] = None
    BY <1>2, <1>8 DEF HostsInv, WorkInv
  <2> QED
    BY <1>7, <2>1, <2>2 DEF HostsInv, WorkInv
<1> QED
  BY <1>4, <1>5, <1>6, <1>9 DEF HostsInv

(* So a packet sent, and one that failed.                                    *)
LEMMA SendPacketKeeps ==
    ASSUME HostsInv, NEW c \in Contexts, SendPacket(c) \/ SendFails(c)
    PROVE  HostsInv'
<1> DEFINE a == answers[c]
<1>1. /\ a # None /\ a = [from |-> a.from, tx |-> a.tx] /\ TxContext(a.tx)
      /\ sent' = [sent EXCEPT ![c] = Built(c)]
      /\ UNCHANGED <<rx, busy, works, settings, snapshots>>
  BY DEF SendPacket, SendFails, SendsOn, HostsInv, AnswerInv
<1>2. \/ answers' = [answers EXCEPT ![c].tx = TxAfterPacket(@)]
      \/ answers' = [answers EXCEPT ![c].tx = GivenUp(@)]
  BY DEF SendPacket, SendFails
<1>3. ASSUME NEW t, answers' = [answers EXCEPT ![c].tx = t]
      PROVE  answers' = [answers EXCEPT ![c] = [from |-> a.from, tx |-> t]]
  <2>1. answers' = [answers EXCEPT ![c] = [a EXCEPT !.tx = t]]
    BY <1>3
  <2>2. [a EXCEPT !.tx = t] = [from |-> a.from, tx |-> t]
    BY <1>1
  <2> QED
    BY <2>1, <2>2
<1>4. CASE answers' = [answers EXCEPT ![c].tx = TxAfterPacket(@)]
  <2>1. answers' = [answers EXCEPT ![c] = [from |-> a.from, tx |-> TxAfterPacket(a.tx)]]
    BY <1>3, <1>4
  <2> QED
    BY <1>1, <2>1, NextContext, SendKeeps
<1>5. CASE answers' = [answers EXCEPT ![c].tx = GivenUp(@)]
  <2>1. answers' = [answers EXCEPT ![c] = [from |-> a.from, tx |-> GivenUp(a.tx)]]
    BY <1>3, <1>5
  <2>2. /\ a.tx.offset \in Nat
        /\ PayloadLenForIndex(a.tx.total_len, a.tx.next_packet_idx, a.tx.packet_count) \in Nat
    BY <1>1, NextContext DEF TxContext
  <2>3. /\ TxContext(GivenUp(a.tx)) /\ GivenUp(a.tx).data = a.tx.data
        /\ GivenUp(a.tx).offset = a.tx.offset
    BY <1>1, GivenUpContext
  <2>4. GivenUp(a.tx).offset <= a.tx.offset
          + PayloadLenForIndex(a.tx.total_len, a.tx.next_packet_idx, a.tx.packet_count)
    BY <2>2, <2>3
  <2> QED
    BY <1>1, <2>1, <2>3, <2>4, SendKeeps
<1> QED
  BY <1>2, <1>4, <1>5

(* When it ends, nothing of its context is queued.                           *)
LEMMA FinishResponseKeeps ==
    ASSUME HostsInv, NEW c \in Contexts, FinishResponse(c)
    PROVE  /\ HostsInv' /\ ~Pending(c)'
           /\ \A d \in Contexts \ {c} : rx'[d] = rx[d]
<1>1. /\ answers[c] # None /\ answers' = [answers EXCEPT ![c] = None]
      /\ rx' = [rx EXCEPT ![c] = RxReset(@)]
      /\ busy' = [busy EXCEPT ![c] = FALSE]
      /\ UNCHANGED <<works, settings, snapshots, sent>>
  BY DEF FinishResponse
<1>2. /\ answers'[c] = None /\ \A d \in Contexts \ {c} : answers'[d] = answers[d]
      /\ \A d \in Contexts \ {c} : busy[d] => busy'[d]
      /\ \A d \in Contexts \ {c} : rx'[d] = rx[d]
      /\ {DOMAIN rx', DOMAIN busy', DOMAIN answers'} = {Contexts}
  BY <1>1 DEF HostsInv, ContextsInv
<1>3. \A i \in DOMAIN works : works[i] \in Contexts /\ works[i] # c
  BY <1>1 DEF HostsInv, ContextsInv, WorkInv
<1>4. ~Pending(c)'
  BY <1>1, <1>2, <1>3 DEF Pending
<1>5. \A d \in Contexts : answers'[d] # None => answers[d] # None
  BY <1>2
<1>6. WorkInv'
  <2>1. \A d \in Contexts : Pending(d)' => Pending(d) /\ d # c
    BY <1>1, <1>4, <1>5 DEF Pending
  <2>2. \A i \in DOMAIN works : answers'[works[i]] = None
    BY <1>2, <1>3 DEF HostsInv, WorkInv
  <2> QED
    BY <1>1, <1>2, <1>5, <2>1, <2>2 DEF HostsInv, WorkInv
<1>7. ASSUME NEW d \in Contexts, answers'[d] # None PROVE AnswerInv(d)'
  <2>1. answers'[d] = answers[d] /\ AnswerInv(d)
    BY <1>2, <1>7 DEF HostsInv
  <2>2. Bytes(answers[d])' = Bytes(answers[d])
    BY <1>1, <2>1 DEF Bytes
  <2> QED
    BY <1>1, <2>1, <2>2 DEF AnswerInv
<1>8. ContextsInv'
  BY <1>1, <1>2 DEF HostsInv, ContextsInv
<1> QED
  BY <1>2, <1>4, <1>6, <1>7, <1>8 DEF HostsInv

-----------------------------------------------------------------------------
(* At first nothing runs.                                                    *)
LEMMA HostsInit == Init => HostsInv
<1> SUFFICES ASSUME Init PROVE HostsInv
  OBVIOUS
<1>1. works = << >> /\ \A c \in Contexts : answers[c] = None
  BY DEF Init
<1>2. ContextsInv
  BY VendorHidAssumption DEF Init, ContextsInv
<1> QED
  BY <1>1, <1>2 DEF HostsInv, WorkInv, Pending

(* Every step of the hosts part keeps this.                                  *)
LEMMA HostsStep ==
    ASSUME HostsInv, Next
    PROVE  /\ HostsInv'
           /\ \A c \in Contexts : Pending(c) /\ Pending(c)' => rx'[c] = rx[c]
<1>1. ASSUME NEW h \in Hosts, NEW m \in Requests, HostStarts(h, m)
      PROVE  HostsInv' /\ rx' = rx
  BY <1>1, OthersKeep DEF HostStarts
<1>2. ASSUME NEW h \in Hosts, HostRestarts(h) PROVE HostsInv' /\ rx' = rx
  BY <1>2, OthersKeep DEF HostRestarts
<1>3. ASSUME NEW c \in Contexts, NEW ok \in BOOLEAN, StartResponse(c, ok)
      PROVE  HostsInv' /\ rx' = rx
  BY <1>3, StartResponseKeeps DEF StartResponse
<1>4. ASSUME NEW c \in Contexts, SendPacket(c) \/ SendFails(c)
      PROVE  HostsInv' /\ rx' = rx
  BY <1>4, SendPacketKeeps DEF SendPacket, SendFails
<1>5. ASSUME NEW c \in Contexts, FinishResponse(c)
      PROVE  /\ HostsInv'
             /\ \A d \in Contexts : Pending(d) /\ Pending(d)' => rx'[d] = rx[d]
  BY <1>5, FinishResponseKeeps
<1> QED
  BY <1>1, <1>2, <1>3, <1>4, <1>5, HostSendsKeeps DEF Next, Works

(* As long as hosts have their part.                                         *)
HostsPart == part = "hosts" => HostsInv

(* An answer of several packets carries what its shared buffer held when it  *)
(* began, whatever the other transport does between two packets, and the     *)
(* request a work performs stays as it was queued until the work ends        *)
(* (response_work_handler, vendor_hid_protocol_parse).                       *)
THEOREM AnswersAndRequestsStay == MCSpec => AnswersStayWhole
<1>1. MCInit => HostsPart
  BY HostsInit DEF MCInit, HostsPart
<1>2. ASSUME HostsPart, [MCNext]_MCVars
      PROVE  /\ HostsPart'
             /\ [part = "hosts" =>
                   /\ AnswersAreWhole'
                   /\ \A c \in Contexts : Pending(c) /\ Pending(c)' => rx'[c] = rx[c]]_MCVars
  <2>1. part' = part
    BY <1>2 DEF MCNext, MCVars
  <2>2. CASE part # "hosts"
    BY <2>1, <2>2 DEF HostsPart
  <2>3. CASE part = "hosts" /\ Next
    <3>1. /\ HostsInv'
          /\ \A c \in Contexts : Pending(c) /\ Pending(c)' => rx'[c] = rx[c]
      BY <1>2, <2>3, HostsStep DEF HostsPart
    <3>2. AnswersAreWhole'
      BY <3>1 DEF HostsInv, AnswerInv, AnswersAreWhole
    <3> QED
      BY <3>1, <3>2 DEF HostsPart
  <2>4. CASE part = "hosts" /\ UNCHANGED MCVars
    <3>1. UNCHANGED <<rx, busy, works, answers, settings, snapshots, sent>>
      BY <2>4 DEF MCVars, vars
    <3>2. HostsInv'
      BY <1>2, <2>4, <3>1, OthersKeep DEF HostsPart
    <3> QED
      BY <2>4, <3>2 DEF HostsPart
  <2> QED
    BY <1>2, <2>2, <2>3, <2>4 DEF MCNext
<1> QED
  BY <1>1, <1>2, PTL DEF MCSpec, AnswersStayWhole

-----------------------------------------------------------------------------
(* Settings of one request: all their bytes have its value.                  *)
Whole(s) == \A i, j \in 0 .. SettingsSize - 1 : s[i] = s[j]

(* The size of a set is the same in the patient part.                        *)
LEMMA SameCardinality == \A S : Patient!Cardinality(S) = Cardinality(S)
BY DEF Cardinality, Patient!Cardinality

(* A request is as long as its bytes are many, and one that sets the         *)
(* settings carries one value.                                               *)
LEMMA RequestFacts ==
    ASSUME NEW m \in AllRequests
    PROVE  /\ DOMAIN m = 0 .. Cardinality(DOMAIN m) - 1
           /\ Cardinality(DOMAIN m) \in 1 .. U16 - 1
           /\ m[0] = "SET_SETTINGS" =>
                /\ Cardinality(DOMAIN m) = SettingsSize + 1
                /\ \A i, j \in 0 .. SettingsSize - 1 : m[i + 1] = m[j + 1]
<1>1. /\ SettingsSize \in Nat /\ SettingsSize + 1 \in 1 .. U16 - 1
      /\ 1 \in 1 .. U16 - 1 /\ 2 \in 1 .. U16 - 1 /\ 3 \in 1 .. U16 - 1
  <2>1. SettingsSize \in 1 .. U16 - 2
    BY VendorHidAssumption
  <2>2. U16 \in Nat /\ U16 > 3
    BY DEF U16
  <2>3. SettingsSize \in Nat /\ SettingsSize + 1 \in 1 .. U16 - 1
    BY <2>1, <2>2
  <2>4. 1 \in 1 .. U16 - 1 /\ 2 \in 1 .. U16 - 1 /\ 3 \in 1 .. U16 - 1
    BY <2>2
  <2> QED
    BY <2>3, <2>4
<1>2. ASSUME NEW n \in Nat, DOMAIN m = 0 .. n
      PROVE  Cardinality(DOMAIN m) = n + 1 /\ DOMAIN m = 0 .. Cardinality(DOMAIN m) - 1
  BY <1>2, FS_Interval
<1>3. CASE m \in {SetSettings("1"), SetSettings("2")}
  <2>1. DOMAIN m = 0 .. SettingsSize
    BY <1>3 DEF SetSettings
  <2>2. ASSUME NEW i \in 0 .. SettingsSize - 1, NEW j \in 0 .. SettingsSize - 1
        PROVE  m[i + 1] = m[j + 1]
    <3>1. /\ i + 1 \in 0 .. SettingsSize /\ i + 1 # 0
          /\ j + 1 \in 0 .. SettingsSize /\ j + 1 # 0
      BY <1>1
    <3>2. ASSUME NEW v, m = SetSettings(v) PROVE m[i + 1] = v /\ m[j + 1] = v
      BY <3>1, <3>2 DEF SetSettings
    <3> QED
      BY <1>3, <3>2
  <2> QED
    BY <1>1, <1>2, <2>1, <2>2
<1>4. CASE m = SetSlot("1")
  <2>1. DOMAIN m = 0 .. 2 /\ m[0] = "SET_SLOT"
    BY <1>4 DEF SetSlot
  <2> QED
    BY <1>1, <1>2, <2>1
<1>5. CASE m = Rename("2")
  <2>1. DOMAIN m = 0 .. 1 /\ m[0] = "RENAME_SLOT"
    BY <1>5 DEF Rename
  <2> QED
    BY <1>1, <1>2, <2>1
<1>6. ASSUME NEW t \in {"GET_FEATURES", "GET_SETTINGS", "GET_SLOT", "SLOT_INFO",
                        "CLEAR_SLOT", "UNKNOWN"}, m = Alone(t)
      PROVE  /\ DOMAIN m = 0 .. Cardinality(DOMAIN m) - 1
             /\ Cardinality(DOMAIN m) \in 1 .. U16 - 1 /\ m[0] # "SET_SETTINGS"
  <2>1. DOMAIN m = 0 .. 0 /\ m[0] = t
    BY <1>6 DEF Alone
  <2> QED
    BY <1>1, <1>2, <2>1
<1> QED
  BY <1>3, <1>4, <1>5, <1>6 DEF AllRequests

(* The bytes of a request, and the answer its first byte asks for.           *)
Asks(m) == IF m[0] \in Known THEN m[0] ELSE "ERROR"

Holds(buffer, m) == \A i \in 0 .. Cardinality(DOMAIN m) - 1 : buffer[i] = m[i]

(* The configurator that is not closed: what it has in hand is a request.    *)
ConfiguratorInv ==
    /\ DOMAIN host = {"pc"}
    /\ host["pc"] = [does |-> host["pc"].does, tx |-> host["pc"].tx,
                     requests |-> host["pc"].requests]
    /\ host["pc"].does # "rests" =>
         LET t == host["pc"].tx
         IN  /\ t.data \in AllRequests /\ t.transfer_id = 0
             /\ Sends(t, Cardinality(DOMAIN t.data), t.data)
    /\ host["pc"].does = "sends" => TxHasMore(host["pc"].tx)

(* The context gathers what the configurator sends while it is not busy, and *)
(* has a whole request while it is.                                          *)
GatheringInv ==
    LET r == rx["usb"]
        t == host["pc"].tx
    IN  /\ {DOMAIN rx, DOMAIN busy, DOMAIN response, DOMAIN answers} = {{"usb"}}
        /\ busy["usb"] \in BOOLEAN
        /\ RxContext(r)
        /\ works \in {<< >>, <<"usb">>} /\ (answers["usb"] # None => works = << >>)
        /\ ~busy["usb"] => ~r.complete /\ works = << >> /\ answers["usb"] = None
        /\ ~busy["usb"] /\ r.active =>
             host["pc"].does # "rests" /\ Carries(r, Cardinality(DOMAIN t.data), t.data)
        /\ busy["usb"] => \E m \in AllRequests :
                             Holds(r.buffer, m) /\ response["usb"] = Asks(m)

PatientInv ==
    /\ ConfiguratorInv
    /\ GatheringInv
    /\ DOMAIN settings = 0 .. SettingsSize - 1
    /\ Whole(settings)

-----------------------------------------------------------------------------
(* At first nobody asks for anything.                                        *)
LEMMA PatientInit == Patient!Init => PatientInv
<1> SUFFICES ASSUME Patient!Init PROVE PatientInv
  OBVIOUS
<1>1. /\ rx = [c \in {"usb"} |-> RxInit([i \in 0 .. RequestSize - 1 |-> "0"], RequestSize, FALSE, 0)]
      /\ busy = [c \in {"usb"} |-> FALSE] /\ response = [c \in {"usb"} |-> None]
      /\ works = << >> /\ answers = [c \in {"usb"} |-> None]
      /\ settings = [i \in 0 .. SettingsSize - 1 |-> "0"]
      /\ host = [h \in {"pc"} |-> [does |-> "rests", tx |-> None, requests |-> 0]]
  BY SamePatientProtocol DEF Patient!Init, Patient!Zero
<1>2. RxContext(rx["usb"]) /\ ~rx["usb"].active /\ ~rx["usb"].complete
  BY <1>1, VendorHidAssumption DEF RxInit, RxContext, RxFields
<1>3. GatheringInv
  BY <1>1, <1>2 DEF GatheringInv
<1>4. ConfiguratorInv
  BY <1>1 DEF ConfiguratorInv
<1>5. DOMAIN settings = 0 .. SettingsSize - 1 /\ Whole(settings)
  BY <1>1 DEF Whole
<1> QED
  BY <1>3, <1>4, <1>5 DEF PatientInv

(* What the configurator takes in hand when it rests.                        *)
LEMMA PatientHostStarts ==
    ASSUME PatientInv, NEW m \in AllRequests, Patient!HostStarts("pc", m)
    PROVE  PatientInv'
<1> DEFINE t == TxInit(m, Cardinality(DOMAIN m), 0)
<1>1. /\ host["pc"].does = "rests"
      /\ host' = [host EXCEPT !["pc"] = [does |-> "sends", tx |-> t,
                                         requests |-> @.requests + 1]]
      /\ UNCHANGED <<rx, busy, response, works, answers, settings>>
  BY SamePatientProtocol, SameCardinality DEF Patient!HostStarts
<1>2. /\ Sends(t, Cardinality(DOMAIN m), m) /\ t.transfer_id = 0 /\ t.data = m
      /\ t.next_packet_idx = 0 /\ TxHasMore(t)
  <2>1. Cardinality(DOMAIN m) \in 0 .. U16 - 1
    BY RequestFacts
  <2>2. CalcPacketCount(Cardinality(DOMAIN m)) \in 1 .. U16 - 1
    BY <2>1, CountFacts
  <2>3. /\ Sends(t, Cardinality(DOMAIN m), m) /\ t.transfer_id = 0 /\ t.next_packet_idx = 0
    BY <2>1, SendingStarts
  <2> HIDE DEF t
  <2> QED
    BY <2>2, <2>3 DEF Sends, TxHasMore
<1> HIDE DEF t
<1>3. host'["pc"] = [does |-> "sends", tx |-> t, requests |-> host["pc"].requests + 1]
      /\ DOMAIN host' = {"pc"}
  BY <1>1 DEF PatientInv, ConfiguratorInv
<1>4. ConfiguratorInv'
  BY <1>2, <1>3 DEF ConfiguratorInv
<1>5. GatheringInv'
  <2>1. ~busy["usb"] => ~rx["usb"].active
    BY <1>1 DEF PatientInv, GatheringInv
  <2> QED
    BY <1>1, <2>1 DEF PatientInv, GatheringInv
<1> QED
  BY <1>1, <1>4, <1>5 DEF PatientInv, Whole

(* A packet of its request is added to the context, or changes nothing; with *)
(* the last one the context has the whole request.                           *)
LEMMA PatientHostSends ==
    ASSUME PatientInv, Patient!HostSends("pc")
    PROVE  PatientInv'
<1> DEFINE t == host["pc"].tx
           m == t.data
           L == Cardinality(DOMAIN m)
           p == TxPacket(t)
           u == TxAfterPacket(t)
           r == rx["usb"]
           push == RxPushPacket(r, p)
<1>1. /\ host["pc"].does = "sends"
      /\ Patient!Parse("usb", p)
      /\ host' = [host EXCEPT !["pc"].tx = u,
                              !["pc"].does = IF TxHasMore(u) THEN "sends" ELSE "waits"]
      /\ UNCHANGED <<answers, settings>>
  BY SamePatientProtocol DEF Patient!HostSends
<1>2. /\ m \in AllRequests /\ t.transfer_id = 0 /\ Sends(t, L, m) /\ TxHasMore(t)
      /\ DOMAIN host = {"pc"}
      /\ host["pc"] = [does |-> host["pc"].does, tx |-> t, requests |-> host["pc"].requests]
  BY <1>1 DEF PatientInv, ConfiguratorInv
<1>3. /\ L \in 0 .. U16 - 1 /\ 0 \in 0 .. L - 1
  <2>1. L \in 1 .. U16 - 1
    BY <1>2, RequestFacts
  <2> HIDE DEF L
  <2>2. U16 - 1 = 65535
    BY DEF U16
  <2> QED
    BY <2>1, <2>2
<1>4. /\ PartOf(p, L, m) /\ p.transfer_id = 0 /\ Sends(u, L, m) /\ u.transfer_id = 0
  <2> HIDE DEF L, m
  <2> QED
    BY <1>2, <1>3, SendingGoesOn
<1>5. u.data = m
  BY <1>4 DEF Sends
<1> HIDE DEF u
<1>6. /\ host'["pc"].tx = u /\ DOMAIN host' = {"pc"}
      /\ host'["pc"].does = IF TxHasMore(u) THEN "sends" ELSE "waits"
      /\ host'["pc"] = [does |-> host'["pc"].does, tx |-> host'["pc"].tx,
                        requests |-> host'["pc"].requests]
  BY <1>1, <1>2
<1>7. ConfiguratorInv'
  BY <1>2, <1>4, <1>5, <1>6 DEF ConfiguratorInv
<1>8. GatheringInv'
  <2>1. CASE busy["usb"]
    <3>1. UNCHANGED <<rx, busy, response, works>>
      BY <1>1, <2>1 DEF Patient!Parse
    <3> QED
      BY <1>1, <2>1, <3>1 DEF PatientInv, GatheringInv
  <2>2. CASE ~busy["usb"]
    <3>1. PushEffect(push, r, 0, L, m)
      <4>1. RxContext(r) /\ ~r.complete /\ (r.active => Carries(r, L, m))
        BY <2>2 DEF PatientInv, GatheringInv
      <4> HIDE DEF L, m, p, r
      <4>2. PushEffect(push, r, p.transfer_id, L, m)
        BY <1>3, <1>4, <4>1, PushCarries
      <4> HIDE DEF push
      <4> QED
        BY <1>4, <4>2
    <3>2. /\ DOMAIN rx = {"usb"} /\ DOMAIN busy = {"usb"} /\ DOMAIN response = {"usb"}
          /\ DOMAIN answers = {"usb"} /\ works = << >> /\ answers["usb"] = None
          /\ busy["usb"] \in BOOLEAN
          /\ RxContext(r) /\ ~r.complete /\ (r.active => Carries(r, L, m))
      BY <2>2 DEF PatientInv, GatheringInv
    <3>3. CASE push.res # "COMPLETE"
      <4>1. rx' = [rx EXCEPT !["usb"] = push.rx] /\ UNCHANGED <<busy, response, works>>
        BY <1>1, <2>2, <3>3, SamePatientProtocol DEF Patient!Parse
      <4> HIDE DEF push
      <4>2. rx'["usb"] = push.rx /\ DOMAIN rx' = {"usb"}
        BY <3>2, <4>1
      <4>3. /\ RxContext(push.rx) /\ ~push.rx.complete
            /\ push.rx.active => Carries(push.rx, L, m)
        BY <3>1, <3>2, <3>3 DEF PushEffect
      <4>4. host'["pc"].does # "rests" /\ host'["pc"].tx.data = m
        BY <1>5, <1>6
      <4>5. rx'["usb"].active =>
              Carries(rx'["usb"], Cardinality(DOMAIN host'["pc"].tx.data), host'["pc"].tx.data)
        BY <4>2, <4>3, <4>4
      <4> HIDE DEF m, L, p, r
      <4> QED
        BY <1>1, <2>2, <3>2, <4>1, <4>2, <4>3, <4>4, <4>5 DEF GatheringInv
    <3>4. CASE push.res = "COMPLETE"
      <4>1. Patient!RequestComplete("usb", push.rx)
        BY <1>1, <2>2, <3>4, SamePatientProtocol DEF Patient!Parse
      <4> HIDE DEF push
      <4>0. works' = <<"usb">>
        BY <3>2, <4>1 DEF Patient!RequestComplete, Patient!Submit
      <4>2. /\ rx' = [rx EXCEPT !["usb"] = push.rx] /\ busy' = [busy EXCEPT !["usb"] = TRUE]
            /\ response' = [response EXCEPT
                  !["usb"] = IF push.rx.buffer[0] \in Known THEN push.rx.buffer[0] ELSE "ERROR"]
        BY <4>1 DEF Patient!RequestComplete, Patient!Type, Patient!Known, Known
      <4>3. /\ rx'["usb"] = push.rx /\ DOMAIN rx' = {"usb"} /\ busy'["usb"] = TRUE
            /\ DOMAIN busy' = {"usb"} /\ DOMAIN response' = {"usb"}
            /\ response'["usb"] = IF push.rx.buffer[0] \in Known THEN push.rx.buffer[0] ELSE "ERROR"
        BY <3>2, <4>2
      <4>4. RxContext(push.rx) /\ \A i \in 0 .. L - 1 : push.rx.buffer[i] = m[i]
        BY <3>1, <3>2, <3>4 DEF PushEffect
      <4>5. Holds(push.rx.buffer, m) /\ response'["usb"] = Asks(m)
        BY <1>3, <4>3, <4>4 DEF Holds, Asks
      <4> QED
        BY <1>1, <1>2, <3>2, <4>0, <4>3, <4>4, <4>5 DEF GatheringInv
    <3> QED
      BY <3>3, <3>4
  <2> QED
    BY <2>1, <2>2
<1> QED
  BY <1>1, <1>7, <1>8 DEF PatientInv, Whole

(* Only a request that is whole is performed: what it sets is what it        *)
(* carried.                                                                  *)
LEMMA PatientStarts ==
    ASSUME PatientInv, NEW ok \in BOOLEAN, Patient!StartResponse("usb", ok)
    PROVE  PatientInv'
<1>1. /\ works # << >> /\ works' = Tail(works) /\ Patient!Effect("usb", ok)
      /\ UNCHANGED <<rx, busy, response, host>>
      /\ \E a : answers' = [answers EXCEPT !["usb"] = a]
  BY DEF Patient!StartResponse
<1>2. busy["usb"] /\ DOMAIN answers' = {"usb"} /\ works' = << >>
  <2>1. busy["usb"] /\ works = <<"usb">> /\ DOMAIN answers = {"usb"}
    BY <1>1 DEF PatientInv, GatheringInv
  <2>2. Tail(<<"usb">>) = << >>
    OBVIOUS
  <2> QED
    BY <1>1, <2>1, <2>2
<1>3. PICK m \in AllRequests : Holds(rx["usb"].buffer, m) /\ response["usb"] = Asks(m)
  BY <1>2 DEF PatientInv, GatheringInv
<1>4. DOMAIN settings' = 0 .. SettingsSize - 1 /\ Whole(settings')
  <2>1. CASE response["usb"] = "SET_SETTINGS"
    <3>1. m[0] = "SET_SETTINGS"
      BY <1>3, <2>1 DEF Asks
    <3>2. /\ Cardinality(DOMAIN m) = SettingsSize + 1 /\ SettingsSize \in Nat
          /\ \A i, j \in 0 .. SettingsSize - 1 : m[i + 1] = m[j + 1]
      BY <3>1, RequestFacts, VendorHidAssumption
    <3>3. \A i \in 0 .. SettingsSize - 1 : rx["usb"].buffer[i + 1] = m[i + 1]
      BY <1>3, <3>2 DEF Holds
    <3>4. \/ settings' = settings
          \/ settings' = [i \in 0 .. SettingsSize - 1 |-> rx["usb"].buffer[i + 1]]
      BY <1>1 DEF Patient!Effect, Patient!SettingsOf, Patient!Body
    <3> QED
      BY <3>2, <3>3, <3>4 DEF PatientInv, Whole
  <2>2. CASE response["usb"] # "SET_SETTINGS"
    <3>1. settings' = settings
      BY <1>1, <2>2 DEF Patient!Effect
    <3> QED
      BY <3>1 DEF PatientInv, Whole
  <2> QED
    BY <2>1, <2>2
<1>5. GatheringInv'
  BY <1>1, <1>2 DEF PatientInv, GatheringInv
<1>6. ConfiguratorInv'
  BY <1>1 DEF PatientInv, ConfiguratorInv
<1> QED
  BY <1>4, <1>5, <1>6 DEF PatientInv

(* The configurator hears the end of an answer while the context is busy.    *)
LEMMA PatientSendsOn ==
    ASSUME PatientInv, Patient!SendPacket("usb") \/ Patient!SendFails("usb")
    PROVE  PatientInv'
<1>1. /\ answers["usb"] # None /\ UNCHANGED <<rx, busy, response, works, settings>>
      /\ \E a : answers' = [answers EXCEPT !["usb"].tx = a]
  BY DEF Patient!SendPacket, Patient!SendFails, Patient!SendsOn
<1>2. busy["usb"] /\ DOMAIN answers' = {"usb"}
  BY <1>1 DEF PatientInv, GatheringInv
<1>3. \/ host' = host
      \/ host' = [h \in {"pc"} |-> host[h]]
      \/ host' = [h \in {"pc"} |-> [host[h] EXCEPT !.does = "rests", !.tx = None]]
  BY DEF Patient!SendPacket, Patient!SendFails, Patient!Heard
<1>4. ConfiguratorInv'
  <2>1. CASE host'["pc"] = host["pc"] /\ DOMAIN host' = {"pc"}
    BY <2>1 DEF PatientInv, ConfiguratorInv
  <2>2. CASE /\ host' = [h \in {"pc"} |-> [host[h] EXCEPT !.does = "rests", !.tx = None]]
    <3>1. host'["pc"] = [does |-> "rests", tx |-> None, requests |-> host["pc"].requests]
      BY <2>2 DEF PatientInv, ConfiguratorInv
    <3> QED
      BY <2>2, <3>1 DEF ConfiguratorInv
  <2> QED
    BY <1>3, <2>1, <2>2 DEF PatientInv, ConfiguratorInv
<1>5. GatheringInv'
  BY <1>1, <1>2 DEF PatientInv, GatheringInv
<1> QED
  BY <1>1, <1>4, <1>5 DEF PatientInv, Whole

(* When the work ends, the context is made ready for the next request.       *)
LEMMA PatientFinishes ==
    ASSUME PatientInv, Patient!FinishResponse("usb")
    PROVE  PatientInv'
<1>1. /\ answers["usb"] # None /\ answers' = [answers EXCEPT !["usb"] = None]
      /\ rx' = [rx EXCEPT !["usb"] = RxReset(@)]
      /\ busy' = [busy EXCEPT !["usb"] = FALSE]
      /\ UNCHANGED <<response, works, settings, host>>
  BY SamePatientProtocol DEF Patient!FinishResponse
<1>2. /\ rx'["usb"] = RxReset(rx["usb"]) /\ answers'["usb"] = None /\ busy'["usb"] = FALSE
      /\ {DOMAIN rx', DOMAIN busy', DOMAIN response', DOMAIN answers'} = {{"usb"}}
      /\ works' = << >>
  BY <1>1 DEF PatientInv, GatheringInv
<1>3. RxContext(rx'["usb"]) /\ ~rx'["usb"].active /\ ~rx'["usb"].complete
  BY <1>2, ResetContext DEF PatientInv, GatheringInv
<1>4. GatheringInv'
  BY <1>2, <1>3 DEF GatheringInv
<1>5. ConfiguratorInv'
  BY <1>1 DEF PatientInv, ConfiguratorInv
<1> QED
  BY <1>1, <1>4, <1>5 DEF PatientInv, Whole

(* Every step of the patient part keeps this.                                *)
LEMMA PatientStep ==
    ASSUME PatientInv, Patient!Next
    PROVE  PatientInv'
<1>1. ~Patient!HostRestarts("pc")
  BY DEF Patient!HostRestarts
<1>2. \/ \E m \in AllRequests : Patient!HostStarts("pc", m)
      \/ Patient!HostSends("pc")
      \/ \E ok \in BOOLEAN : Patient!StartResponse("usb", ok)
      \/ Patient!SendPacket("usb") \/ Patient!SendFails("usb")
      \/ Patient!FinishResponse("usb")
  BY <1>1 DEF Patient!Next, Patient!Works
<1> QED
  BY <1>2, PatientHostStarts, PatientHostSends, PatientStarts, PatientSendsOn, PatientFinishes

(* As long as the patient configurator has its part.                         *)
PatientPart == part = "patient" => PatientInv

(* A configurator that is not closed within a request changes the settings   *)
(* to what one request carried, never to the beginning of one and the end of *)
(* another (vendor_hid_protocol_parse, response_work_handler).               *)
THEOREM SettingsComeWhole == MCSpec => []SettingsStayWhole
<1>1. MCInit => PatientPart
  BY PatientInit DEF MCInit, PatientPart
<1>2. ASSUME PatientPart, [MCNext]_MCVars PROVE PatientPart'
  <2>1. part' = part
    BY <1>2 DEF MCNext, MCVars
  <2>2. CASE part # "patient"
    BY <2>1, <2>2 DEF PatientPart
  <2>3. CASE part = "patient" /\ Patient!Next
    BY <1>2, <2>3, PatientStep DEF PatientPart
  <2>4. CASE part = "patient" /\ UNCHANGED MCVars
    <3>1. UNCHANGED <<rx, busy, response, works, answers, settings, host>>
      BY <2>4 DEF MCVars, vars
    <3> QED
      BY <1>2, <2>4, <3>1 DEF PatientPart, PatientInv, ConfiguratorInv, GatheringInv, Whole
  <2> QED
    BY <1>2, <2>2, <2>3, <2>4 DEF MCNext
<1>3. PatientPart => SettingsStayWhole
  BY DEF PatientPart, PatientInv, Whole, SettingsStayWhole, Patient!SettingsAreWhole
<1> QED
  BY <1>1, <1>2, <1>3, PTL DEF MCSpec
=============================================================================
