--------------------------- MODULE YkbProtocolProofs ---------------------------
(***************************************************************************)
(* What the framing does, for every size of packet and any transfer that   *)
(* sixteen bits can count: how a payload is cut into packets, that a       *)
(* context sends the packets of its payload in order, and that a receive   *)
(* context carries what it was sent.  Whoever sends over the protocol,     *)
(* SplitLink or a configurator, is proved about from these lemmas.         *)
(***************************************************************************)
EXTENDS YkbProtocol, FiniteSetTheorems, TLAPS

(* Cutting a payload.                                                      *)

(* The bytes of k packets that are full.                                    *)
Times(k) == k * MaxPayload

LEMMA TimesNext ==
    ASSUME NEW j \in Int
    PROVE  /\ Times(j) \in Int /\ Times(0) = 0
           /\ Times(j + 1) = Times(j) + MaxPayload
           /\ Times(j - 1) = Times(j) - MaxPayload
           /\ j >= 0 => Times(j) >= j
<1> USE MaxPayloadAssumption
<1>1. /\ Times(j) \in Int /\ Times(0) = 0
      /\ Times(j + 1) = Times(j) + MaxPayload /\ Times(j - 1) = Times(j) - MaxPayload
  BY DEF Times
<1>2. ASSUME j >= 0 PROVE Times(j) >= j
  <2>1. j * (MaxPayload - 1) >= 0
    BY <1>2
  <2>2. j * MaxPayload = j * (MaxPayload - 1) + j
    OBVIOUS
  <2> QED
    BY <2>1, <2>2 DEF Times
<1> QED
  BY <1>1, <1>2

LEMMA TimesGrows ==
    ASSUME NEW j \in Int, NEW k \in Int, j <= k
    PROVE  Times(j) <= Times(k)
<1> USE MaxPayloadAssumption
<1>1. (k - j) \in Nat /\ (k - j) * MaxPayload >= 0
  OBVIOUS
<1>2. k * MaxPayload = j * MaxPayload + (k - j) * MaxPayload
  OBVIOUS
<1> QED
  BY <1>1, <1>2 DEF Times

LEMMA Quotient ==
    ASSUME NEW x \in Nat
    PROVE  /\ x \div MaxPayload \in Nat
           /\ Times(x \div MaxPayload) <= x
           /\ x < Times((x \div MaxPayload) + 1)
BY MaxPayloadAssumption DEF Times

(* What fits sixteen bits is kept.                                           *)
LEMMA SmallModulo ==
    ASSUME NEW x \in Int, 0 <= x, x < U16
    PROVE  x % U16 = x
BY DEF U16

(* The packets of a transfer hold its bytes, and one packet fewer does not.  *)
LEMMA CountFacts ==
    ASSUME NEW L \in 0 .. U16 - 1
    PROVE  LET c == CalcPacketCount(L)
           IN  /\ c \in 1 .. U16 - 1 /\ c \in Nat
               /\ L <= Times(c)
               /\ (L = 0 /\ c = 1) \/ Times(c - 1) < L
               /\ L \in Nat /\ L < U16 /\ U16 \in Nat
<1> USE MaxPayloadAssumption
<1>0. L \in Nat /\ L < U16 /\ U16 \in Nat /\ U16 > 1
  BY DEF U16
<1> DEFINE q == (L + MaxPayload - 1) \div MaxPayload
<1>1. CASE L = 0
  <2>1. Times(1) = Times(0) + MaxPayload /\ Times(0) = 0
    BY TimesNext, TimesGrows
  <2> QED
    BY <1>0, <1>1, <2>1 DEF CalcPacketCount
<1>2. CASE L > 0
  <2>1. q \in Nat /\ Times(q) <= L + MaxPayload - 1 /\ L + MaxPayload - 1 < Times(q + 1)
    <3>1. PICK x \in Nat : x = L + MaxPayload - 1
      BY <1>0, <1>2
    <3>2. /\ x \div MaxPayload \in Nat /\ Times(x \div MaxPayload) <= x
          /\ x < Times((x \div MaxPayload) + 1)
      BY Quotient
    <3> QED
      BY <3>1, <3>2
  <2>2. CalcPacketCount(L) = q % U16
    BY <1>2 DEF CalcPacketCount
  <2> HIDE DEF q
  <2>3. /\ Times(q) \in Int /\ Times(q + 1) = Times(q) + MaxPayload
        /\ Times(q - 1) = Times(q) - MaxPayload
    BY <2>1, TimesNext, TimesGrows
  <2>4. L <= Times(q) /\ Times(q - 1) < L
    BY <2>1, <2>3, MaxPayloadAssumption
  <2>5. q >= 1
    <3>1. q = 0 => Times(q) = 0
      BY TimesNext, TimesGrows
    <3> QED
      BY <1>2, <2>1, <2>4, <3>1
  <2>6. Times(q - 1) >= q - 1
    BY <2>1, <2>5, TimesNext
  <2>7. q < U16
    BY <1>0, <2>1, <2>3, <2>4, <2>6
  <2> QED
    BY <1>0, <2>1, <2>2, <2>4, <2>5, <2>7, SmallModulo
<1> QED
  BY <1>0, <1>1, <1>2

(* The bytes of packet k of a transfer of L bytes. *)
Length(L, k) == PayloadLenForIndex(L, k, CalcPacketCount(L))
Chunk(L, k) == PacketOffset(k) .. PacketOffset(k) + Length(L, k) - 1

(* A packet lies within its transfer, where the one before it ends.          *)
LEMMA ChunkFacts ==
    ASSUME NEW L \in 0 .. U16 - 1, NEW k \in 0 .. CalcPacketCount(L) - 1
    PROVE  /\ PacketOffset(k) = Times(k) /\ Times(k) \in Nat
           /\ Length(L, k) \in Nat /\ Times(k) + Length(L, k) <= L
           /\ Length(L, k) = IF k = CalcPacketCount(L) - 1 THEN L - Times(k) ELSE MaxPayload
<1> USE MaxPayloadAssumption
<1>0. L \in Nat /\ L < U16 /\ U16 \in Nat /\ U16 > 1
  BY DEF U16
<1> DEFINE c == CalcPacketCount(L)
<1>1. /\ c \in 1 .. U16 - 1 /\ L <= Times(c)
      /\ (L = 0 /\ c = 1) \/ Times(c - 1) < L
  BY CountFacts
<1> HIDE DEF c
<1>2. k \in 0 .. c - 1
  BY DEF c
<1>3. /\ Times(k) \in Int /\ Times(k + 1) \in Int /\ Times(c - 1) \in Int /\ Times(c) \in Int
      /\ Times(k + 1) = Times(k) + MaxPayload /\ Times(c - 1) = Times(c) - MaxPayload
      /\ Times(k) <= Times(c - 1) /\ Times(0) <= Times(k) /\ Times(0) = 0
      /\ k < c - 1 => Times(k + 1) <= Times(c - 1)
  BY <1>1, <1>2, TimesNext, TimesGrows
<1>4. (c = 1 /\ k = 0 /\ Times(c - 1) = 0 /\ Times(k) = 0) \/ (c > 1 /\ L > 0)
  BY <1>1, <1>2, <1>3
<1>5. 0 <= Times(k) /\ Times(k) <= Times(c - 1) /\ Times(c - 1) <= L
  BY <1>1, <1>3, <1>4
<1>6. PacketOffset(k) = Times(k)
  <2>1. Times(k) % U16 = Times(k)
    BY <1>0, <1>3, <1>5, SmallModulo
  <2> QED
    BY <2>1 DEF PacketOffset, Times
<1>7. Length(L, k) = IF k = c - 1 THEN L - Times(k) ELSE MaxPayload
  <2>1. Times(c - 1) % U16 = Times(c - 1) /\ (L - Times(c - 1)) % U16 = L - Times(c - 1)
    BY <1>0, <1>3, <1>5, SmallModulo
  <2>2. ((c - 1) * MaxPayload) % U16 = Times(c - 1)
    BY <2>1 DEF Times
  <2>3. CASE c = 1
    BY <1>1, <1>2, <1>3, <1>4, <2>3 DEF Length, PayloadLenForIndex, c
  <2>4. CASE c > 1
    BY <1>1, <1>2, <1>4, <2>1, <2>2, <2>4 DEF Length, PayloadLenForIndex, c
  <2> QED
    BY <1>1, <2>3, <2>4
<1>8. Length(L, k) \in Nat /\ Times(k) + Length(L, k) <= L
  BY <1>0, <1>1, <1>2, <1>3, <1>5, <1>7
<1> QED
  BY <1>3, <1>5, <1>6, <1>7, <1>8 DEF c

(* Every byte of a transfer is in one of its packets.                        *)
LEMMA ChunksCover ==
    ASSUME NEW L \in 0 .. U16 - 1, NEW i \in 0 .. L - 1
    PROVE  \E k \in 0 .. CalcPacketCount(L) - 1 : i \in Chunk(L, k)
<1> USE MaxPayloadAssumption
<1>0. L \in Nat /\ L < U16 /\ U16 \in Nat /\ U16 > 1
  BY DEF U16
<1> DEFINE c == CalcPacketCount(L)
           k == i \div MaxPayload
<1>1. k \in Nat /\ Times(k) <= i /\ i < Times(k + 1)
  <2>1. i \in Nat
    BY <1>0
  <2> QED
    BY <2>1, Quotient
<1>2. c \in 1 .. U16 - 1 /\ L <= Times(c)
  BY CountFacts
<1> HIDE DEF c, k
<1>3. k \in 0 .. c - 1
  <2>1. k >= c => Times(c) <= Times(k)
    BY <1>1, <1>2, TimesNext, TimesGrows
  <2>2. Times(c) \in Int /\ Times(k) \in Int
    BY <1>1, <1>2, TimesNext, TimesGrows
  <2> QED
    BY <1>1, <1>2, <2>1, <2>2
<1>4. /\ PacketOffset(k) = Times(k) /\ Times(k) \in Nat
      /\ Length(L, k) = IF k = c - 1 THEN L - Times(k) ELSE MaxPayload
      /\ Times(k + 1) = Times(k) + MaxPayload
  BY <1>1, <1>3, ChunkFacts, TimesNext, TimesGrows DEF c
<1>5. i \in Chunk(L, k)
  BY <1>1, <1>4, MaxPayloadAssumption DEF Chunk
<1> QED
  BY <1>3, <1>5 DEF c

(* The packets of a transfer do not overlap.                                 *)
LEMMA ChunksApart ==
    ASSUME NEW L \in 0 .. U16 - 1, NEW k \in 0 .. CalcPacketCount(L) - 1,
           NEW m \in 0 .. CalcPacketCount(L) - 1, k # m
    PROVE  /\ \A i \in Chunk(L, k) : i \notin Chunk(L, m)
           /\ Chunk(L, k) \subseteq 0 .. L - 1
<1> USE MaxPayloadAssumption
<1> DEFINE c == CalcPacketCount(L)
<1>0. c \in Nat /\ L \in Nat
  BY CountFacts
<1>1. ASSUME NEW x \in 0 .. c - 1, NEW y \in 0 .. c - 1, x < y
      PROVE  Chunk(L, x) = Times(x) .. Times(x) + MaxPayload - 1 /\ Times(x) + MaxPayload <= Times(y)
  <2>1. PacketOffset(x) = Times(x) /\ Length(L, x) = MaxPayload
    BY <1>0, <1>1, ChunkFacts
  <2>2. Times(x + 1) = Times(x) + MaxPayload /\ Times(x + 1) <= Times(y)
    BY <1>0, <1>1, TimesNext, TimesGrows
  <2> QED
    BY <2>1, <2>2 DEF Chunk
<1>2. /\ Chunk(L, k) = Times(k) .. Times(k) + Length(L, k) - 1
      /\ Chunk(L, m) = Times(m) .. Times(m) + Length(L, m) - 1
      /\ Times(k) \in Nat /\ Times(m) \in Nat /\ Length(L, k) \in Nat /\ Length(L, m) \in Nat
      /\ Times(k) + Length(L, k) <= L
  BY ChunkFacts DEF Chunk
<1> HIDE DEF c
<1>3. Chunk(L, k) \subseteq 0 .. L - 1
  BY <1>0, <1>2
<1>4. CASE k < m
  <2>1. Chunk(L, k) = Times(k) .. Times(k) + MaxPayload - 1 /\ Times(k) + MaxPayload <= Times(m)
    BY <1>1, <1>4 DEF c
  <2>2. ASSUME NEW i \in Chunk(L, k)
        PROVE  i \in Int /\ i < Times(m)
    BY <1>2, <2>1, <2>2
  <2>3. ASSUME NEW i \in Chunk(L, m)
        PROVE  i \in Int /\ i >= Times(m)
    BY <1>2, <2>3
  <2>4. \A i \in Chunk(L, k) : i \notin Chunk(L, m)
    BY <1>2, <2>2, <2>3
  <2> QED
    BY <1>3, <2>4
<1>5. CASE m < k
  <2>1. Chunk(L, m) = Times(m) .. Times(m) + MaxPayload - 1 /\ Times(m) + MaxPayload <= Times(k)
    BY <1>1, <1>5 DEF c
  <2>2. ASSUME NEW i \in Chunk(L, m)
        PROVE  i \in Int /\ i < Times(k)
    BY <1>2, <2>1, <2>2
  <2>3. ASSUME NEW i \in Chunk(L, k)
        PROVE  i \in Int /\ i >= Times(k)
    BY <1>2, <2>3
  <2>4. \A i \in Chunk(L, k) : i \notin Chunk(L, m)
    BY <1>2, <2>2, <2>3
  <2> QED
    BY <1>3, <2>4
<1>6. k < m \/ m < k
  BY <1>0 DEF c
<1> QED
  BY <1>4, <1>5, <1>6

-----------------------------------------------------------------------------
(* A receive context, the packets it has stored of the transfer in progress, *)
(* and what it means that these hold the data of the transfer.               *)
RxFields == {"buffer", "capacity", "out_of_order", "bitmap", "active", "complete",
             "transfer_id", "total_len", "received_bytes", "packet_count",
             "received_count", "next_expected", "received"}

RxContext(r) ==
    /\ DOMAIN r = RxFields
    /\ r.capacity \in Nat /\ DOMAIN r.buffer = 0 .. r.capacity - 1

Stored(r) == IF r.out_of_order THEN r.received ELSE 0 .. r.next_expected - 1

Carries(r, L, d) ==
    /\ r.total_len = L /\ r.packet_count = CalcPacketCount(L)
    /\ r.out_of_order \/ r.next_expected \in Nat
    /\ Stored(r) \subseteq 0 .. r.packet_count - 1
    /\ r.received_count = Cardinality(Stored(r))
    /\ r.received_bytes = Times(r.received_count)
         - (IF r.packet_count - 1 \in Stored(r) THEN Times(r.packet_count) - L ELSE 0)
    /\ \A k \in Stored(r) : \A i \in Chunk(L, k) : i \in DOMAIN r.buffer /\ r.buffer[i] = d[i]

PartOf(p, L, d) ==
    /\ p.total_len = L /\ p.packet_count = CalcPacketCount(L)
    /\ p.packet_idx \in 0 .. p.packet_count - 1
    /\ \A j \in 0 .. Length(L, p.packet_idx) - 1 :
          p.payload[j] = d[PacketOffset(p.packet_idx) + j]

(* What a reset leaves of a context.                                         *)
LEMMA ResetContext ==
    ASSUME NEW r, RxContext(r)
    PROVE  /\ RxContext(RxReset(r)) /\ ~RxReset(r).active /\ ~RxReset(r).complete
           /\ RxReset(r).buffer = r.buffer /\ RxReset(r).capacity = r.capacity
           /\ RxReset(r).out_of_order = r.out_of_order /\ RxReset(r).total_len = 0
BY DEF RxReset, RxContext, RxFields

(* A context that begins a transfer carries nothing of it yet.               *)
LEMMA BeginCarries ==
    ASSUME NEW r, RxContext(r), NEW L \in 0 .. U16 - 1, NEW d, NEW p, PartOf(p, L, d)
    PROVE  LET b == RxBeginTransfer(r, p)
           IN  /\ RxContext(b) /\ Carries(b, L, d) /\ Stored(b) = {}
               /\ b.active /\ ~b.complete /\ b.transfer_id = p.transfer_id
               /\ b.buffer = r.buffer /\ b.capacity = r.capacity
               /\ b.out_of_order = r.out_of_order
<1> DEFINE b == RxBeginTransfer(r, p)
<1> DEFINE e == RxReset(r)
<1>0. /\ DOMAIN e = RxFields /\ e.received = {} /\ e.next_expected = 0 /\ e.received_count = 0
      /\ e.received_bytes = 0 /\ e.buffer = r.buffer /\ e.capacity = r.capacity
      /\ e.out_of_order = r.out_of_order /\ ~e.complete
  BY DEF RxReset, RxContext, RxFields
<1>1. /\ DOMAIN b = RxFields /\ b.received = {} /\ b.next_expected = 0 /\ b.received_count = 0
      /\ b.received_bytes = 0 /\ b.buffer = r.buffer /\ b.capacity = r.capacity
      /\ b.out_of_order = r.out_of_order /\ ~b.complete /\ b.active
      /\ b.transfer_id = p.transfer_id /\ b.total_len = L
      /\ b.packet_count = CalcPacketCount(L)
  <2>1. b = [e EXCEPT !.active = TRUE, !.transfer_id = p.transfer_id,
                      !.total_len = p.total_len, !.packet_count = p.packet_count]
    BY DEF RxBeginTransfer
  <2> HIDE DEF b, e
  <2> QED
    BY <1>0, <2>1 DEF PartOf, RxFields
<1> HIDE DEF b
<1>2. Stored(b) = {}
  BY <1>1 DEF Stored
<1>3. Cardinality({}) = 0 /\ Times(0) = 0
  BY FS_EmptySet, TimesNext
<1>4. Carries(b, L, d)
  BY <1>1, <1>2, <1>3 DEF Carries
<1>5. RxContext(b)
  BY <1>1 DEF RxContext
<1> QED
  BY <1>1, <1>2, <1>4, <1>5 DEF b

(* A packet not stored before is one more, and the last one makes them all.  *)
LEMMA StoredGrows ==
    ASSUME NEW c \in Nat, NEW S \in SUBSET (0 .. c - 1), NEW k \in 0 .. c - 1, k \notin S
    PROVE  /\ Cardinality(S \cup {k}) = Cardinality(S) + 1 /\ Cardinality(S) \in Nat
           /\ Cardinality(S) + 1 <= c
           /\ c - 1 \notin S \cup {k} => Cardinality(S) + 1 <= c - 1
           /\ Cardinality(S) + 1 = c => S \cup {k} = 0 .. c - 1
<1>1. IsFiniteSet(0 .. c - 1) /\ Cardinality(0 .. c - 1) = c
  BY FS_Interval
<1>2. IsFiniteSet(S) /\ Cardinality(S) \in Nat
  BY <1>1, FS_Subset, FS_CardinalityType
<1>3. Cardinality(S \cup {k}) = Cardinality(S) + 1
  BY <1>2, FS_AddElement
<1>4. S \cup {k} \subseteq 0 .. c - 1
  OBVIOUS
<1>5. /\ Cardinality(S \cup {k}) <= c
      /\ Cardinality(S \cup {k}) = c => S \cup {k} = 0 .. c - 1
  BY <1>1, <1>4, FS_Subset
<1>6. ASSUME c - 1 \notin S \cup {k} PROVE Cardinality(S) + 1 <= c - 1
  <2>1. S \cup {k} # 0 .. c - 1
    BY <1>6
  <2> QED
    BY <1>2, <1>3, <1>5, <2>1
<1> QED
  BY <1>2, <1>3, <1>5, <1>6

(* What storing n bytes of a packet does to a context. *)
StoreEffect(s, r, p, n) ==
    LET offset == PacketOffset(p.packet_idx)
    IN  /\ RxContext(s) /\ s.capacity = r.capacity /\ s.out_of_order = r.out_of_order
        /\ s.active = r.active /\ s.complete = r.complete
        /\ s.transfer_id = r.transfer_id /\ s.total_len = r.total_len
        /\ s.packet_count = r.packet_count
        /\ DOMAIN s.buffer = DOMAIN r.buffer
        /\ \A i \in DOMAIN r.buffer :
              s.buffer[i] = IF i \in offset .. offset + n - 1
                            THEN p.payload[i - offset] ELSE r.buffer[i]
        /\ s.received_bytes = (r.received_bytes + n) % U16
        /\ s.received_count = (r.received_count + 1) % U16
        /\ s.received = IF r.out_of_order THEN r.received \cup {p.packet_idx} ELSE r.received
        /\ s.next_expected = IF r.out_of_order THEN r.next_expected
                             ELSE (r.next_expected + 1) % U16

(* A packet stored changes these fields.                                     *)
LEMMA StoreFields ==
    ASSUME NEW r, RxContext(r), NEW p, NEW n
    PROVE  StoreEffect(RxStore(r, p, n), r, p, n)
<1> DEFINE offset == PacketOffset(p.packet_idx)
           buffer == [i \in DOMAIN r.buffer |->
                        IF i \in offset .. offset + n - 1
                        THEN p.payload[i - offset] ELSE r.buffer[i]]
           bytes == (r.received_bytes + n) % U16
           count == (r.received_count + 1) % U16
           got == IF r.out_of_order THEN r.received \cup {p.packet_idx} ELSE r.received
           next == IF r.out_of_order THEN r.next_expected ELSE (r.next_expected + 1) % U16
<1>1. RxStore(r, p, n) =
        [r EXCEPT !.buffer = buffer, !.received_bytes = bytes, !.received_count = count,
                  !.received = got, !.next_expected = next]
  BY DEF RxStore
<1>2. DOMAIN buffer = DOMAIN r.buffer
  OBVIOUS
<1> HIDE DEF buffer, bytes, count, got, next
<1> DEFINE s == RxStore(r, p, n)
<1>3. /\ DOMAIN s = RxFields /\ s.capacity = r.capacity /\ s.out_of_order = r.out_of_order
      /\ s.active = r.active /\ s.complete = r.complete
      /\ s.transfer_id = r.transfer_id /\ s.total_len = r.total_len
      /\ s.packet_count = r.packet_count /\ s.buffer = buffer /\ s.received_bytes = bytes
      /\ s.received_count = count /\ s.received = got /\ s.next_expected = next
  BY <1>1 DEF RxContext, RxFields
<1> HIDE DEF s
<1>4. RxContext(s)
  BY <1>2, <1>3 DEF RxContext
<1>5. StoreEffect(s, r, p, n)
  BY <1>3, <1>4 DEF StoreEffect, buffer, bytes, count, got, next
<1> QED
  BY <1>5 DEF s

(* A packet that is stored in its turn is added to the data of the transfer, *)
(* and nothing is written behind their end.                                  *)
LEMMA StoreCarries ==
    ASSUME NEW L \in 0 .. U16 - 1, NEW d, NEW r, RxContext(r), Carries(r, L, d),
           NEW p, PartOf(p, L, d), p.packet_idx \notin Stored(r),
           r.out_of_order \/ p.packet_idx = r.next_expected,
           PacketOffset(p.packet_idx) + Length(L, p.packet_idx) <= r.capacity
    PROVE  LET s == RxStore(r, p, Length(L, p.packet_idx))
           IN  /\ Carries(s, L, d)
               /\ \A i \in DOMAIN r.buffer : i >= L => s.buffer[i] = r.buffer[i]
               /\ s.received_count = s.packet_count => s.received_bytes = L
<1> DEFINE k == p.packet_idx
           n == Length(L, k)
           c == CalcPacketCount(L)
           s == RxStore(r, p, n)
           offset == PacketOffset(k)
<1>1. /\ c \in 1 .. U16 - 1 /\ c \in Nat /\ L <= Times(c)
      /\ (L = 0 /\ c = 1) \/ Times(c - 1) < L
      /\ L \in Nat /\ L < U16 /\ U16 \in Nat
  BY CountFacts
<1>2. /\ k \in 0 .. c - 1
      /\ offset = Times(k) /\ Times(k) \in Nat /\ n \in Nat /\ Times(k) + n <= L
      /\ n = IF k = c - 1 THEN L - Times(k) ELSE MaxPayload
  BY ChunkFacts DEF PartOf
<1>3. /\ Stored(r) \in SUBSET (0 .. c - 1) /\ k \notin Stored(r)
      /\ r.received_count = Cardinality(Stored(r)) /\ r.packet_count = c
      /\ r.received_bytes = Times(r.received_count)
           - (IF c - 1 \in Stored(r) THEN Times(c) - L ELSE 0)
  BY DEF Carries
<1>4. /\ Cardinality(Stored(r) \cup {k}) = Cardinality(Stored(r)) + 1
      /\ Cardinality(Stored(r)) \in Nat /\ Cardinality(Stored(r)) + 1 <= c
      /\ c - 1 \notin Stored(r) \cup {k} => Cardinality(Stored(r)) + 1 <= c - 1
  <2> HIDE DEF c, k
  <2> QED
    BY <1>1, <1>2, <1>3, StoredGrows
<1>5. /\ s.out_of_order = r.out_of_order /\ s.total_len = r.total_len
      /\ s.packet_count = r.packet_count
      /\ DOMAIN s.buffer = DOMAIN r.buffer
      /\ \A i \in DOMAIN r.buffer :
            s.buffer[i] = IF i \in offset .. offset + n - 1
                          THEN p.payload[i - offset] ELSE r.buffer[i]
      /\ s.received_bytes = (r.received_bytes + n) % U16
      /\ s.received_count = (r.received_count + 1) % U16
      /\ s.received = IF r.out_of_order THEN r.received \cup {k} ELSE r.received
      /\ s.next_expected = IF r.out_of_order THEN r.next_expected
                           ELSE (r.next_expected + 1) % U16
  <2>1. StoreEffect(s, r, p, n)
    BY StoreFields
  <2> HIDE DEF n, s
  <2> QED
    BY <2>1 DEF StoreEffect
<1>6. DOMAIN r.buffer = 0 .. r.capacity - 1 /\ r.capacity \in Nat /\ offset + n <= r.capacity
  BY DEF RxContext
<1>7. /\ \A j \in 0 .. n - 1 : p.payload[j] = d[offset + j]
      /\ \A m \in Stored(r) : \A i \in Chunk(L, m) : i \in DOMAIN r.buffer /\ r.buffer[i] = d[i]
      /\ r.out_of_order \/ (r.next_expected \in Nat /\ k = r.next_expected)
      /\ r.total_len = L
  BY DEF PartOf, Carries
<1> HIDE DEF k, n, c, s, offset
<1>8. s.received_count = r.received_count + 1
  <2>1. (r.received_count + 1) % U16 = r.received_count + 1
    BY <1>1, <1>3, <1>4, SmallModulo
  <2> QED
    BY <1>5, <2>1
<1>9. Stored(s) = Stored(r) \cup {k} /\ (s.out_of_order \/ s.next_expected \in Nat)
  <2>1. CASE r.out_of_order
    BY <1>5, <2>1 DEF Stored
  <2>2. CASE ~r.out_of_order
    <3>1. (r.next_expected + 1) % U16 = r.next_expected + 1
      BY <1>1, <1>2, <1>7, <2>2, SmallModulo
    <3>2. Stored(s) = 0 .. k /\ Stored(r) = 0 .. k - 1 /\ k \in Nat /\ s.next_expected \in Nat
      BY <1>2, <1>5, <1>7, <2>2, <3>1 DEF Stored
    <3> QED
      BY <3>2
  <2> QED
    BY <2>1, <2>2
<1>10. /\ Times(r.received_count) \in Int /\ Times(r.received_count + 1) \in Int
       /\ Times(c) \in Int /\ Times(c - 1) = Times(c) - MaxPayload
       /\ Times(r.received_count + 1) = Times(r.received_count) + MaxPayload
       /\ Times(r.received_count + 1) <= Times(c)
       /\ r.received_count + 1 <= c - 1 => Times(r.received_count + 1) <= Times(c - 1)
       /\ Times(r.received_count) >= r.received_count
  <2>1. r.received_count \in Nat /\ r.received_count + 1 <= c /\ c \in Nat
    BY <1>1, <1>3, <1>4
  <2>3. Times(c) \in Int /\ Times(c - 1) = Times(c) - MaxPayload
    BY <2>1, TimesNext
  <2>4. PICK m \in Nat : m = r.received_count
    BY <2>1
  <2>5. /\ Times(m) \in Int /\ Times(m + 1) = Times(m) + MaxPayload /\ Times(m) >= m
        /\ Times(m + 1) \in Int
    BY <2>4, TimesNext
  <2>6. Times(m + 1) <= Times(c)
    BY <2>1, <2>4, TimesGrows
  <2>7. m + 1 <= c - 1 => Times(m + 1) <= Times(c - 1)
    BY <2>1, <2>4, TimesGrows
  <2> QED
    BY <2>3, <2>4, <2>5, <2>6, <2>7
<1>11. /\ r.received_bytes + n = Times(r.received_count + 1)
             - (IF c - 1 \in Stored(s) THEN Times(c) - L ELSE 0)
       /\ 0 <= r.received_bytes + n /\ r.received_bytes + n <= L
  <2>1. CASE k = c - 1
    BY <1>1, <1>2, <1>3, <1>4, <1>9, <1>10, <2>1, MaxPayloadAssumption
  <2>2. CASE k # c - 1 /\ c - 1 \in Stored(r)
    BY <1>1, <1>2, <1>3, <1>4, <1>9, <1>10, <2>2, MaxPayloadAssumption
  <2>3. CASE k # c - 1 /\ c - 1 \notin Stored(r)
    BY <1>1, <1>2, <1>3, <1>4, <1>9, <1>10, <2>3, MaxPayloadAssumption
  <2> QED
    BY <2>1, <2>2, <2>3
<1>12. s.received_bytes = r.received_bytes + n
  <2>1. (r.received_bytes + n) % U16 = r.received_bytes + n
    <3>1. r.received_bytes + n \in Int
      BY <1>1, <1>2, <1>3, <1>10
    <3> QED
      BY <1>1, <1>11, <3>1, SmallModulo
  <2> QED
    BY <1>5, <2>1
<1>13. \A m \in Stored(s) : \A i \in Chunk(L, m) : i \in DOMAIN s.buffer /\ s.buffer[i] = d[i]
  <2> SUFFICES ASSUME NEW m \in Stored(s), NEW i \in Chunk(L, m)
               PROVE  i \in DOMAIN r.buffer /\ s.buffer[i] = d[i]
    BY <1>5
  <2>1. CASE i \in offset .. offset + n - 1
    <3>1. offset \in Nat /\ n \in Nat
      BY <1>2
    <3>2. i - offset \in 0 .. n - 1 /\ offset + (i - offset) = i
      BY <2>1, <3>1
    <3>3. i \in DOMAIN r.buffer
      BY <1>6, <2>1, <3>1
    <3> QED
      BY <1>5, <1>7, <2>1, <3>2, <3>3
  <2>2. CASE i \notin offset .. offset + n - 1
    <3>1. m # k
      BY <2>2 DEF Chunk, offset, n
    <3>2. i \in DOMAIN r.buffer /\ r.buffer[i] = d[i]
      BY <1>7, <1>9, <3>1
    <3> QED
      BY <1>5, <2>2, <3>2
  <2> QED
    BY <2>1, <2>2
<1>14. Carries(s, L, d)
  <2>1. s.received_count = Cardinality(Stored(s))
    BY <1>3, <1>4, <1>8, <1>9
  <2>2. Stored(s) \subseteq 0 .. c - 1
    BY <1>2, <1>3, <1>9
  <2> QED
    BY <1>3, <1>5, <1>7, <1>8, <1>9, <1>11, <1>12, <1>13, <2>1, <2>2 DEF Carries, c
<1>15. \A i \in DOMAIN r.buffer : i >= L => s.buffer[i] = r.buffer[i]
  <2> SUFFICES ASSUME NEW i \in DOMAIN r.buffer, i >= L PROVE i \notin offset .. offset + n - 1
    BY <1>5
  <2> QED
    BY <1>1, <1>2, <1>6
<1>16. s.received_count = s.packet_count => s.received_bytes = L
  <2> SUFFICES ASSUME r.received_count + 1 = c PROVE s.received_bytes = L
    BY <1>3, <1>5, <1>8
  <2>1. c - 1 \in Stored(s)
    BY <1>1, <1>3, <1>4, <1>9
  <2> QED
    BY <1>1, <1>10, <1>11, <1>12, <2>1
<1> QED
  BY <1>14, <1>15, <1>16 DEF s, n, k

(* A transfer of which every packet is stored is whole.                      *)
LEMMA FullIsWhole ==
    ASSUME NEW L \in 0 .. U16 - 1, NEW d, NEW r, Carries(r, L, d),
           r.received_count = r.packet_count
    PROVE  \A i \in 0 .. L - 1 : r.buffer[i] = d[i]
<1> DEFINE c == CalcPacketCount(L)
<1>1. c \in Nat
  BY CountFacts
<1>2. Stored(r) \subseteq 0 .. c - 1 /\ Cardinality(Stored(r)) = c
  BY DEF Carries
<1>3. Stored(r) = 0 .. c - 1
  <2>1. IsFiniteSet(0 .. c - 1) /\ Cardinality(0 .. c - 1) = c
    <3> HIDE DEF c
    <3>1. IsFiniteSet(0 .. c - 1) /\ Cardinality(0 .. c - 1) = IF 0 > c - 1 THEN 0 ELSE (c - 1) - 0 + 1
      BY <1>1, FS_Interval
    <3> QED
      BY <1>1, <3>1
  <2> QED
    BY <1>2, <2>1, FS_Subset
<1> QED
  BY <1>3, ChunksCover DEF Carries

(* What a pushed packet of a transfer does: it is refused, or the context    *)
(* carries that transfer, and completes it only when it is whole.            *)
PushEffect(push, r, id, L, d) ==
    /\ RxContext(push.rx) /\ push.rx.out_of_order = r.out_of_order
    /\ \/ push.rx = r /\ push.res # "COMPLETE"
       \/ /\ push.rx.active /\ push.rx.transfer_id = id /\ Carries(push.rx, L, d)
          /\ push.res = "COMPLETE" <=> push.rx.complete
          /\ push.rx.complete => \A i \in 0 .. L - 1 : push.rx.buffer[i] = d[i]
          /\ push.res \in RxErrors => push.rx.buffer = r.buffer
          /\ \A i \in DOMAIN r.buffer : i >= L => push.rx.buffer[i] = r.buffer[i]

(* A packet that is refused completes nothing.                               *)
LEMMA Refused ==
    ASSUME NEW r, NEW p
    PROVE  Refusal(r, p) # "COMPLETE"
BY DEF Refusal, HeaderError, BeginError

(* To be complete changes nothing of what a context carries.                 *)
LEMMA CompleteContext ==
    ASSUME NEW s, RxContext(s)
    PROVE  LET f == [s EXCEPT !.complete = TRUE]
           IN  /\ RxContext(f) /\ f.complete /\ f.active = s.active
               /\ f.transfer_id = s.transfer_id /\ f.out_of_order = s.out_of_order
               /\ f.buffer = s.buffer /\ f.received_count = s.received_count
               /\ f.packet_count = s.packet_count
               /\ \A L, d : Carries(s, L, d) => Carries(f, L, d)
<1> DEFINE f == [s EXCEPT !.complete = TRUE]
<1>1. /\ DOMAIN f = RxFields /\ f.complete /\ f.active = s.active /\ f.capacity = s.capacity
      /\ f.transfer_id = s.transfer_id /\ f.out_of_order = s.out_of_order
      /\ f.buffer = s.buffer /\ f.received_count = s.received_count
      /\ f.packet_count = s.packet_count /\ f.total_len = s.total_len
      /\ f.next_expected = s.next_expected /\ f.received = s.received
      /\ f.received_bytes = s.received_bytes
  BY DEF RxContext, RxFields
<1> HIDE DEF f
<1>2. Stored(f) = Stored(s)
  BY <1>1 DEF Stored
<1>3. RxContext(f)
  BY <1>1 DEF RxContext
<1>4. ASSUME NEW L, NEW d, Carries(s, L, d) PROVE Carries(f, L, d)
  BY <1>1, <1>2, <1>4 DEF Carries
<1> QED
  BY <1>1, <1>3, <1>4 DEF f

(* So does every packet of a transfer, into a context that carries it or     *)
(* begins it.                                                                *)
LEMMA PushCarries ==
    ASSUME NEW L \in 0 .. U16 - 1, NEW d, NEW r, RxContext(r), ~r.complete,
           NEW p, PartOf(p, L, d),
           r.active /\ r.transfer_id = p.transfer_id => Carries(r, L, d)
    PROVE  PushEffect(RxPushPacket(r, p), r, p.transfer_id, L, d)
<1> DEFINE b == IF r.active THEN r ELSE RxBeginTransfer(r, p)
           k == p.packet_idx
           n == Length(L, k)
           stored == RxStore(b, p, n)
           push == RxPushPacket(r, p)
<1> SUFFICES PushEffect(push, r, p.transfer_id, L, d)
  OBVIOUS
<1>1. CASE Refusal(r, p) # "none"
  <2>1. push = [res |-> Refusal(r, p), rx |-> r]
    BY <1>1 DEF RxPushPacket
  <2> QED
    BY <2>1, Refused DEF PushEffect
<1>2. CASE Refusal(r, p) = "none"
  <2>1. /\ RxContext(b) /\ Carries(b, L, d) /\ b.active /\ ~b.complete
        /\ b.transfer_id = p.transfer_id /\ b.out_of_order = r.out_of_order
        /\ b.buffer = r.buffer
    <3>1. CASE r.active
      <4>1. r.transfer_id = p.transfer_id
        BY <1>2, <3>1 DEF Refusal, SameTransfer, HeaderError
      <4> QED
        BY <3>1, <4>1
    <3>2. CASE ~r.active
      BY <3>2, BeginCarries
    <3> QED
      BY <3>1, <3>2
  <2>2. /\ k \in 0 .. CalcPacketCount(L) - 1
        /\ PayloadLenForIndex(b.total_len, k, b.packet_count) = n
    BY <2>1 DEF PartOf, Carries, Length
  <2>3. push =
          IF ~b.out_of_order /\ k # b.next_expected THEN [res |-> "OUT_OF_ORDER", rx |-> b]
          ELSE IF AlreadyReceived(b, p) THEN [res |-> "DUPLICATE", rx |-> b]
          ELSE IF PacketOffset(k) + n > b.capacity THEN [res |-> "BUFFER_TOO_SMALL", rx |-> b]
          ELSE IF stored.received_count # stored.packet_count THEN [res |-> "ACCEPTED", rx |-> stored]
          ELSE IF stored.received_bytes # stored.total_len THEN [res |-> "BAD_TOTAL_LEN", rx |-> stored]
          ELSE [res |-> "COMPLETE", rx |-> [stored EXCEPT !.complete = TRUE]]
    <3> HIDE DEF b, n
    <3> QED
      BY <1>2, <2>2 DEF RxPushPacket, b
  <2> HIDE DEF push, b, stored
  <2>4. CASE push.rx = b /\ push.res \in {"OUT_OF_ORDER", "DUPLICATE", "BUFFER_TOO_SMALL"}
    BY <2>1, <2>4 DEF PushEffect
  <2>5. CASE /\ b.out_of_order \/ k = b.next_expected
             /\ ~AlreadyReceived(b, p)
             /\ ~(PacketOffset(k) + n > b.capacity)
    <3>1. k \notin Stored(b)
      <4>1. CASE b.out_of_order
        BY <2>5, <4>1 DEF AlreadyReceived, Stored
      <4>2. CASE ~b.out_of_order
        <5>1. b.next_expected \in Nat /\ k = b.next_expected
          BY <2>1, <2>5, <4>2 DEF Carries
        <5> QED
          BY <4>2, <5>1 DEF Stored
      <4> QED
        BY <4>1, <4>2
    <3>2. PacketOffset(k) + n <= b.capacity
      <4>1. PacketOffset(k) \in Nat /\ n \in Nat /\ b.capacity \in Nat
        BY <2>1, <2>2, ChunkFacts DEF RxContext
      <4> QED
        BY <2>5, <4>1
    <3>3. /\ Carries(stored, L, d)
          /\ \A i \in DOMAIN b.buffer : i >= L => stored.buffer[i] = b.buffer[i]
          /\ stored.received_count = stored.packet_count => stored.received_bytes = L
      BY <2>1, <2>5, <3>1, <3>2, StoreCarries DEF stored
    <3>4. /\ RxContext(stored) /\ stored.out_of_order = b.out_of_order
          /\ stored.active /\ ~stored.complete /\ stored.transfer_id = b.transfer_id
          /\ stored.total_len = L
      <4>1. StoreEffect(stored, b, p, n)
        BY <2>1, StoreFields DEF stored
      <4> QED
        BY <2>1, <3>3, <4>1 DEF StoreEffect, Carries
    <3>5. CASE stored.received_count # stored.packet_count
      <4>1. push = [res |-> "ACCEPTED", rx |-> stored]
        BY <2>3, <2>5, <3>5
      <4> QED
        BY <2>1, <3>3, <3>4, <4>1 DEF PushEffect, RxErrors
    <3>6. CASE stored.received_count = stored.packet_count
      <4> DEFINE f == [stored EXCEPT !.complete = TRUE]
      <4>1. push = [res |-> "COMPLETE", rx |-> f]
        BY <2>3, <2>5, <3>3, <3>4, <3>6
      <4>2. /\ RxContext(f) /\ f.complete /\ f.active = stored.active
            /\ f.transfer_id = stored.transfer_id /\ f.out_of_order = stored.out_of_order
            /\ f.buffer = stored.buffer /\ Carries(f, L, d)
        BY <3>3, <3>4, CompleteContext
      <4>3. \A i \in 0 .. L - 1 : f.buffer[i] = d[i]
        BY <3>3, <3>6, <4>2, FullIsWhole
      <4> HIDE DEF f
      <4> QED
        BY <2>1, <3>3, <3>4, <4>1, <4>2, <4>3 DEF PushEffect, RxErrors
    <3> QED
      BY <3>5, <3>6
  <2> QED
    BY <2>3, <2>4, <2>5
<1> QED
  BY <1>1, <1>2

(* A packet of another transfer, or one that is there already, changes       *)
(* nothing.                                                                  *)
LEMMA PushRefused ==
    ASSUME NEW r, r.active, NEW p,
           \/ ~SameTransfer(r, p)
           \/ p.packet_idx \in Stored(r) /\ (r.out_of_order \/ r.next_expected \in Nat)
    PROVE  RxPushPacket(r, p).rx = r /\ RxPushPacket(r, p).res # "COMPLETE"
<1>1. ~SameTransfer(r, p) => Refusal(r, p) # "none"
  BY DEF Refusal, HeaderError
<1>2. CASE Refusal(r, p) # "none"
  <2>1. RxPushPacket(r, p) = [res |-> Refusal(r, p), rx |-> r]
    BY <1>2 DEF RxPushPacket
  <2> QED
    BY <2>1, Refused
<1>3. CASE Refusal(r, p) = "none"
  <2>1. p.packet_idx \in Stored(r) /\ (r.out_of_order \/ r.next_expected \in Nat)
    BY <1>1, <1>3
  <2>2. CASE r.out_of_order
    <3>1. RxPushPacket(r, p) = [res |-> "DUPLICATE", rx |-> r]
      BY <1>3, <2>1, <2>2 DEF RxPushPacket, AlreadyReceived, Stored
    <3> QED
      BY <3>1
  <2>3. CASE ~r.out_of_order
    <3>1. p.packet_idx # r.next_expected
      BY <2>1, <2>3 DEF Stored
    <3>2. RxPushPacket(r, p) = [res |-> "OUT_OF_ORDER", rx |-> r]
      BY <1>3, <2>3, <3>1 DEF RxPushPacket
    <3> QED
      BY <3>2
  <2> QED
    BY <2>2, <2>3
<1> QED
  BY <1>2, <1>3

(* A context that has of a transfer the packets before the k-th.             *)
HalfWay(r, id, L, d, k) ==
    /\ r.active /\ ~r.complete /\ r.transfer_id = id
    /\ Carries(r, L, d) /\ Stored(r) = 0 .. k - 1

(* A packet that comes in its turn and is not refused is added to them, and  *)
(* the last one completes the transfer (ykb_protocol_rx_push_packet).        *)
LEMMA PushInTurn ==
    ASSUME NEW L \in 0 .. U16 - 1, NEW d, NEW r, RxContext(r),
           NEW p, PartOf(p, L, d),
           \/ p.packet_idx = 0 /\ ~r.active
           \/ HalfWay(r, p.transfer_id, L, d, p.packet_idx),
           RxPushPacket(r, p).res \notin RxErrors
    PROVE  LET push == RxPushPacket(r, p)
           IN  /\ p.packet_idx # CalcPacketCount(L) - 1 =>
                    push.res = "ACCEPTED"
                    /\ HalfWay(push.rx, p.transfer_id, L, d, p.packet_idx + 1)
               /\ p.packet_idx = CalcPacketCount(L) - 1 =>
                    push.res = "COMPLETE" /\ \A i \in 0 .. L - 1 : push.rx.buffer[i] = d[i]
<1> DEFINE b == IF r.active THEN r ELSE RxBeginTransfer(r, p)
           k == p.packet_idx
           c == CalcPacketCount(L)
           n == Length(L, k)
           stored == RxStore(b, p, n)
           push == RxPushPacket(r, p)
<1>0. c \in Nat /\ k \in 0 .. c - 1
  BY CountFacts DEF PartOf
<1>1. Refusal(r, p) = "none"
  <2>1. Refusal(r, p) \in RxErrors \cup {"none"}
    BY DEF Refusal, HeaderError, BeginError, RxErrors
  <2>2. Refusal(r, p) # "none" => push.res = Refusal(r, p)
    BY DEF RxPushPacket
  <2> HIDE DEF push
  <2> QED
    BY <2>1, <2>2 DEF push
<1>2. /\ RxContext(b) /\ HalfWay(b, p.transfer_id, L, d, k)
  <2>1. CASE r.active
    BY <2>1
  <2>2. CASE ~r.active
    <3>1. k = 0
      BY <2>2 DEF HalfWay
    <3>2. 0 .. k - 1 = {}
      BY <3>1
    <3>3. /\ RxContext(b) /\ Carries(b, L, d) /\ Stored(b) = {}
          /\ b.active /\ ~b.complete /\ b.transfer_id = p.transfer_id
      BY <2>2, BeginCarries
    <3> HIDE DEF b
    <3> QED
      BY <3>2, <3>3 DEF HalfWay
  <2> QED
    BY <2>1, <2>2
<1>3. /\ Carries(b, L, d) /\ Stored(b) = 0 .. k - 1 /\ k \notin Stored(b)
      /\ PayloadLenForIndex(b.total_len, k, b.packet_count) = n
  <2>1. Carries(b, L, d) /\ Stored(b) = 0 .. k - 1
    BY <1>2 DEF HalfWay
  <2>2. k \notin 0 .. k - 1
    BY <1>0
  <2> HIDE DEF b
  <2> QED
    BY <2>1, <2>2 DEF Carries, Length
<1>4. push =
        IF ~b.out_of_order /\ k # b.next_expected THEN [res |-> "OUT_OF_ORDER", rx |-> b]
        ELSE IF AlreadyReceived(b, p) THEN [res |-> "DUPLICATE", rx |-> b]
        ELSE IF PacketOffset(k) + n > b.capacity THEN [res |-> "BUFFER_TOO_SMALL", rx |-> b]
        ELSE IF stored.received_count # stored.packet_count THEN [res |-> "ACCEPTED", rx |-> stored]
        ELSE IF stored.received_bytes # stored.total_len THEN [res |-> "BAD_TOTAL_LEN", rx |-> stored]
        ELSE [res |-> "COMPLETE", rx |-> [stored EXCEPT !.complete = TRUE]]
  <2> HIDE DEF b, n
  <2> QED
    BY <1>1, <1>3 DEF RxPushPacket, b
<1> HIDE DEF push, b, stored
<1>5. push.res \notin RxErrors
  BY DEF push
<1>6. b.out_of_order \/ k = b.next_expected
  BY <1>4, <1>5 DEF RxErrors
<1>7. ~AlreadyReceived(b, p)
  <2>1. CASE b.out_of_order
    BY <1>3, <2>1 DEF AlreadyReceived, Stored
  <2>2. CASE ~b.out_of_order
    BY <2>2 DEF AlreadyReceived
  <2> QED
    BY <2>1, <2>2
<1>8. /\ PacketOffset(k) + n <= b.capacity
      /\ ~(PacketOffset(k) + n > b.capacity)
  <2>1. PacketOffset(k) \in Nat /\ n \in Nat /\ b.capacity \in Nat
    BY <1>0, <1>2, ChunkFacts DEF RxContext
  <2>2. ~(PacketOffset(k) + n > b.capacity)
    BY <1>4, <1>5, <1>6, <1>7 DEF RxErrors
  <2> QED
    BY <2>1, <2>2
<1>9. /\ Carries(stored, L, d)
      /\ stored.received_count = stored.packet_count => stored.received_bytes = L
  <2>1. RxContext(b) /\ Carries(b, L, d) /\ k \notin Stored(b)
    BY <1>2, <1>3
  <2> QED
    BY <1>6, <1>8, <2>1, StoreCarries DEF stored
<1>10. /\ RxContext(stored) /\ stored.active /\ ~stored.complete
       /\ stored.transfer_id = p.transfer_id
       /\ stored.total_len = L /\ stored.packet_count = c
       /\ stored.out_of_order = b.out_of_order
       /\ stored.received = IF b.out_of_order THEN b.received \cup {k} ELSE b.received
       /\ stored.next_expected = IF b.out_of_order THEN b.next_expected
                                 ELSE (b.next_expected + 1) % U16
  <2>1. StoreEffect(stored, b, p, n)
    BY <1>2, StoreFields DEF stored
  <2> QED
    BY <1>2, <1>9, <2>1 DEF StoreEffect, Carries, HalfWay
<1>11. Stored(stored) = 0 .. k
  <2>1. CASE b.out_of_order
    <3>1. Stored(stored) = Stored(b) \cup {k}
      BY <1>10, <2>1 DEF Stored
    <3>2. (0 .. k - 1) \cup {k} = 0 .. k
      BY <1>0
    <3> HIDE DEF k
    <3> QED
      BY <1>3, <3>1, <3>2
  <2>2. CASE ~b.out_of_order
    <3>1. (k + 1) % U16 = k + 1
      <4>1. c \in 1 .. U16 - 1 /\ U16 \in Nat
        BY CountFacts
      <4>2. k + 1 \in Int /\ 0 <= k + 1 /\ k + 1 < U16
        BY <1>0, <4>1
      <4> QED
        BY <4>2, SmallModulo
    <3>2. stored.next_expected = k + 1 /\ ~stored.out_of_order
      BY <1>6, <1>10, <2>2, <3>1
    <3>3. Stored(stored) = 0 .. (k + 1) - 1
      BY <3>2 DEF Stored
    <3> HIDE DEF k
    <3>4. (k + 1) - 1 = k
      BY <1>0
    <3> QED
      BY <3>3, <3>4
  <2> QED
    BY <2>1, <2>2
<1>12. stored.received_count = k + 1
  <2>1. stored.received_count = Cardinality(0 .. k)
    BY <1>9, <1>11 DEF Carries
  <2>2. Cardinality(0 .. k) = IF 0 > k THEN 0 ELSE k - 0 + 1
    <3> HIDE DEF k
    <3>1. k \in Int
      BY <1>0
    <3> QED
      BY <3>1, FS_Interval
  <2> QED
    BY <1>0, <2>1, <2>2
<1> HIDE DEF k, c
<1>13. CASE k # c - 1
  <2>1. push = [res |-> "ACCEPTED", rx |-> stored]
    BY <1>0, <1>4, <1>6, <1>7, <1>8, <1>10, <1>12, <1>13
  <2>2. (k + 1) - 1 = k
    BY <1>0
  <2>3. HalfWay(stored, p.transfer_id, L, d, k + 1)
    BY <1>9, <1>10, <1>11, <2>2 DEF HalfWay
  <2> QED
    BY <1>13, <2>1, <2>3 DEF push, c, k
<1>14. CASE k = c - 1
  <2>1. stored.received_count = stored.packet_count
    BY <1>0, <1>10, <1>12, <1>14
  <2> DEFINE f == [stored EXCEPT !.complete = TRUE]
  <2>2. push = [res |-> "COMPLETE", rx |-> f]
    BY <1>4, <1>6, <1>7, <1>8, <1>9, <1>10, <2>1
  <2>3. f.buffer = stored.buffer
    BY <1>10, CompleteContext
  <2>4. \A i \in 0 .. L - 1 : stored.buffer[i] = d[i]
    BY <1>9, <2>1, FullIsWhole
  <2> HIDE DEF f
  <2> QED
    BY <1>14, <2>2, <2>3, <2>4 DEF push, c, k
<1> QED
  BY <1>13, <1>14 DEF push, c, k

(* Whatever is pushed leaves a context one.                                  *)
LEMMA PushKeepsContext ==
    ASSUME NEW r, RxContext(r), NEW p
    PROVE  RxContext(RxPushPacket(r, p).rx) /\ RxPushPacket(r, p).rx.capacity = r.capacity
<1> DEFINE b == IF r.active THEN r ELSE RxBeginTransfer(r, p)
           n == PayloadLenForIndex(b.total_len, p.packet_idx, b.packet_count)
           stored == RxStore(b, p, n)
           Good(s) == RxContext(s) /\ s.capacity = r.capacity
<1>1. Good(b)
  <2>1. CASE ~r.active
    <3>1. /\ DOMAIN RxReset(r) = RxFields
          /\ RxReset(r).buffer = r.buffer /\ RxReset(r).capacity = r.capacity
      BY DEF RxReset, RxContext, RxFields
    <3>2. DOMAIN b = RxFields /\ b.buffer = r.buffer /\ b.capacity = r.capacity
      BY <2>1, <3>1 DEF RxBeginTransfer, RxFields
    <3> QED
      BY <3>2 DEF RxContext
  <2> QED
    BY <2>1
<1>2. RxPushPacket(r, p).rx \in {r, b, stored, [stored EXCEPT !.complete = TRUE]}
  BY DEF RxPushPacket
<1> HIDE DEF b, n
<1>3. Good(stored)
  <2>1. StoreEffect(stored, b, p, n)
    BY <1>1, StoreFields
  <2> QED
    BY <1>1, <2>1 DEF StoreEffect
<1> HIDE DEF stored
<1>4. Good([stored EXCEPT !.complete = TRUE])
  BY <1>3 DEF RxContext, RxFields
<1> QED
  BY <1>1, <1>2, <1>3, <1>4

-----------------------------------------------------------------------------
TxFields == {"data", "total_len", "offset", "transfer_id", "packet_count", "next_packet_idx"}

PacketFields == {"version", "type", "transfer_id", "start", "end", "packet_idx",
                 "packet_count", "total_len", "payload", "intact"}

(* A context that sends the L bytes of d, packet by packet.                  *)
Sends(t, L, d) ==
    /\ DOMAIN t = TxFields /\ t.data = d /\ t.total_len = L
    /\ t.packet_count = CalcPacketCount(L)
    /\ t.next_packet_idx \in 0 .. t.packet_count
    /\ t.next_packet_idx < t.packet_count => t.offset = PacketOffset(t.next_packet_idx)

(* A context that is initialised sends from the beginning.                   *)
LEMMA SendingStarts ==
    ASSUME NEW L \in 0 .. U16 - 1, NEW d, NEW id
    PROVE  Sends(TxInit(d, L, id), L, d) /\ TxInit(d, L, id).transfer_id = id
           /\ TxInit(d, L, id).next_packet_idx = 0
<1>1. CalcPacketCount(L) \in Nat
  BY CountFacts
<1>2. PacketOffset(0) = 0
  <2>1. 0 * MaxPayload = 0
    BY MaxPayloadAssumption
  <2>2. 0 % U16 = 0
    BY DEF U16
  <2> QED
    BY <2>1, <2>2 DEF PacketOffset
<1>3. 0 \in 0 .. CalcPacketCount(L)
  BY <1>1
<1> DEFINE t == TxInit(d, L, id)
<1>4. /\ DOMAIN t = TxFields /\ t.data = d /\ t.total_len = L /\ t.offset = 0
      /\ t.packet_count = CalcPacketCount(L) /\ t.next_packet_idx = 0 /\ t.transfer_id = id
  BY DEF TxInit, TxFields
<1> HIDE DEF t
<1>5. Sends(t, L, d)
  BY <1>2, <1>3, <1>4 DEF Sends
<1> QED
  BY <1>4, <1>5 DEF t

(* What it builds is a part of what it sends.                                *)
LEMMA SendingGoesOn ==
    ASSUME NEW L \in 0 .. U16 - 1, NEW d, NEW t, Sends(t, L, d), TxHasMore(t)
    PROVE  /\ PartOf(TxPacket(t), L, d) /\ DOMAIN TxPacket(t) = PacketFields
           /\ TxPacket(t).transfer_id = t.transfer_id
           /\ TxPacket(t).packet_idx = t.next_packet_idx
           /\ Sends(TxAfterPacket(t), L, d)
           /\ TxAfterPacket(t).transfer_id = t.transfer_id
           /\ TxAfterPacket(t).next_packet_idx = t.next_packet_idx + 1
<1> DEFINE c == CalcPacketCount(L)
           k == t.next_packet_idx
           n == PayloadLenForIndex(t.total_len, k, t.packet_count)
<1>1. /\ c \in 1 .. U16 - 1 /\ c \in Nat /\ L \in Nat /\ L < U16 /\ U16 \in Nat
  BY CountFacts
<1>2. /\ DOMAIN t = TxFields /\ t.data = d /\ t.total_len = L /\ t.packet_count = c
      /\ k \in 0 .. c /\ k < c /\ t.offset = PacketOffset(k) /\ n = Length(L, k)
  BY DEF Sends, TxHasMore, Length
<1> HIDE DEF c, k, n
<1>3. k \in 0 .. c - 1
  BY <1>1, <1>2
<1>4. /\ PacketOffset(k) = Times(k) /\ Times(k) \in Nat /\ n \in Nat /\ Times(k) + n <= L
      /\ n = IF k = c - 1 THEN L - Times(k) ELSE MaxPayload
  BY <1>2, <1>3, ChunkFacts DEF c
<1> DEFINE payload == [i \in 0 .. n - 1 |-> t.data[t.offset + i]]
<1>5. /\ TxPacket(t) = [version |-> TRUE, type |-> "DATA", transfer_id |-> t.transfer_id,
             start |-> k = 0, end |-> k = t.packet_count - 1, packet_idx |-> k,
             packet_count |-> t.packet_count, total_len |-> t.total_len,
             payload |-> payload, intact |-> TRUE]
      /\ \A j \in 0 .. n - 1 : payload[j] = d[PacketOffset(k) + j]
  BY <1>2 DEF TxPacket, k, n
<1> HIDE DEF payload
<1>6. /\ DOMAIN TxPacket(t) = PacketFields /\ TxPacket(t).transfer_id = t.transfer_id
      /\ TxPacket(t).packet_idx = k /\ TxPacket(t).packet_count = c
      /\ TxPacket(t).total_len = L /\ TxPacket(t).payload = payload
  BY <1>2, <1>5 DEF PacketFields
<1>7. PartOf(TxPacket(t), L, d)
  BY <1>2, <1>3, <1>5, <1>6 DEF PartOf, c
<1>8. (k + 1) % U16 = k + 1
  BY <1>1, <1>3, SmallModulo
<1>9. TxAfterPacket(t) = [t EXCEPT !.offset = (t.offset + n) % U16, !.next_packet_idx = k + 1]
  <2>1. TxAfterPacket(t) = [t EXCEPT !.offset = (t.offset + n) % U16,
                                     !.next_packet_idx = (k + 1) % U16]
    BY DEF TxAfterPacket, n, k
  <2> QED
    BY <1>8, <2>1
<1>10. ASSUME k + 1 < c PROVE (t.offset + n) % U16 = PacketOffset(k + 1)
  <2>1. k + 1 \in 0 .. c - 1 /\ k # c - 1
    BY <1>1, <1>3, <1>10
  <2>2. PacketOffset(k + 1) = Times(k + 1)
    BY <2>1, ChunkFacts DEF c
  <2>3. Times(k + 1) = Times(k) + MaxPayload
    BY <1>3, TimesNext
  <2>4. t.offset + n = Times(k) + n /\ n = MaxPayload
    BY <1>2, <1>4, <2>1
  <2>5. (Times(k) + n) % U16 = Times(k) + n
    <3>1. Times(k) + n \in Int /\ 0 <= Times(k) + n /\ Times(k) + n < U16
      BY <1>1, <1>4
    <3> QED
      BY <3>1, SmallModulo
  <2> QED
    BY <2>2, <2>3, <2>4, <2>5
<1> DEFINE u == TxAfterPacket(t)
           at == (t.offset + n) % U16
<1>11. /\ DOMAIN u = TxFields /\ u.data = d /\ u.total_len = L /\ u.packet_count = c
       /\ u.next_packet_idx = k + 1 /\ u.offset = at /\ u.transfer_id = t.transfer_id
  <2> HIDE DEF at
  <2> QED
    BY <1>2, <1>9 DEF TxFields, at
<1> HIDE DEF u, at
<1>12. k + 1 \in 0 .. c
  BY <1>1, <1>3
<1>13. k + 1 < c => at = PacketOffset(k + 1)
  BY <1>10 DEF at
<1>14. Sends(u, L, d)
  BY <1>11, <1>12, <1>13 DEF Sends, c
<1> QED
  BY <1>6, <1>7, <1>11, <1>14 DEF u, k
=============================================================================
