--------------------------- MODULE RingBufProofs ---------------------------
(***************************************************************************)
(* Proofs about the ring buffer, for every size, packet and alphabet: with *)
(* its two threads' accesses interleaved it stays within its memory, and   *)
(* with one user at a time it is a byte queue that keeps packets whole.    *)
(***************************************************************************)
EXTENDS RingBufThreads, SequenceTheorems, TLAPS

(* What size_t arithmetic cannot lose: both indices stay multiples of a    *)
(* packet, as the memory is one.                                           *)
Aligned(i) == \E k \in Nat : i = k * Packet

(* The memory's size and its start are multiples of a packet.              *)
LEMMA SizeAligned == Aligned(Size) /\ Aligned(0)
<1>1. Packet \in Nat \ {0} /\ Size \in Nat \ {0}
  BY RingAssumption
<1>2. Size = (Size \div Packet) * Packet /\ Size \div Packet \in Nat
  BY <1>1, AlignmentAssumption
<1>3. 0 = 0 * Packet
  BY <1>1
<1> QED BY <1>2, <1>3 DEF Aligned

(* Between two multiples of a packet there is room for a packet.           *)
LEMMA NextAligned ==
  ASSUME NEW i \in Nat, NEW j \in Nat, Aligned(i), Aligned(j), i < j
  PROVE  i + Packet <= j /\ Aligned(i + Packet)
<1>1. Packet \in Nat \ {0}
  BY RingAssumption
<1>2. PICK a \in Nat : i = a * Packet
  BY DEF Aligned
<1>3. PICK b \in Nat : j = b * Packet
  BY DEF Aligned
<1>4. a + 1 <= b
  <2>1. CASE b <= a
    <3>1. b * Packet <= a * Packet
      BY <2>1, <1>1
    <3> QED BY <3>1, <1>2, <1>3
  <2> QED BY <2>1
<1>5. (a + 1) * Packet = i + Packet
  BY <1>1, <1>2
<1>6. (a + 1) * Packet <= b * Packet
  BY <1>1, <1>4
<1> QED BY <1>3, <1>5, <1>6 DEF Aligned

(* What the division in Advance computes: one turn at most.                *)
LEMMA AdvanceInRange ==
  ASSUME NEW i \in Indices, NEW c \in 0 .. Size
  PROVE  /\ Advance(i, c) \in Indices
         /\ Advance(i, c) = IF i + c < Size THEN i + c ELSE i + c - Size
<1>1. Size \in Nat \ {0} /\ i \in 0 .. Size - 1
  BY RingAssumption DEF Indices
<1>2. CASE i + c < Size
  BY <1>1, <1>2 DEF Advance, Indices
<1>3. CASE i + c >= Size
  <2>1. (i + c) % Size = (i + c - Size) % Size
    BY <1>1, <1>3
  <2>2. CASE i + c - Size < Size
    BY <1>1, <1>3, <2>1, <2>2 DEF Advance, Indices
  <2> QED BY <2>2, <1>1
<1> QED BY <1>2, <1>3, <1>1

(* From an aligned index a packet fits, and the index moves to another.    *)
LEMMA IndexRoom ==
  ASSUME NEW i \in Indices, Aligned(i)
  PROVE  /\ i + Packet <= Size
         /\ Aligned(i + Packet)
         /\ Advance(i, Packet) \in Indices
         /\ Aligned(Advance(i, Packet))
         /\ Advance(i, Packet) = IF i + Packet = Size THEN 0 ELSE i + Packet
<1>1. i \in Nat /\ i < Size /\ Size \in Nat /\ Packet \in 0 .. Size
  BY RingAssumption DEF Indices
<1>2. i + Packet <= Size /\ Aligned(i + Packet)
  BY <1>1, SizeAligned, NextAligned
<1>3. /\ Advance(i, Packet) \in Indices
      /\ Advance(i, Packet) = IF i + Packet = Size THEN 0 ELSE i + Packet
  BY <1>1, <1>2, AdvanceInRange
<1> QED BY <1>2, <1>3, SizeAligned

(* What the writer finds free between two aligned indices.                 *)
LEMMA WriterRoom ==
  ASSUME NEW i \in Indices, NEW j \in Indices \cup {Size}, Aligned(i), Aligned(j)
  PROVE  MinOfDifference(j, i, Packet) \in {0, Packet}
<1>1. i \in Nat /\ j \in Nat /\ Size \in Nat /\ Packet \in Nat \ {0}
  BY RingAssumption DEF Indices
<1>2. CASE i < j
  BY <1>1, <1>2, NextAligned DEF MinOfDifference, ra_min
<1>3. CASE j <= i
  BY <1>1, <1>3 DEF MinOfDifference, ra_min
<1> QED BY <1>1, <1>2, <1>3

-----------------------------------------------------------------------------
(* The two threads: a packet goes in whole or not at all, so the indices   *)
(* that are compared and subtracted stay aligned however often they are    *)
(* loaded.                                                                 *)
AlignInv ==
  /\ Aligned(rb.write_idx) /\ Aligned(rb.read_idx)
  /\ left = IF WriterAt("idle") THEN 0 ELSE Packet
  /\ writer.pc \in {"copy", "index", "check", "flag"} => writer.count = Packet

Inv == TypeOK /\ AlignInv

(* Both hold at first.                                                     *)
LEMMA InitInv == Init => Inv
<1> SUFFICES ASSUME Init PROVE Inv
  OBVIOUS
<1>1. rb \in RingBufs /\ rb.write_idx = 0 /\ rb.read_idx = 0
  BY RingAssumption DEF Init, RingInit, EmptyRing, RingBufs, Indices, EMPTY
<1>2. TypeOK
  BY <1>1, RingAssumption DEF Init, RingInit, TypeOK, RingTypeOK, WriterStates,
     ReaderStates, EMPTY, FILLED, FULL
<1> QED BY <1>1, <1>2, SizeAligned DEF Inv, AlignInv, Init, RingInit, WriterAt

(* Every access of either thread keeps them.                               *)
LEMMA StepInv == Inv /\ [Next]_vars => Inv'
<1> SUFFICES ASSUME Inv, [Next]_vars PROVE Inv'
  OBVIOUS
<1>0. /\ Packet \in Nat \ {0} /\ Size \in Nat \ {0}
      /\ rb.read_idx \in Indices /\ rb.write_idx \in Indices
      /\ rb = [read_idx |-> rb.read_idx, write_idx |-> rb.write_idx,
               state |-> rb.state]
  BY RingAssumption DEF Inv, TypeOK, RingTypeOK, RingBufs
<1> USE <1>0 DEF Inv, TypeOK, RingTypeOK, WriterStates, ReaderStates, AlignInv,
    WriterAt, ReaderAt, WriterGoesTo, ReaderGoesTo
<1>1. CASE WriterBegin
  BY <1>1 DEF WriterBegin, Decode
<1>2. CASE WriterLoadState
  BY <1>2 DEF WriterLoadState, Overflow
<1>3. CASE WriterLoadIndex
  <2>1. rb.write_idx + Packet <= Size
    BY IndexRoom
  <2>2. left = Packet /\ MinOfDifference(Size, rb.write_idx, left) = Packet
    BY <1>3, <2>1 DEF WriterLoadIndex, MinOfDifference, ra_min, Indices
  <2> QED BY <1>3, <2>2 DEF WriterLoadIndex
<1>4. CASE WriterReloadIndex
  <2> DEFINE count == MinOfDifference(rb.read_idx, rb.write_idx, left)
  <2>1. left = Packet
    BY <1>4 DEF WriterReloadIndex
  <2>2. count \in {0, Packet}
    BY <2>1, WriterRoom
  <2>3. CASE count = 0 /\ Overflow
    BY <1>4, <2>3 DEF WriterReloadIndex, Overflow
  <2>4. CASE /\ count # 0
             /\ writer' = [writer EXCEPT !.pc = "copy", !.count = count]
             /\ UNCHANGED left
    <3> HIDE DEF count
    <3>1. count = Packet
      BY <2>2, <2>4
    <3> QED BY <1>4, <2>1, <2>4, <3>1 DEF WriterReloadIndex
  <2> QED BY <1>4, <2>3, <2>4 DEF WriterReloadIndex
<1>5. CASE WriterCopy
  BY <1>5 DEF WriterCopy, Copied
<1>6. CASE WriterStoreIndex
  <2>1. /\ rb' = [rb EXCEPT !.write_idx = Advance(@, Packet)]
        /\ Advance(rb.write_idx, Packet) \in Indices
        /\ Aligned(Advance(rb.write_idx, Packet))
    BY <1>6, IndexRoom DEF WriterStoreIndex
  <2>2. /\ rb' \in RingBufs
        /\ rb'.write_idx = Advance(rb.write_idx, Packet)
        /\ rb'.read_idx = rb.read_idx
    BY <2>1 DEF RingBufs
  <2> QED BY <1>6, <2>1, <2>2 DEF WriterStoreIndex
<1>7. CASE WriterCompare
  BY <1>7 DEF WriterCompare
<1>8. CASE WriterStoreState
  <2>1. rb' \in RingBufs /\ rb'.write_idx = rb.write_idx /\ rb'.read_idx = rb.read_idx
    BY <1>8 DEF WriterStoreState, RingBufs
  <2>2. left' = 0 /\ writer' = [writer EXCEPT !.pc = "idle"]
    BY <1>8 DEF WriterStoreState
  <2> QED BY <1>8, <2>1, <2>2 DEF WriterStoreState
<1>9. CASE ReaderBegin
  BY <1>9 DEF ReaderBegin
<1>10. CASE ReaderLoadState
  BY <1>10 DEF ReaderLoadState, ReaderHas
<1>11. CASE ReaderLoadIndex
  BY <1>11 DEF ReaderLoadIndex, ReaderHas
<1>12. CASE ReaderReloadIndex
  BY <1>12 DEF ReaderReloadIndex, ReaderHas
<1>13. CASE ReaderCopy
  BY <1>13 DEF ReaderCopy
<1>14. CASE ReaderStoreIndex
  <2>1. /\ rb' = [rb EXCEPT !.read_idx = Advance(@, Packet)]
        /\ Advance(rb.read_idx, Packet) \in Indices
        /\ Aligned(Advance(rb.read_idx, Packet))
    BY <1>14, IndexRoom DEF ReaderStoreIndex
  <2>2. /\ rb' \in RingBufs
        /\ rb'.read_idx = Advance(rb.read_idx, Packet)
        /\ rb'.write_idx = rb.write_idx
    BY <2>1 DEF RingBufs
  <2> QED BY <1>14, <2>1, <2>2 DEF ReaderStoreIndex
<1>15. CASE ReaderCompare
  BY <1>15 DEF ReaderCompare
<1>16. CASE ReaderStoreState
  <2>1. rb' \in RingBufs /\ rb'.write_idx = rb.write_idx /\ rb'.read_idx = rb.read_idx
    BY <1>16 DEF ReaderStoreState, RingBufs
  <2> QED BY <1>16, <2>1 DEF ReaderStoreState
<1>17. CASE UNCHANGED vars
  BY <1>17 DEF vars
<1> QED BY <1>1, <1>2, <1>3, <1>4, <1>5, <1>6, <1>7, <1>8, <1>9, <1>10, <1>11,
        <1>12, <1>13, <1>14, <1>15, <1>16, <1>17
        DEF Next, WriterSteps, ReaderSteps

(* Indices, counts and flags keep their types, whoever moves when.         *)
THEOREM ThreadsTypeCorrect == Spec => []TypeOK
<1>1. Inv => TypeOK
  BY DEF Inv
<1> QED BY InitInv, StepInv, <1>1, PTL DEF Spec

(* An aligned index and a whole packet stay within the memory.             *)
LEMMA InvInBounds == Inv => InBounds
<1> SUFFICES ASSUME Inv PROVE InBounds
  OBVIOUS
<1>1. rb.write_idx + Packet <= Size /\ rb.read_idx + Packet <= Size
  BY IndexRoom DEF Inv, AlignInv, TypeOK, RingTypeOK, RingBufs
<1> QED BY <1>1 DEF Inv, AlignInv, InBounds, WriterAt

(* Neither memcpy leaves rb->buf, though ra_ringbuf_fill_count and         *)
(* ra_ringbuf_free_count load the other thread's index twice.              *)
THEOREM InBoundsCorrect == Spec => []InBounds
BY InitInv, StepInv, InvInBounds, PTL DEF Spec

-----------------------------------------------------------------------------
(* One user at a time, from here on.                                       *)
LEMMA AlignedMod == ASSUME NEW i \in Nat, Aligned(i) PROVE i % Packet = 0
<1>1. Packet \in Nat \ {0}
  BY RingAssumption
<1>2. PICK k \in Nat : i = k * Packet
  BY DEF Aligned
<1> QED BY <1>1, <1>2

(* What lies between two multiples of a packet is one too.                 *)
LEMMA AlignedDifference ==
  ASSUME NEW i \in Nat, NEW j \in Nat, Aligned(i), Aligned(j), i <= j
  PROVE  Aligned(j - i)
<1>1. Packet \in Nat \ {0}
  BY RingAssumption
<1>2. PICK a \in Nat : i = a * Packet
  BY DEF Aligned
<1>3. PICK b \in Nat : j = b * Packet
  BY DEF Aligned
<1>4. a <= b
  <2>1. CASE b < a
    <3>1. (b + 1) * Packet <= a * Packet
      BY <2>1, <1>1
    <3>2. (b + 1) * Packet = j + Packet
      BY <1>1, <1>3
    <3> QED BY <3>1, <3>2, <1>1, <1>2, <1>3
  <2> QED BY <2>1
<1>5. j - i = (b - a) * Packet /\ b - a \in Nat
  BY <1>1, <1>2, <1>3, <1>4
<1> QED BY <1>5 DEF Aligned

(* The flag tells the two cases of equal indices apart, and only them.     *)
RingInv == /\ RingTypeOK
           /\ rb.state = FILLED <=> rb.read_idx # rb.write_idx

(* The bytes that were written and not read, without the division.         *)
UnreadFact == /\ Unread \in 0 .. Size
              /\ Unread = IF rb.state = EMPTY THEN 0
                          ELSE IF rb.write_idx > rb.read_idx
                          THEN rb.write_idx - rb.read_idx
                          ELSE rb.write_idx - rb.read_idx + Size

(* How much is unread, from the indices and the state.                     *)
LEMMA UnreadIs == RingInv => UnreadFact
<1> SUFFICES ASSUME RingInv PROVE UnreadFact
  OBVIOUS
<1> USE DEF UnreadFact
<1>1. /\ Size \in Nat \ {0}
      /\ rb.read_idx \in 0 .. Size - 1 /\ rb.write_idx \in 0 .. Size - 1
      /\ rb.state \in {0, 1, 2}
  BY RingAssumption
     DEF RingInv, RingTypeOK, RingBufs, Indices, EMPTY, FILLED, FULL
<1>2. CASE rb.state # 1
  BY <1>1, <1>2 DEF Unread, RingInv, EMPTY, FILLED, FULL
<1>3. CASE rb.state = 1 /\ rb.write_idx > rb.read_idx
  <2>1. (rb.write_idx - rb.read_idx) % Size = rb.write_idx - rb.read_idx
    BY <1>1, <1>3
  <2> QED BY <1>1, <1>3, <2>1 DEF Unread, RingInv, EMPTY, FILLED, FULL
<1>4. CASE rb.state = 1 /\ rb.write_idx < rb.read_idx
  <2>1. (rb.write_idx - rb.read_idx) % Size = rb.write_idx - rb.read_idx + Size
    BY <1>1, <1>4
  <2> QED BY <1>1, <1>4, <2>1 DEF Unread, RingInv, EMPTY, FILLED, FULL
<1> QED BY <1>1, <1>2, <1>3, <1>4 DEF RingInv, FILLED

(* The empty ring satisfies the ring's invariant.                          *)
LEMMA RingInitInv == RingInit => RingInv
<1> SUFFICES ASSUME RingInit PROVE RingInv
  OBVIOUS
<1>1. rb = EmptyRing /\ EmptyRing \in RingBufs
  BY RingAssumption DEF RingInit, EmptyRing, RingBufs, Indices, EMPTY
<1> QED BY <1>1, RingAssumption
        DEF RingInit, RingInv, RingTypeOK, EmptyRing, EMPTY, FILLED

(* All of it as arithmetic of two indices and a state.                     *)
RingFact ==
  /\ Size \in Nat \ {0} /\ Packet \in 1 .. Size
  /\ rb.read_idx \in 0 .. Size - 1 /\ rb.write_idx \in 0 .. Size - 1
  /\ rb.state = 1 <=> rb.read_idx # rb.write_idx
  /\ rb.state \in {0, 1, 2}
  /\ Unread = IF rb.state = 0 THEN 0
              ELSE IF rb.write_idx > rb.read_idx
              THEN rb.write_idx - rb.read_idx
              ELSE rb.write_idx - rb.read_idx + Size
  /\ ra_ringbuf_free_count(rb) =
       IF rb.state = 2 THEN 0
       ELSE (IF rb.read_idx > rb.write_idx THEN rb.read_idx ELSE Size)
              - rb.write_idx
  /\ ra_ringbuf_fill_count(rb) =
       IF rb.state = 0 THEN 0
       ELSE (IF rb.write_idx > rb.read_idx THEN rb.write_idx ELSE Size)
              - rb.read_idx

(* The ring's invariant in the terms the steps use.                        *)
LEMMA RingFacts == RingInv => RingFact
BY UnreadIs, RingAssumption
   DEF RingInv, RingTypeOK, RingBufs, Indices, EMPTY, FILLED, FULL, UnreadFact,
       RingFact, ra_ringbuf_free_count, ra_ringbuf_fill_count

(* What can be written fits, and what can be read is there.                *)
LEMMA Counts ==
  ASSUME RingInv
  PROVE  /\ ra_ringbuf_free_count(rb) \in 0 .. Size
         /\ rb.write_idx + ra_ringbuf_free_count(rb) <= Size
         /\ Unread + ra_ringbuf_free_count(rb) <= Size
         /\ ra_ringbuf_fill_count(rb) \in 0 .. Size
         /\ ra_ringbuf_fill_count(rb) <= Unread
<1>1. RingFact
  BY RingFacts
<1> USE DEF RingFact
<1>2. CASE rb.state = 0
  BY <1>1, <1>2
<1>3. CASE rb.state = 1
  BY <1>1, <1>3
<1>4. CASE rb.state = 2
  BY <1>1, <1>4
<1> QED BY <1>1, <1>2, <1>3, <1>4

(* A write of n bytes makes n more bytes unread, a read Packet fewer.      *)
LEMMA Written ==
  ASSUME RingInv, NEW n \in 1 .. ra_ringbuf_free_count(rb),
         rb' = ra_ringbuf_advance_write_ptr(rb, n),
         mem' \in [Indices -> Packets], left' \in 0 .. Packet, pcm' \in Packets
  PROVE  RingInv' /\ Unread' = Unread + n /\ rb'.read_idx = rb.read_idx
<1>1. /\ Size \in Nat \ {0} /\ n \in 0 .. Size
      /\ rb.read_idx \in Indices /\ rb.write_idx \in Indices
      /\ Indices = 0 .. Size - 1
      /\ rb.state \in {0, 1, 2}
  BY RingAssumption, Counts
     DEF RingInv, RingTypeOK, RingBufs, Indices, EMPTY, FILLED, FULL
<1> DEFINE w == Advance(rb.write_idx, n)
<1>2. /\ w \in Indices
      /\ w = IF rb.write_idx + n < Size THEN rb.write_idx + n
             ELSE rb.write_idx + n - Size
  BY <1>1, AdvanceInRange
<1>3. /\ rb' = [read_idx |-> rb.read_idx, write_idx |-> w,
                state |-> IF w = rb.read_idx THEN FULL ELSE FILLED]
      /\ rb' \in RingBufs
  BY <1>1, <1>2
     DEF ra_ringbuf_advance_write_ptr, RingInv, RingTypeOK, RingBufs
<1> HIDE DEF w
<1>4. RingInv'
  BY <1>3 DEF RingInv, RingTypeOK, FILLED, FULL
<1>5. RingFact'
  BY <1>4, RingFacts, PTL
<1>6. RingFact
  BY RingFacts
<1>7. /\ rb'.read_idx = rb.read_idx /\ rb'.write_idx = w
      /\ rb'.state = IF w = rb.read_idx THEN 2 ELSE 1
  BY <1>3 DEF FILLED, FULL
<1>8. Unread' = Unread + n
  <2>1. Unread' = IF w > rb.read_idx THEN w - rb.read_idx
                  ELSE w - rb.read_idx + Size
    BY <1>5, <1>7 DEF RingFact
  <2>2. CASE rb.state = 0
    BY SMTT(20), <1>1, <1>2, <1>6, <2>1, <2>2 DEF RingFact
  <2>3. CASE rb.state = 1 /\ rb.read_idx > rb.write_idx
    BY SMTT(20), <1>1, <1>2, <1>6, <2>1, <2>3 DEF RingFact
  <2>4. CASE rb.state = 1 /\ rb.read_idx < rb.write_idx
    <3>1. /\ Unread = rb.write_idx - rb.read_idx
          /\ n \in Nat /\ rb.write_idx + n <= Size
          /\ Size \in Nat /\ rb.read_idx \in Nat /\ rb.write_idx \in Nat
      BY <1>6, <2>4 DEF RingFact
    <3>2. CASE rb.write_idx + n < Size
      BY <1>2, <2>1, <2>4, <3>1, <3>2
    <3>3. CASE rb.write_idx + n = Size
      BY <1>2, <2>1, <2>4, <3>1, <3>3
    <3> QED BY <3>1, <3>2, <3>3
  <2>5. CASE rb.state = 2
    BY <1>6, <2>5 DEF RingFact
  <2> QED BY <1>6, <2>2, <2>3, <2>4, <2>5 DEF RingFact
<1> QED BY <1>4, <1>7, <1>8

(* Reading a packet takes its bytes from what is unread.                   *)
LEMMA WasRead ==
  ASSUME RingInv, Packet <= ra_ringbuf_fill_count(rb),
         rb' = ra_ringbuf_advance_read_ptr(rb, Packet),
         UNCHANGED <<mem, left, pcm>>
  PROVE  /\ RingInv' /\ Unread' = Unread - Packet
         /\ rb'.read_idx = Advance(rb.read_idx, Packet)
<1>1. /\ Size \in Nat \ {0} /\ Packet \in 1 .. Size
      /\ rb.read_idx \in Indices /\ rb.write_idx \in Indices
      /\ Indices = 0 .. Size - 1
      /\ rb.state \in {0, 1, 2}
  BY RingAssumption
     DEF RingInv, RingTypeOK, RingBufs, Indices, EMPTY, FILLED, FULL
<1> DEFINE r == Advance(rb.read_idx, Packet)
<1>2. /\ r \in Indices
      /\ r = IF rb.read_idx + Packet < Size THEN rb.read_idx + Packet
             ELSE rb.read_idx + Packet - Size
  <2>1. Packet \in 0 .. Size
    BY <1>1
  <2> QED BY <1>1, <2>1, AdvanceInRange
<1>3. /\ rb' = [read_idx |-> r, write_idx |-> rb.write_idx,
                state |-> IF r = rb.write_idx THEN EMPTY ELSE FILLED]
      /\ rb' \in RingBufs
  BY <1>1, <1>2
     DEF ra_ringbuf_advance_read_ptr, RingInv, RingTypeOK, RingBufs
<1> HIDE DEF r
<1>4. RingInv'
  BY <1>3 DEF RingInv, RingTypeOK, EMPTY, FILLED
<1>5. RingFact'
  BY <1>4, RingFacts, PTL
<1>6. RingFact
  BY RingFacts
<1>7. /\ rb'.read_idx = r /\ rb'.write_idx = rb.write_idx
      /\ rb'.state = IF r = rb.write_idx THEN 0 ELSE 1
  BY <1>3 DEF EMPTY, FILLED
<1>8. Unread' = Unread - Packet
  <2>1. Unread' = IF r = rb.write_idx THEN 0
                  ELSE IF rb.write_idx > r THEN rb.write_idx - r
                  ELSE rb.write_idx - r + Size
    BY <1>5, <1>7 DEF RingFact
  <2>2. CASE rb.state = 0
    BY <1>6, <2>2 DEF RingFact
  <2>3. CASE rb.state # 0 /\ rb.read_idx >= rb.write_idx
    <3>1. /\ Unread = rb.write_idx - rb.read_idx + Size
          /\ Packet \in Nat \ {0} /\ rb.read_idx + Packet <= Size
          /\ Size \in Nat /\ rb.read_idx \in Nat /\ rb.write_idx \in Nat
      BY <1>6, <2>3 DEF RingFact
    <3>2. CASE rb.read_idx + Packet < Size
      BY <1>2, <2>1, <2>3, <3>1, <3>2
    <3>3. CASE rb.read_idx + Packet = Size
      BY <1>2, <2>1, <2>3, <3>1, <3>3
    <3> QED BY <3>1, <3>2, <3>3
  <2>4. CASE rb.state # 0 /\ rb.read_idx < rb.write_idx
    BY <1>1, <1>2, <1>6, <2>1, <2>4 DEF RingFact
  <2> QED BY <1>6, <2>2, <2>3, <2>4 DEF RingFact
<1> QED BY <1>4, <1>7, <1>8 DEF r

-----------------------------------------------------------------------------
(* What a turn of the writer's loop may do.                                *)
ChunkFact(n) ==
  /\ n = ra_min(ra_ringbuf_free_count(rb), left)
  /\ \/ /\ n \in 1 .. ra_ringbuf_free_count(rb) /\ n <= left
        /\ mem' = Copied(rb.write_idx, n, pcm)
        /\ rb' = ra_ringbuf_advance_write_ptr(rb, n)
        /\ left' = left - n
     \/ /\ n = 0 /\ ra_ringbuf_free_count(rb) = 0
        /\ left' = 0
        /\ UNCHANGED <<rb, mem>>
  /\ UNCHANGED pcm
  /\ mem' \in [Indices -> Packets] /\ left' \in 0 .. Packet /\ pcm' \in Packets

(* A chunk that is written is one of n bytes, for some n.                  *)
LEMMA Chunk == ASSUME RingInv, WriteChunk PROVE \E n \in Nat : ChunkFact(n)
<1> DEFINE n == ra_min(ra_ringbuf_free_count(rb), left)
<1>1. /\ ra_ringbuf_free_count(rb) \in Nat /\ left \in 1 .. Packet
      /\ pcm \in Packets /\ mem \in [Indices -> Packets] /\ Packet \in Nat
  BY Counts, RingAssumption DEF WriteChunk, RingInv, RingTypeOK
<1>2. /\ n \in Nat /\ n <= left /\ n <= ra_ringbuf_free_count(rb)
      /\ n = 0 => ra_ringbuf_free_count(rb) = 0
  BY <1>1 DEF ra_min
<1>3. \/ /\ n > 0
         /\ mem' = Copied(rb.write_idx, n, pcm)
         /\ rb' = ra_ringbuf_advance_write_ptr(rb, n)
         /\ left' = left - n
      \/ /\ n = 0 /\ left' = 0 /\ UNCHANGED <<rb, mem>>
  BY DEF WriteChunk
<1>4. n = ra_min(ra_ringbuf_free_count(rb), left) /\ UNCHANGED pcm
  BY DEF WriteChunk
<1> HIDE DEF n
<1>5. /\ mem' \in [Indices -> Packets] /\ left' \in 0 .. Packet
      /\ pcm' \in Packets
  <2>1. CASE n > 0
    BY <1>1, <1>2, <1>3, <1>4, <2>1 DEF Copied
  <2>2. CASE n = 0
    BY <1>1, <1>2, <1>3, <1>4, <2>2
  <2> QED BY <1>2, <2>1, <2>2
<1>6. ChunkFact(n)
  <2>1. CASE n > 0
    <3>1. n \in 1 .. ra_ringbuf_free_count(rb)
      BY <1>1, <1>2, <2>1
    <3> QED BY <1>1, <1>2, <1>3, <1>4, <1>5, <2>1, <3>1 DEF ChunkFact
  <2>2. CASE n = 0
    BY <1>1, <1>2, <1>3, <1>4, <1>5, <2>2 DEF ChunkFact
  <2> QED BY <1>2, <2>1, <2>2
<1> QED BY <1>2, <1>6

(* A reset leaves the buffer as it was created.                            *)
LEMMA ResetEmpty ==
  ASSUME RingInv, rb' = ra_ringbuf_reset(rb), UNCHANGED <<mem, left, pcm>>
  PROVE  RingInv' /\ rb' = EmptyRing /\ Unread' = 0
<1>1. rb' = EmptyRing
  BY DEF RingInv, RingTypeOK, RingBufs, ra_ringbuf_reset, EmptyRing
<1>2. RingInv'
  BY <1>1, RingAssumption DEF RingInv, RingTypeOK, RingBufs, Indices, EmptyRing,
     EMPTY, FILLED
<1>3. RingFact'
  BY <1>2, RingFacts, PTL
<1> QED BY <1>1, <1>2, <1>3 DEF RingFact, EmptyRing, EMPTY

(* Every operation on the ring keeps its invariant.                        *)
LEMMA RingStep == RingInv /\ [RingNext]_ringVars => RingInv'
<1> SUFFICES ASSUME RingInv, [RingNext]_ringVars PROVE RingInv'
  OBVIOUS
<1>1. ASSUME NEW p \in Packets, Decode(p) PROVE RingInv'
  BY <1>1, RingAssumption DEF Decode, RingInv, RingTypeOK
<1>2. CASE WriteChunk
  <2>1. PICK n \in Nat : ChunkFact(n)
    BY <1>2, Chunk
  <2>2. CASE n # 0
    BY <2>1, <2>2, Written DEF ChunkFact
  <2>3. CASE n = 0
    BY <2>1, <2>3 DEF ChunkFact, RingInv, RingTypeOK
  <2> QED BY <2>2, <2>3
<1>3. CASE Play
  <2>1. ra_ringbuf_fill_count(rb) \in Nat /\ Packet \in Nat
    BY Counts, RingAssumption
  <2> QED BY <1>3, <2>1, WasRead DEF Play
<1>4. CASE Reset
  BY <1>4, ResetEmpty DEF Reset
<1>5. CASE UNCHANGED ringVars
  BY <1>5 DEF ringVars, RingInv, RingTypeOK
<1> QED BY <1>1, <1>2, <1>3, <1>4, <1>5 DEF RingNext

-----------------------------------------------------------------------------
(* The packets stay whole.                                                 *)
WholeInv == /\ RingInv
            /\ Aligned(rb.read_idx) /\ Aligned(rb.write_idx)
            /\ left \in {0, Packet}

(* So a packet that does not fit finds no room at all, and one that is     *)
(* there can be read in one piece.                                         *)
LEMMA WholeRoom ==
  ASSUME WholeInv
  PROVE  /\ Aligned(ra_ringbuf_free_count(rb)) /\ Aligned(Unread)
         /\ ra_ringbuf_free_count(rb) = 0 \/ ra_ringbuf_free_count(rb) >= Packet
         /\ Unread >= Packet => ra_ringbuf_fill_count(rb) >= Packet
<1>1. RingFact /\ Unread \in Nat
  BY RingFacts, UnreadIs, RingAssumption DEF WholeInv, UnreadFact
<1>2. /\ Size \in Nat /\ Packet \in Nat \ {0}
      /\ rb.read_idx \in Nat /\ rb.write_idx \in Nat
      /\ rb.read_idx < Size /\ rb.write_idx < Size
      /\ Aligned(Size) /\ Aligned(0)
      /\ Aligned(rb.read_idx) /\ Aligned(rb.write_idx)
  BY <1>1, SizeAligned DEF RingFact, WholeInv
<1>3. /\ Aligned(Size - rb.write_idx) /\ Aligned(Size - rb.read_idx)
      /\ Size - rb.write_idx >= Packet /\ Size - rb.read_idx >= Packet
  BY <1>2, AlignedDifference, NextAligned
<1>4. CASE rb.write_idx > rb.read_idx
  <2>1. Aligned(rb.write_idx - rb.read_idx) /\ rb.write_idx - rb.read_idx >= Packet
    BY <1>2, <1>4, AlignedDifference, NextAligned
  <2> QED BY <1>1, <1>2, <1>3, <1>4, <2>1 DEF RingFact
<1>5. CASE rb.write_idx <= rb.read_idx
  <2>1. Aligned(rb.read_idx - rb.write_idx)
    BY <1>2, <1>5, AlignedDifference
  <2>2. Aligned(Size - (rb.read_idx - rb.write_idx))
    BY <1>2, <1>5, <2>1, AlignedDifference
  <2>3. Size - (rb.read_idx - rb.write_idx) = rb.write_idx - rb.read_idx + Size
    BY <1>2
  <2>4. CASE rb.write_idx < rb.read_idx
    <3>1. rb.read_idx - rb.write_idx >= Packet
      BY <1>2, <2>4, NextAligned
    <3> QED BY <1>1, <1>2, <1>3, <2>1, <2>2, <2>3, <2>4, <3>1 DEF RingFact
  <2>5. CASE rb.write_idx = rb.read_idx
    BY <1>1, <1>2, <1>3, <2>2, <2>3, <2>5 DEF RingFact
  <2> QED BY <1>2, <1>5, <2>4, <2>5
<1> QED BY <1>2, <1>4, <1>5

(* Packets are whole in the empty ring.                                    *)
LEMMA WholeInit == RingInit => WholeInv
<1> SUFFICES ASSUME RingInit PROVE WholeInv
  OBVIOUS
<1>1. RingInv
  BY RingInitInv
<1> QED BY <1>1, SizeAligned DEF WholeInv, RingInit, EmptyRing

(* Every operation keeps packets whole.                                    *)
LEMMA WholeStep == WholeInv /\ [RingNext]_ringVars => WholeInv'
<1> SUFFICES ASSUME WholeInv, [RingNext]_ringVars PROVE WholeInv'
  OBVIOUS
<1>0. /\ RingInv /\ RingInv'
      /\ Aligned(rb.read_idx) /\ Aligned(rb.write_idx) /\ left \in {0, Packet}
      /\ rb.read_idx \in Indices /\ rb.write_idx \in Indices
      /\ Packet \in Nat \ {0} /\ Size \in Nat
      /\ rb = [read_idx |-> rb.read_idx, write_idx |-> rb.write_idx,
               state |-> rb.state]
  BY RingStep, RingAssumption DEF WholeInv, RingInv, RingTypeOK, RingBufs
<1>1. ASSUME NEW p \in Packets, Decode(p) PROVE WholeInv'
  BY <1>0, <1>1 DEF Decode, WholeInv
<1>2. CASE WriteChunk
  <2>1. PICK n \in Nat : ChunkFact(n)
    BY <1>0, <1>2, Chunk
  <2>2. CASE n # 0
    <3>1. left = Packet /\ n = Packet
      BY <1>0, <2>1, <2>2, WholeRoom DEF ChunkFact, ra_min, WholeInv
    <3>2. rb' = ra_ringbuf_advance_write_ptr(rb, Packet) /\ left' = 0
      BY <1>0, <2>1, <2>2, <3>1 DEF ChunkFact
    <3>3. /\ rb'.write_idx = Advance(rb.write_idx, Packet)
          /\ rb'.read_idx = rb.read_idx
      BY <1>0, <3>2 DEF ra_ringbuf_advance_write_ptr
    <3> QED BY <1>0, <3>2, <3>3, IndexRoom DEF WholeInv
  <2>3. CASE n = 0
    BY <1>0, <2>1, <2>3 DEF ChunkFact, WholeInv
  <2> QED BY <2>2, <2>3
<1>3. CASE Play
  <2>1. /\ rb'.read_idx = Advance(rb.read_idx, Packet)
        /\ rb'.write_idx = rb.write_idx
    BY <1>0, <1>3 DEF Play, ra_ringbuf_advance_read_ptr
  <2> QED BY <1>0, <1>3, <2>1, IndexRoom DEF Play, WholeInv
<1>4. CASE Reset
  BY <1>0, <1>4, ResetEmpty, SizeAligned DEF Reset, WholeInv, EmptyRing
<1>5. CASE UNCHANGED ringVars
  BY <1>0, <1>5 DEF ringVars, WholeInv
<1> QED BY <1>1, <1>2, <1>3, <1>4, <1>5 DEF RingNext

(* handle_stream_data half drops no packet, and audio_callback can play    *)
(* what is in the buffer.                                                  *)
THEOREM WholePacketsCorrect == RingSpec => []WholePackets
<1>1. WholeInv => WholePackets
  <2> SUFFICES ASSUME WholeInv PROVE WholePackets
    OBVIOUS
  <2>1. Unread \in Nat
    BY UnreadIs, RingAssumption DEF WholeInv, UnreadFact
  <2> QED BY <2>1, WholeRoom, AlignedMod DEF WholeInv, WholePackets, NeverWedged
<1> QED BY WholeInit, WholeStep, <1>1, PTL DEF RingSpec

-----------------------------------------------------------------------------
(* The refinement: the bytes from read_idx on are the queue.               *)
Contents == [k \in 1 .. Unread |-> mem[Advance(rb.read_idx, k - 1)]]

ContentsFact ==
  /\ Contents \in Seq(Packets) /\ Len(Contents) = Unread
  /\ Unread \in 0 .. Size
  /\ \A k \in 1 .. Unread : Contents[k] = mem[Advance(rb.read_idx, k - 1)]

(* What the ring holds is a sequence of bytes, as long as what is unread.  *)
LEMMA ContentsSeq == RingInv => ContentsFact
<1> SUFFICES ASSUME RingInv PROVE ContentsFact
  OBVIOUS
<1>1. Unread \in 0 .. Size /\ Size \in Nat
  BY UnreadIs, RingAssumption DEF UnreadFact
<1>2. ASSUME NEW k \in 1 .. Unread
      PROVE  mem[Advance(rb.read_idx, k - 1)] \in Packets
  <2>1. k - 1 \in 0 .. Size /\ rb.read_idx \in Indices
    BY <1>1 DEF RingInv, RingTypeOK, RingBufs
  <2> QED BY <2>1, AdvanceInRange DEF RingInv, RingTypeOK
<1>3. Contents \in [1 .. Unread -> Packets]
  BY <1>2 DEF Contents
<1>4. Contents \in Seq(Packets)
  BY <1>1, <1>3
<1>5. Len(Contents) = Unread
  BY <1>1, <1>3, <1>4, LenProperties
<1> QED BY <1>1, <1>4, <1>5 DEF Contents, ContentsFact

(* A turn of the writer's loop appends what it writes: the bytes it copies *)
(* over are none of the queue.                                             *)
LEMMA PutImplemented ==
  ASSUME RingInv, NEW n \in Nat \ {0}, ChunkFact(n)
  PROVE  n \in 1 .. Size /\ pcm \in Packets /\ Queue!Put(pcm, n)
<1>1. /\ n \in 1 .. ra_ringbuf_free_count(rb)
      /\ mem' = Copied(rb.write_idx, n, pcm)
      /\ rb' = ra_ringbuf_advance_write_ptr(rb, n)
      /\ pcm \in Packets
  BY DEF ChunkFact
<1>2. RingInv' /\ Unread' = Unread + n /\ rb'.read_idx = rb.read_idx
  BY <1>1, Written DEF ChunkFact
<1>3. ContentsFact
  BY ContentsSeq
<1>4. ContentsFact'
  BY <1>2, ContentsSeq, PTL
<1>5. RingFact /\ Unread + n <= Size /\ n \in 1 .. Size /\ Unread \in Nat
  <2>1. /\ ra_ringbuf_free_count(rb) \in 0 .. Size
        /\ Unread + ra_ringbuf_free_count(rb) <= Size
        /\ Unread \in 0 .. Size /\ Size \in Nat
    BY Counts, <1>3, RingAssumption DEF ContentsFact
  <2> QED BY <1>1, <2>1, RingFacts
<1> DEFINE added == [k \in 1 .. n |-> pcm]
<1>6. added \in Seq(Packets) /\ Len(added) = n
  BY <1>1
<1>7. ASSUME NEW k \in 1 .. Unread + n
      PROVE  /\ Advance(rb.read_idx, k - 1) \in Indices
             /\ k <= Unread <=> ~(/\ Advance(rb.read_idx, k - 1) >= rb.write_idx
                                 /\ Advance(rb.read_idx, k - 1) < rb.write_idx + n)
  <2> DEFINE i == Advance(rb.read_idx, k - 1)
  <2>1. /\ rb.read_idx \in 0 .. Size - 1 /\ rb.write_idx \in 0 .. Size - 1
        /\ k - 1 \in 0 .. Size /\ Size \in Nat /\ n \in Nat /\ n >= 1
        /\ n <= ra_ringbuf_free_count(rb) /\ ra_ringbuf_free_count(rb) \in Nat
        /\ rb.read_idx \in Indices
    BY <1>1, <1>5, Counts, RingAssumption DEF RingFact, Indices
  <2>2. /\ i \in Indices
        /\ i = IF rb.read_idx + (k - 1) < Size THEN rb.read_idx + (k - 1)
               ELSE rb.read_idx + (k - 1) - Size
    BY <2>1, AdvanceInRange
  <2> HIDE DEF i
  <2> DEFINE Claim == k <= Unread <=> ~(i >= rb.write_idx /\ i < rb.write_idx + n)
  <2> SUFFICES Claim
    BY <2>2 DEF i
  <2>3. CASE rb.state = 0
    BY <1>5, <2>1, <2>2, <2>3 DEF RingFact
  <2>4. CASE rb.state = 1 /\ rb.write_idx > rb.read_idx
    BY <1>5, <2>1, <2>2, <2>4 DEF RingFact
  <2>5. CASE rb.state = 1 /\ rb.write_idx < rb.read_idx
    <3>1. /\ Unread = rb.write_idx - rb.read_idx + Size
          /\ n <= rb.read_idx - rb.write_idx
      BY <1>5, <2>1, <2>5 DEF RingFact
    <3>2. CASE rb.read_idx + (k - 1) < Size
      BY <2>1, <2>2, <3>1, <3>2
    <3>3. CASE rb.read_idx + (k - 1) >= Size
      BY <2>1, <2>2, <3>1, <3>3
    <3> QED BY <2>1, <3>2, <3>3
  <2>6. CASE rb.state = 2
    BY <1>5, <2>1, <2>6 DEF RingFact
  <2> QED BY <1>5, <2>1, <2>3, <2>4, <2>5, <2>6 DEF RingFact
<1>8. ASSUME NEW k \in 1 .. Unread + n
      PROVE  Contents'[k] = IF k <= Unread THEN Contents[k] ELSE pcm
  <2> DEFINE i == Advance(rb.read_idx, k - 1)
  <2>1. i \in Indices
    BY <1>7
  <2>2. Contents'[k] = mem'[i]
    BY <1>2, <1>4 DEF ContentsFact
  <2>3. mem'[i] = IF i >= rb.write_idx /\ i < rb.write_idx + n THEN pcm ELSE mem[i]
    BY <1>1, <2>1 DEF Copied
  <2>4. k <= Unread => Contents[k] = mem[i]
    BY <1>3, <1>5 DEF ContentsFact
  <2>5. k <= Unread <=> ~(i >= rb.write_idx /\ i < rb.write_idx + n)
    BY <1>7
  <2> HIDE DEF i
  <2> QED BY <2>2, <2>3, <2>4, <2>5
<1>9. Contents' = Contents \o added
  <2>1. /\ Contents \o added \in Seq(Packets)
        /\ Len(Contents \o added) = Unread + n
        /\ \A k \in 1 .. Unread + n :
             (Contents \o added)[k] = IF k <= Unread THEN Contents[k]
                                       ELSE added[k - Unread]
    <3>1. Contents \in Seq(Packets) /\ Len(Contents) = Unread
      BY <1>3 DEF ContentsFact
    <3> HIDE DEF added
    <3> QED BY <1>6, <3>1, ConcatProperties
  <2>2. ASSUME NEW k \in 1 .. Unread + n
        PROVE  (Contents \o added)[k] = Contents'[k]
    BY <1>5, <1>8, <2>1
  <2>3. Contents' \in Seq(Packets) /\ Len(Contents') = Unread + n
    BY <1>2, <1>4 DEF ContentsFact
  <2> HIDE DEF added
  <2> QED BY <2>1, <2>2, <2>3
<1> QED BY <1>1, <1>3, <1>5, <1>9 DEF Queue!Put, Contents, ContentsFact

(* A callback that plays takes the oldest packet.                          *)
LEMMA TakeImplemented ==
  ASSUME RingInv, Play
  PROVE  Packet \in 1 .. Size /\ Queue!Take(Packet)
<1>1. /\ Packet <= ra_ringbuf_fill_count(rb)
      /\ rb' = ra_ringbuf_advance_read_ptr(rb, Packet)
      /\ UNCHANGED <<mem, left, pcm>>
  <2>1. ra_ringbuf_fill_count(rb) \in Nat /\ Packet \in Nat
    BY Counts, RingAssumption
  <2> QED BY <2>1 DEF Play
<1>2. /\ RingInv' /\ Unread' = Unread - Packet
      /\ rb'.read_idx = Advance(rb.read_idx, Packet)
  BY <1>1, WasRead
<1>3. ContentsFact
  BY ContentsSeq
<1>4. ContentsFact'
  BY <1>2, ContentsSeq, PTL
<1>5. /\ Packet \in 1 .. Size /\ Packet <= Unread /\ Unread \in 0 .. Size
      /\ rb.read_idx \in Indices /\ Size \in Nat \ {0} /\ Packet \in 0 .. Size
      /\ Indices = 0 .. Size - 1
  BY <1>1, <1>3, Counts, RingAssumption
     DEF ContentsFact, RingInv, RingTypeOK, RingBufs, Indices
<1> DEFINE rest == SubSeq(Contents, Packet + 1, Unread)
<1>6. /\ rest \in Seq(Packets) /\ Len(rest) = Unread - Packet
      /\ \A k \in 1 .. Unread - Packet : rest[k] = Contents[Packet + k]
  <2>1. \A k \in Packet + 1 .. Unread : Contents[k] \in Packets
    BY <1>3, <1>5, ElementOfSeq DEF ContentsFact
  <2>2. Packet + 1 \in Int /\ Unread \in Int
    BY <1>5
  <2>3. /\ rest \in Seq(Packets)
        /\ Len(rest) = IF Packet + 1 <= Unread THEN Unread - (Packet + 1) + 1 ELSE 0
        /\ \A k \in 1 .. Unread - (Packet + 1) + 1 :
             rest[k] = Contents[Packet + 1 + k - 1]
    BY <2>1, <2>2, SubSeqProperties
  <2> HIDE DEF rest
  <2> QED BY <1>5, <2>3
<1>7. ASSUME NEW k \in 1 .. Unread - Packet
      PROVE  Contents'[k] = rest[k]
  <2>1. Packet + k \in 1 .. Unread /\ k - 1 \in 0 .. Size
        /\ (Packet + k) - 1 \in 0 .. Size
    BY <1>5
  <2>2. /\ Advance(rb.read_idx, Packet) \in Indices
        /\ Advance(rb.read_idx, Packet) =
             IF rb.read_idx + Packet < Size THEN rb.read_idx + Packet
             ELSE rb.read_idx + Packet - Size
    BY <1>5, AdvanceInRange
  <2>3. Advance(rb.read_idx, (Packet + k) - 1) =
          IF rb.read_idx + ((Packet + k) - 1) < Size
          THEN rb.read_idx + ((Packet + k) - 1)
          ELSE rb.read_idx + ((Packet + k) - 1) - Size
    BY <1>5, <2>1, AdvanceInRange
  <2> DEFINE r == Advance(rb.read_idx, Packet)
  <2>4. Advance(r, k - 1) = IF r + (k - 1) < Size THEN r + (k - 1)
                            ELSE r + (k - 1) - Size
    BY <2>1, <2>2, AdvanceInRange
  <2>5. Advance(r, k - 1) = Advance(rb.read_idx, (Packet + k) - 1)
    <3> HIDE DEF r
    <3>1. r = IF rb.read_idx + Packet < Size THEN rb.read_idx + Packet
             ELSE rb.read_idx + Packet - Size
      BY <2>2 DEF r
    <3> QED BY SMTT(20), <1>5, <2>1, <2>3, <2>4, <3>1
  <2>6. Contents'[k] = mem[Advance(r, k - 1)]
    BY <1>1, <1>2, <1>4 DEF ContentsFact
  <2>7. rest[k] = mem[Advance(rb.read_idx, (Packet + k) - 1)]
    BY <1>3, <1>6, <2>1 DEF ContentsFact
  <2> QED BY <2>5, <2>6, <2>7
<1>8. Contents' = rest
  <2>1. Contents' \in Seq(Packets) /\ Len(Contents') = Unread - Packet
    BY <1>2, <1>4 DEF ContentsFact
  <2> HIDE DEF rest
  <2> QED BY <1>6, <1>7, <2>1
<1> QED BY <1>3, <1>5, <1>8 DEF Queue!Take, Contents, ContentsFact

(* Every operation is one of the byte queue, or no step of it.             *)
LEMMA QueueStep ==
  RingInv /\ [RingNext]_ringVars => [Queue!Next]_Contents
<1> SUFFICES ASSUME RingInv, [RingNext]_ringVars PROVE [Queue!Next]_Contents
  OBVIOUS
<1>1. ASSUME UNCHANGED <<rb, mem>> PROVE UNCHANGED Contents
  BY <1>1 DEF Contents, Unread
<1>2. ASSUME NEW p \in Packets, Decode(p) PROVE UNCHANGED Contents
  BY <1>1, <1>2 DEF Decode
<1>3. CASE WriteChunk
  <2>1. PICK n \in Nat : ChunkFact(n)
    BY <1>3, Chunk
  <2>2. CASE n # 0
    BY <2>1, <2>2, PutImplemented DEF Queue!Next
  <2>3. CASE n = 0
    BY <1>1, <2>1, <2>3 DEF ChunkFact
  <2> QED BY <2>2, <2>3
<1>4. CASE Play
  BY <1>4, TakeImplemented DEF Queue!Next
<1>5. CASE Reset
  <2>1. RingInv' /\ Unread' = 0
    BY <1>5, ResetEmpty DEF Reset
  <2>2. ContentsFact'
    BY <2>1, ContentsSeq, PTL
  <2>3. Contents' = <<>>
    BY <2>1, <2>2 DEF ContentsFact
  <2> QED BY <2>3 DEF Queue!Next, Queue!Clear, Contents
<1>6. CASE UNCHANGED ringVars
  BY <1>1, <1>6 DEF ringVars
<1> QED BY <1>2, <1>3, <1>4, <1>5, <1>6 DEF RingNext

(* The ra_ringbuf functions implement the queue of ByteQueue, for any size *)
(* of packets: no alignment is used.                                       *)
THEOREM QueueImplemented == RingSpec => QueueSpec
<1>1. RingInit => Queue!Init
  <2> SUFFICES ASSUME RingInit PROVE Queue!Init
    OBVIOUS
  <2>1. RingFact /\ ContentsFact /\ rb.state = 0
    BY RingInitInv, ContentsSeq, RingFacts DEF RingInit, EmptyRing, EMPTY
  <2>2. Contents = <<>>
    BY <2>1 DEF ContentsFact, RingFact
  <2> QED BY <2>2 DEF Queue!Init, Contents
<1> QED BY RingInitInv, RingStep, <1>1, QueueStep, PTL
        DEF RingSpec, QueueSpec, Queue!Spec, Contents
=============================================================================
