------------------------------ MODULE RingBuf ------------------------------
(***************************************************************************)
(* The ring buffer of src/lib/utils.c between the decoder of a slot and    *)
(* the audio callback that plays it: its operations as operators on the    *)
(* record ra_ringbuf_t, and the machine of the two users when no two       *)
(* operations on the buffer overlap.  RingBufThreads takes the operations  *)
(* apart into their atomic accesses.                                       *)
(*                                                                         *)
(* A byte is abstracted to the packet it belongs to.                       *)
(***************************************************************************)
EXTENDS Integers, Sequences

CONSTANTS Size,      \* rb->size, RING_BUFFER_SIZE in the sink
          Packet,    \* bytes of one decoded packet, and of one callback
          Packets    \* what a packet may hold

ASSUME RingAssumption == /\ Size \in Nat \ {0}
                         /\ Packet \in 1 .. Size

EMPTY == 0
FILLED == 1
FULL == 2

Indices == 0 .. Size - 1
RingBufs == [read_idx : Indices, write_idx : Indices, state : {EMPTY, FILLED, FULL}]

ra_min(a, b) == IF a < b THEN a ELSE b

(* Fault: one byte is kept free.                                           *)
free_count_but_one(ring) ==
  IF ring.state = FULL THEN 0
  ELSE (IF ring.read_idx > ring.write_idx THEN ring.read_idx
                                          ELSE Size - 1) - ring.write_idx

(* The bytes that can be read, or written, before the end of the memory.   *)
ra_ringbuf_fill_count(ring) ==
  IF ring.state = EMPTY THEN 0
  ELSE (IF ring.write_idx > ring.read_idx THEN ring.write_idx ELSE Size) - ring.read_idx

ra_ringbuf_free_count(ring) ==
  IF ring.state = FULL THEN 0
  ELSE (IF ring.read_idx > ring.write_idx THEN ring.read_idx ELSE Size) - ring.write_idx

(* Fault: an index does not wrap.                                          *)
AdvanceUnwrapped(idx, count) == idx + count

Advance(idx, count) == (idx + count) % Size

ra_ringbuf_advance_read_ptr(ring, count) ==
  LET r == Advance(ring.read_idx, count)
  IN [ring EXCEPT !.read_idx = r,
                !.state = IF r = ring.write_idx THEN EMPTY ELSE FILLED]

(* Fault: the write that fills the buffer is not told from any other.      *)
advance_write_never_full(ring, count) ==
  [ring EXCEPT !.write_idx = Advance(@, count), !.state = FILLED]

ra_ringbuf_advance_write_ptr(ring, count) ==
  LET w == Advance(ring.write_idx, count)
  IN [ring EXCEPT !.write_idx = w,
                !.state = IF w = ring.read_idx THEN FULL ELSE FILLED]

ra_ringbuf_reset(ring) ==
  [ring EXCEPT !.read_idx = 0, !.write_idx = 0, !.state = EMPTY]

EmptyRing == [read_idx |-> 0, write_idx |-> 0, state |-> EMPTY]

-----------------------------------------------------------------------------
VARIABLES rb,     \* the ring buffer of a slot
          mem,    \* rb->buf, the packet each byte belongs to
          left,   \* bytes of the decoded packet not yet in the buffer
          pcm     \* the decoded packet

ringVars == <<rb, mem, left, pcm>>

RingTypeOK == /\ rb \in RingBufs
              /\ mem \in [Indices -> Packets]
              /\ left \in 0 .. Packet
              /\ pcm \in Packets

(* calloc, then malloc: the memory holds anything.                         *)
RingInit == /\ rb = EmptyRing
            /\ mem \in [Indices -> Packets]
            /\ left = 0
            /\ pcm \in Packets

Copied(from, count, p) ==
  [i \in Indices |-> IF i >= from /\ i < from + count THEN p ELSE mem[i]]

Decode(p) == /\ left = 0
             /\ left' = Packet
             /\ pcm' = p
             /\ UNCHANGED <<rb, mem>>

(* One turn of the loop of handle_stream_data.                             *)
WriteChunk ==
  LET wbytes == ra_min(ra_ringbuf_free_count(rb), left)
  IN /\ left > 0
     /\ \/ /\ wbytes > 0
           /\ mem' = Copied(rb.write_idx, wbytes, pcm)
           /\ rb' = ra_ringbuf_advance_write_ptr(rb, wbytes)
           /\ left' = left - wbytes
        \/ /\ wbytes = 0
           /\ left' = 0
           /\ UNCHANGED <<rb, mem>>
     /\ UNCHANGED pcm

(* The callback plays a whole packet or, when fewer bytes can be read in   *)
(* one piece, silence.                                                     *)
Play == /\ ra_ringbuf_fill_count(rb) >= Packet
        /\ rb' = ra_ringbuf_advance_read_ptr(rb, Packet)
        /\ UNCHANGED <<mem, left, pcm>>

(* audio_stream_open, before the callback is started.                      *)
Reset == /\ left = 0
         /\ rb' = ra_ringbuf_reset(rb)
         /\ UNCHANGED <<mem, left, pcm>>

RingNext == (\E p \in Packets : Decode(p)) \/ WriteChunk \/ Play \/ Reset

RingSpec == RingInit /\ [][RingNext]_ringVars

-----------------------------------------------------------------------------
(* All bytes that were written and not read, up to the end of the memory   *)
(* and from its start.                                                     *)
Unread == CASE rb.state = EMPTY -> 0
            [] rb.state = FULL -> Size
            [] OTHER -> (rb.write_idx - rb.read_idx) % Size

Queue == INSTANCE ByteQueue WITH
           Bytes <- Packets, Capacity <- Size,
           queue <- [k \in 1 .. Unread |-> mem[Advance(rb.read_idx, k - 1)]]

(* With no overlap the ring buffer is a queue, wherever the indices wrap   *)
(* and whether or not packets divide its size (the ra_ringbuf functions).  *)
QueueSpec == Queue!Spec

(* A packet in the buffer can be played: no packet is torn by the end of   *)
(* the memory, where audio_callback would find less than a packet, play    *)
(* silence and never move on.                                              *)
NeverWedged == Unread >= Packet => ra_ringbuf_fill_count(rb) >= Packet

(* As long as packets divide the buffer, none is half dropped when the     *)
(* buffer overflows, and what is in it can be played (handle_stream_data,  *)
(* audio_callback).                                                        *)
WholePackets == /\ left \in {0, Packet} /\ Unread % Packet = 0
                /\ NeverWedged
=============================================================================
