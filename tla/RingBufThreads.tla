--------------------------- MODULE RingBufThreads ---------------------------
(***************************************************************************)
(* The ring buffer of a slot as its two threads use it: the sink's main    *)
(* loop, in handle_stream_data, writes a decoded packet while PortAudio's  *)
(* thread, in audio_callback, reads one.  There is no lock.  Each atomic   *)
(* access to what the other thread may change is one step: the loads of    *)
(* fill_count and free_count, which read the other's index twice, and the  *)
(* store, load and store of the advance functions.                         *)
(***************************************************************************)
EXTENDS RingBuf

ASSUME AlignmentAssumption == Size % Packet = 0

VARIABLES writer,  \* [pc, count, flag]: the main loop
          reader,  \* [pc, flag]: the audio callback
          moved    \* who stored an index last (history only)

vars == <<rb, mem, left, pcm, writer, reader, moved>>

WriterStates == [pc : {"idle", "free1", "free2", "free3", "copy", "index",
                       "check", "flag"},
                 count : 0 .. Packet, flag : {EMPTY, FILLED, FULL}]
ReaderStates == [pc : {"idle", "fill1", "fill2", "fill3", "copy", "index",
                       "check", "flag"},
                 flag : {EMPTY, FILLED, FULL}]

TypeOK == /\ RingTypeOK
          /\ writer \in WriterStates
          /\ reader \in ReaderStates
          /\ moved \in {"writer", "reader"}

Init == /\ RingInit
        /\ writer = [pc |-> "idle", count |-> 0, flag |-> EMPTY]
        /\ reader = [pc |-> "idle", flag |-> EMPTY]
        /\ moved = "reader"

(* size_t arithmetic: a difference below zero is a huge number, of which   *)
(* ra_min leaves what was asked for.                                       *)
MinOfDifference(a, b, most) == IF a < b THEN most ELSE ra_min(a - b, most)

-----------------------------------------------------------------------------
WriterAt(pc) == writer.pc = pc
WriterGoesTo(pc) == writer' = [writer EXCEPT !.pc = pc]

(* "Ring buffer overflow!": the rest of the packet is dropped.             *)
Overflow == left' = 0 /\ WriterGoesTo("idle")

WriterBegin == /\ WriterAt("idle")
               /\ \E p \in Packets : Decode(p)
               /\ WriterGoesTo("free1")
               /\ UNCHANGED <<reader, moved>>

WriterLoadState ==
  /\ WriterAt("free1")
  /\ \/ rb.state = FULL /\ Overflow
     \/ rb.state # FULL /\ WriterGoesTo("free2") /\ UNCHANGED left
  /\ UNCHANGED <<rb, mem, pcm, reader, moved>>

WriterLoadIndex ==
  /\ WriterAt("free2")
  /\ writer' = IF rb.read_idx > rb.write_idx
                 THEN [writer EXCEPT !.pc = "free3"]
                 ELSE [writer EXCEPT !.pc = "copy",
                         !.count = MinOfDifference(Size, rb.write_idx, left)]
  /\ UNCHANGED <<rb, mem, left, pcm, reader, moved>>

WriterReloadIndex ==
  /\ WriterAt("free3")
  /\ LET count == MinOfDifference(rb.read_idx, rb.write_idx, left)
     IN \/ count = 0 /\ Overflow
        \/ /\ count # 0
           /\ writer' = [writer EXCEPT !.pc = "copy", !.count = count]
           /\ UNCHANGED left
  /\ UNCHANGED <<rb, mem, pcm, reader, moved>>

WriterCopy ==
  /\ WriterAt("copy")
  /\ mem' = Copied(rb.write_idx, writer.count, pcm)
  /\ WriterGoesTo("index")
  /\ UNCHANGED <<rb, left, pcm, reader, moved>>

WriterStoreIndex ==
  /\ WriterAt("index")
  /\ rb' = [rb EXCEPT !.write_idx = Advance(@, writer.count)]
  /\ moved' = "writer"
  /\ WriterGoesTo("check")
  /\ UNCHANGED <<mem, left, pcm, reader>>

WriterCompare ==
  /\ WriterAt("check")
  /\ writer' = [writer EXCEPT !.pc = "flag",
                  !.flag = IF rb.write_idx = rb.read_idx THEN FULL ELSE FILLED]
  /\ UNCHANGED <<rb, mem, left, pcm, reader, moved>>

(* Fault: the state flag is not stored, so the reader is told nothing.     *)
WriterKeepsState ==
  /\ WriterAt("flag")
  /\ left' = left - writer.count
  /\ WriterGoesTo(IF left = writer.count THEN "idle" ELSE "free1")
  /\ UNCHANGED <<rb, mem, pcm, reader, moved>>

WriterStoreState ==
  /\ WriterAt("flag")
  /\ rb' = [rb EXCEPT !.state = writer.flag]
  /\ left' = left - writer.count
  /\ WriterGoesTo(IF left = writer.count THEN "idle" ELSE "free1")
  /\ UNCHANGED <<mem, pcm, reader, moved>>

WriterSteps == \/ WriterLoadState
               \/ WriterLoadIndex
               \/ WriterReloadIndex
               \/ WriterCopy
               \/ WriterStoreIndex
               \/ WriterCompare
               \/ WriterStoreState

-----------------------------------------------------------------------------
ReaderAt(pc) == reader.pc = pc
ReaderGoesTo(pc) == reader' = [reader EXCEPT !.pc = pc]

ReaderBegin == /\ ReaderAt("idle")
               /\ ReaderGoesTo("fill1")
               /\ UNCHANGED <<rb, mem, left, pcm, writer, moved>>

(* A callback that cannot read a whole packet plays silence and returns.   *)
ReaderHas(count) == ReaderGoesTo(IF count < Packet THEN "idle" ELSE "copy")

ReaderLoadState ==
  /\ ReaderAt("fill1")
  /\ IF rb.state = EMPTY THEN ReaderHas(0) ELSE ReaderGoesTo("fill2")
  /\ UNCHANGED <<rb, mem, left, pcm, writer, moved>>

ReaderLoadIndex ==
  /\ ReaderAt("fill2")
  /\ IF rb.write_idx > rb.read_idx
       THEN ReaderGoesTo("fill3")
       ELSE ReaderHas(MinOfDifference(Size, rb.read_idx, Packet))
  /\ UNCHANGED <<rb, mem, left, pcm, writer, moved>>

ReaderReloadIndex ==
  /\ ReaderAt("fill3")
  /\ ReaderHas(MinOfDifference(rb.write_idx, rb.read_idx, Packet))
  /\ UNCHANGED <<rb, mem, left, pcm, writer, moved>>

ReaderCopy ==
  /\ ReaderAt("copy")
  /\ ReaderGoesTo("index")
  /\ UNCHANGED <<rb, mem, left, pcm, writer, moved>>

(* Fault: the buffer is advanced by the frames played, not by their bytes. *)
ReaderAdvancesFrames ==
  /\ ReaderAt("index")
  /\ rb' = [rb EXCEPT !.read_idx = Advance(@, 1)]
  /\ moved' = "reader"
  /\ ReaderGoesTo("check")
  /\ UNCHANGED <<mem, left, pcm, writer>>

ReaderStoreIndex ==
  /\ ReaderAt("index")
  /\ rb' = [rb EXCEPT !.read_idx = Advance(@, Packet)]
  /\ moved' = "reader"
  /\ ReaderGoesTo("check")
  /\ UNCHANGED <<mem, left, pcm, writer>>

ReaderCompare ==
  /\ ReaderAt("check")
  /\ reader' = [reader EXCEPT !.pc = "flag",
                  !.flag = IF rb.read_idx = rb.write_idx THEN EMPTY ELSE FILLED]
  /\ UNCHANGED <<rb, mem, left, pcm, writer, moved>>

ReaderStoreState ==
  /\ ReaderAt("flag")
  /\ rb' = [rb EXCEPT !.state = reader.flag]
  /\ ReaderGoesTo("idle")
  /\ UNCHANGED <<mem, left, pcm, writer, moved>>

ReaderSteps == \/ ReaderBegin
               \/ ReaderLoadState
               \/ ReaderLoadIndex
               \/ ReaderReloadIndex
               \/ ReaderCopy
               \/ ReaderStoreIndex
               \/ ReaderCompare
               \/ ReaderStoreState

Next == WriterBegin \/ WriterSteps \/ ReaderSteps

Spec == Init /\ [][Next]_vars

(* Packets keep coming and callbacks keep being made, and each thread is   *)
(* scheduled while it is inside the ring buffer.                           *)
FairSpec == Spec /\ WF_vars(WriterBegin) /\ WF_vars(WriterSteps) /\ WF_vars(ReaderSteps)

-----------------------------------------------------------------------------
(* Both memcpy stay inside rb->buf, also when the index that was compared  *)
(* is not the one that was subtracted (ra_ringbuf_fill_count and           *)
(* ra_ringbuf_free_count load it twice, and size_t wraps around).          *)
InBounds ==
  /\ WriterAt("copy") => rb.write_idx + writer.count <= Size
  /\ ReaderAt("copy") => rb.read_idx + Packet <= Size

(* Even a stale state flag never stops the sound for good: the callback    *)
(* plays packets, and the main loop stores them, again and again.          *)
KeepsMoving == []<>ReaderAt("copy") /\ []<>WriterAt("copy")

(* test/ratest_utils.c: once what was written is all read, and no          *)
(* operation is under way, the fill count is 0.                            *)
Quiet == WriterAt("idle") /\ ReaderAt("idle")

DrainedIsEmpty ==
  Quiet /\ rb.read_idx = rb.write_idx /\ moved = "reader"
    => ra_ringbuf_fill_count(rb) = 0
=============================================================================
