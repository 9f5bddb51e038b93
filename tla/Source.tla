------------------------------- MODULE Source -------------------------------
(***************************************************************************)
(* The sources, src/app/source.c: each is one process with a main loop     *)
(* that receives datagrams and watches the heartbeat timeout, an audio     *)
(* callback that sends the captured sound, and a signal handler.           *)
(*                                                                         *)
(* hb is the age of last_heartbeat, capped at the timeout.  An iteration   *)
(* of the loop is one step: the datagram it received, if any, and then the *)
(* timeout check.                                                          *)
(***************************************************************************)
EXTENDS Network

CONSTANT HEARTBEAT_TIMEOUT    \* ticks of silence before a new handshake

ASSUME SourceAssumption == HEARTBEAT_TIMEOUT \in Nat \ {0}

VARIABLE src                  \* the state of each source process

(* run: "off" before source_main sent its handshake, "running" while       *)
(* is_running, "stopping" from its reset to the end of the loop, "exited". *)
(* st: 0 = uninitialized, 1 = handshake sent, 2 = handshake completed.     *)
Handshakes == 0 .. 2
Silences == 0 .. HEARTBEAT_TIMEOUT
SourceStates == [run : {"off", "running", "stopping", "exited"},
                 st : Handshakes,
                 stream : Streams(Slots, Secrets),
                 hb : Silences]

SourceTypeOK == src \in [Sources -> SourceStates]

NoProcess(run) ==
  [run |-> run, st |-> 0, stream |-> ra_stream_create(0), hb |-> 0]

SourceInit == src = [s \in Sources |-> NoProcess("off")]

Alive(s) == src[s].run \in {"running", "stopping"}
Established(s) == Alive(s) /\ src[s].st = 2

send_handshake(inflight, s) == ra_buf_sendto(inflight, create_handshake_message(s))

SourceStart(s) ==
  /\ src[s].run = "off"
  /\ src' = [src EXCEPT ![s].run = "running", ![s].st = 1, ![s].hb = 0]
  /\ net' = send_handshake(net, s)

-----------------------------------------------------------------------------
(* Faults: a response is taken in any state; or only before the handshake. *)
response_in_any_state(c, s, m) ==
  [c EXCEPT !.st = 2, !.hb = 0,
            !.stream = [@ EXCEPT !.id = m.id, !.secret = SecretOf(s, m.key)]]

response_before_handshake(c, s, m) ==
  IF c.st > 0 THEN c ELSE response_in_any_state(c, s, m)

handle_handshake_response(c, s, m) ==
  IF c.st > 1 THEN c
  ELSE [c EXCEPT !.st = 2, !.hb = 0,
                 !.stream = [@ EXCEPT !.id = m.id, !.secret = SecretOf(s, m.key)]]

(* Fault: what is read does not count as a heartbeat.                      *)
message_read_only(c, m) ==
  IF m.id = c.stream.id /\ Readable(c.stream, m)
    THEN [c EXCEPT !.stream = ra_stream_read(@, m)]
    ELSE c

(* Every message the stream can read counts as a heartbeat, in any state.  *)
handle_message_crypto(c, m) ==
  IF m.id = c.stream.id /\ Readable(c.stream, m)
    THEN [c EXCEPT !.stream = ra_stream_read(@, m), !.hb = 0]
    ELSE c

handle_message(c, s, m) ==
  IF m.type = "RA_HANDSHAKE_RESPONSE" THEN handle_handshake_response(c, s, m)
                                      ELSE handle_message_crypto(c, m)

(* The cleanup of source_main frees everything the process kept.           *)
Exited == NoProcess("exited")

(* The stop flag is looked at between two iterations only.                 *)
Continue(c) == IF c.run = "stopping" THEN Exited ELSE c

TimedOut(c) == c.hb >= HEARTBEAT_TIMEOUT

(* The stream is reset before Pa_StopStream waits for the audio callback,  *)
(* which may still send a message on it in between.                        *)
LateCallback(c, inflight) ==
  LET written == ra_stream_write(c.stream)
  IN {<<c, inflight>>} \cup
     (IF c.st = 2
        THEN {<<[c EXCEPT !.stream = written],
                ra_buf_sendto(inflight, ra_stream_send(written, SinkAddr, DATA))>>}
        ELSE {})

(* The end of an iteration that left the source at c: the timeout check.   *)
CheckTimeout(s, c, inflight) ==
  \/ /\ ~TimedOut(c)
     /\ src' = [src EXCEPT ![s] = Continue(c)]
     /\ net' = inflight
  \/ /\ TimedOut(c)
     /\ \E late \in LateCallback([c EXCEPT !.stream = ra_stream_reset(@)], inflight) :
          /\ src' = [src EXCEPT ![s] = Continue([late[1] EXCEPT !.st = 1, !.hb = 0])]
          /\ net' = send_handshake(late[2], s)

SourceReceive(s, m) ==
  /\ Alive(s)
  /\ m.dst = s
  /\ \E left \in ra_buf_recvfrom(m) :
       CheckTimeout(s, handle_message(src[s], s, m), left)

(* select ran out of time, or the loop is left: nothing was received.      *)
SourceIdle(s) ==
  /\ Alive(s)
  /\ TimedOut(src[s]) \/ src[s].run = "stopping"
  /\ CheckTimeout(s, src[s], net)

SourceLeaveLoop(s) ==
  /\ src[s].run = "stopping"
  /\ src' = [src EXCEPT ![s] = Exited]
  /\ UNCHANGED net

-----------------------------------------------------------------------------
(* PortAudio's thread: the stream is started by the handshake response.    *)
AudioCallback(s) ==
  /\ Established(s)
  /\ LET written == ra_stream_write(src[s].stream)
     IN /\ src' = [src EXCEPT ![s].stream = written]
        /\ net' = ra_buf_sendto(net, ra_stream_send(written, SinkAddr, DATA))

(* SIGINT or SIGTERM: the signal is sent on the stream as it is, keyed or  *)
(* not, and perhaps while a handshake is under way.                        *)
SignalHandler(s) ==
  /\ Alive(s)
  /\ LET written == ra_stream_write(src[s].stream)
     IN /\ src' = [src EXCEPT ![s].stream = written, ![s].run = "stopping"]
        /\ net' = ra_buf_sendto(net, ra_stream_send(written, SinkAddr, TERMINATE))

(* The Windows service stops the source without a signal to the sink.      *)
SourceStop(s) ==
  /\ src[s].run = "running"
  /\ src' = [src EXCEPT ![s].run = "stopping"]
  /\ UNCHANGED net

(* A failed select, recvfrom or sendto ends the loop; or the process dies. *)
SourceFails(s) ==
  /\ Alive(s)
  /\ src' = [src EXCEPT ![s] = Exited]
  /\ UNCHANGED net

AgedSource(c) ==
  IF c.run \in {"running", "stopping"} /\ c.hb < HEARTBEAT_TIMEOUT
    THEN [c EXCEPT !.hb = @ + 1] ELSE c
=============================================================================
