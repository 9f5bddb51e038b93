-------------------------------- MODULE Sink --------------------------------
(***************************************************************************)
(* The sink, src/app/sink.c: a table of MAX_STREAMS slots, the handlers of *)
(* the datagrams its main loop receives, and the liveness pass of its      *)
(* background thread.                                                      *)
(*                                                                         *)
(* Times are ages in ticks: upd is the time since last_update, hb the time *)
(* since last_heartbeat, each capped where the code stops telling them     *)
(* apart.  A handler is one step; the background thread interleaves with   *)
(* the main loop between the slots of its pass.                            *)
(***************************************************************************)
EXTENDS Network

CONSTANTS LIVENESS_TIMEOUT,    \* ticks after which a silent stream is closed
          HEARTBEAT_INTERVAL,  \* ticks between two heartbeats of a slot
          UninitHeartbeat,     \* ages the never-set last_heartbeat may hold
          NoPeer               \* the peer of a slot that was never opened

(* malloc leaves last_heartbeat at any value: one in the future is an age  *)
(* that never comes due.                                                   *)
NeverDue == -1
HeartbeatAges == (0 .. HEARTBEAT_INTERVAL) \cup {NeverDue}

ASSUME SinkAssumption ==
         /\ LIVENESS_TIMEOUT \in Nat \ {0}
         /\ HEARTBEAT_INTERVAL \in Nat \ {0}
         /\ UninitHeartbeat \in (SUBSET HeartbeatAges) \ {{}}
         /\ NoPeer \notin Sources

VARIABLES slot,   \* audio_streams: what each slot holds
          epoch   \* which run of the sink this is: its key pair

sinkVars == <<slot, epoch>>

(* "null": never allocated; "closed": state = 0; "open": state = 1.        *)
AudioStreams == [st : {"null", "closed", "open"},
                 stream : Streams(Slots, Secrets),
                 peer : Sources \cup {NoPeer},
                 upd : 0 .. LIVENESS_TIMEOUT,
                 hb : HeartbeatAges]

SinkTypeOK == /\ slot \in [Slots -> AudioStreams]
              /\ epoch \in Epochs

NullSlot(i) == [st |-> "null", stream |-> ra_stream_create(i), peer |-> NoPeer,
                upd |-> 0, hb |-> NeverDue]

SinkInit == /\ slot = [i \in Slots |-> NullSlot(i)]
            /\ epoch = 0

Open(i) == slot[i].st = "open"

-----------------------------------------------------------------------------
(* handle_handshake_init takes the first slot that is not open ...         *)
FirstFree(i) == /\ ~Open(i)
                /\ \A j \in Slots : j < i => Open(j)

(* ... allocates it when it is the slot's first use, and keys its stream   *)
(* before it knows whether the audio stream can be opened.                 *)
audio_stream_create(i, h) ==
  IF slot[i].st = "null" THEN [slot[i] EXCEPT !.st = "closed", !.hb = h]
                         ELSE slot[i]

(* Fault: a slot that is used again keeps the key of its last source.      *)
KeyedOnce(a, s) ==
  IF a.stream.secret # NoSecret THEN a
  ELSE [a EXCEPT !.stream.secret = SecretOf(s, epoch)]

Keyed(a, s) == [a EXCEPT !.stream.secret = SecretOf(s, epoch)]

audio_stream_open(a, s) ==
  [a EXCEPT !.st = "open", !.peer = s, !.upd = 0,
            !.stream = ra_stream_reset(@)]

(* The datagrams in flight once the source was answered: the response      *)
(* carries the slot and the sink's public key.                             *)
send_handshake_response(inflight, s, i) ==
  ra_buf_sendto(inflight, create_handshake_response_message(s, i, epoch))

HandshakeAccepted(m, i) ==
  /\ FirstFree(i)
  /\ \E h \in UninitHeartbeat :
       slot' = [slot EXCEPT ![i] =
                  audio_stream_open(Keyed(audio_stream_create(i, h), m.from),
                                    m.from)]
  /\ \E left \in ra_buf_recvfrom(m) :
       net' = send_handshake_response(left, m.from, i)

(* No output device takes the format, or there is no decoder for it.       *)
HandshakeOpenFails(m, i) ==
  /\ FirstFree(i)
  /\ \E h \in UninitHeartbeat :
       slot' = [slot EXCEPT ![i] = Keyed(audio_stream_create(i, h), m.from)]
  /\ net' \in ra_buf_recvfrom(m)

HandshakeRefused(m) ==
  /\ \A i \in Slots : Open(i)
  /\ net' \in ra_buf_recvfrom(m)
  /\ UNCHANGED slot

HandleHandshakeInit(m) ==
  /\ m.dst = SinkAddr
  /\ m.type = "RA_HANDSHAKE_INIT"
  /\ \/ \E i \in Slots : HandshakeAccepted(m, i) \/ HandshakeOpenFails(m, i)
     \/ HandshakeRefused(m)
  /\ UNCHANGED epoch

-----------------------------------------------------------------------------
audio_stream_close(a) == [a EXCEPT !.st = "closed"]

(* The slot the message names is open and its stream can read it.          *)
Accepts(m) == /\ Open(m.id)
              /\ Readable(slot[m.id].stream, m)

Accepted(m) == [slot[m.id] EXCEPT !.stream = ra_stream_read(@, m), !.upd = 0]

(* Any other readable message has only been read: it too shows life.       *)
HandleStreamData(m) ==
  /\ Accepts(m)
  /\ m.body # TERMINATE
  /\ slot' = [slot EXCEPT ![m.id] = Accepted(m)]

HandleStreamTerminate(m) ==
  /\ Accepts(m)
  /\ m.body = TERMINATE
  /\ slot' = [slot EXCEPT ![m.id] = audio_stream_close(Accepted(m))]

HandleMessageRejected(m) ==
  /\ ~Accepts(m)
  /\ UNCHANGED slot

HandleMessageCrypto(m) ==
  /\ m.dst = SinkAddr
  /\ m.type = "RA_MESSAGE_CRYPTO"
  /\ HandleStreamData(m) \/ HandleStreamTerminate(m) \/ HandleMessageRejected(m)
  /\ net' \in ra_buf_recvfrom(m)
  /\ UNCHANGED epoch

-----------------------------------------------------------------------------
(* send_stream_signal: the slot's stream after the message, and the        *)
(* datagrams in flight.                                                    *)
SendStreamSignal(a, i, body) ==
  LET written == ra_stream_write(a.stream)
  IN /\ slot' = [slot EXCEPT ![i] = [a EXCEPT !.stream = written]]
     /\ net' = ra_buf_sendto(net, ra_stream_send(written, a.peer, body))

LivenessDue(i) == Open(i) /\ slot[i].upd >= LIVENESS_TIMEOUT

HeartbeatDue(i) ==
  Open(i) /\ slot[i].hb # NeverDue /\ slot[i].hb >= HEARTBEAT_INTERVAL

(* Fault: the source is told, but the slot stays open.                     *)
LivenessTimeoutWithoutClose(i) ==
  /\ LivenessDue(i)
  /\ SendStreamSignal(slot[i], i, TERMINATE)

LivenessTimeout(i) ==
  /\ LivenessDue(i)
  /\ SendStreamSignal(audio_stream_close(slot[i]), i, TERMINATE)

(* Fault: what the sink sends itself counts as life of the source.         *)
SendHeartbeatRefreshing(i) ==
  /\ HeartbeatDue(i)
  /\ ~LivenessDue(i)
  /\ SendStreamSignal([slot[i] EXCEPT !.hb = 0, !.upd = 0], i, HEARTBEAT)

SendHeartbeat(i) ==
  /\ HeartbeatDue(i)
  /\ ~LivenessDue(i)
  /\ SendStreamSignal([slot[i] EXCEPT !.hb = 0], i, HEARTBEAT)

(* One slot's turn in the pass of the background thread.                   *)
HandleLiveness(i) ==
  /\ LivenessTimeout(i) \/ SendHeartbeat(i)
  /\ UNCHANGED epoch

(* The sink stops or crashes and is started again: it tells no source, and *)
(* comes back with no slot and a new key pair.                             *)
SinkRestart ==
  /\ epoch < MaxEpoch
  /\ epoch' = epoch + 1
  /\ slot' = [i \in Slots |-> NullSlot(i)]
  /\ UNCHANGED net

(* The passing of time, as the slots see it.                               *)
AgedSlot(a) ==
  [a EXCEPT !.upd = IF a.st = "open" /\ @ < LIVENESS_TIMEOUT THEN @ + 1 ELSE @,
            !.hb = IF @ # NeverDue /\ @ < HEARTBEAT_INTERVAL THEN @ + 1 ELSE @]
=============================================================================
