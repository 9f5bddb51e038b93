-------------------------- MODULE RemoteAudioProofs --------------------------
(***************************************************************************)
(* Proofs about RemoteAudio, for any number of sources, slots, restarts    *)
(* and datagrams in flight, any timeouts, and whatever the network does.   *)
(***************************************************************************)
EXTENDS RemoteAudio, TLAPS

-----------------------------------------------------------------------------
(* Lemmas about the operators.                                             *)

(* The operations of stream.c keep a stream a stream.                      *)
LEMMA StreamOps ==
  ASSUME NEW stream \in Streams(Slots, Secrets)
  PROVE  /\ ra_stream_reset(stream) \in Streams(Slots, Secrets)
         /\ ra_stream_write(stream) \in Streams(Slots, Secrets)
         /\ \A m : m.nonce \in Nonces =>
              ra_stream_read(stream, m) \in Streams(Slots, Secrets)
<1>0. 0 \in Nonces
  BY StreamAssumption DEF Nonces
<1>1. ra_stream_reset(stream) \in Streams(Slots, Secrets)
  BY <1>0 DEF ra_stream_reset, Streams
<1>2. ra_stream_write(stream) \in Streams(Slots, Secrets)
  BY StreamAssumption DEF ra_stream_write, Streams, Nonces
<1>3. ASSUME NEW m, m.nonce \in Nonces
      PROVE  ra_stream_read(stream, m) \in Streams(Slots, Secrets)
  BY <1>3, StreamAssumption DEF ra_stream_read, Streams, Nonces
<1> QED BY <1>1, <1>2, <1>3

(* A new stream has the id of its slot and no secret yet.                  *)
LEMMA StreamCreate ==
  ASSUME NEW i \in Slots
  PROVE  ra_stream_create(i) \in Streams(Slots, Secrets)
BY StreamAssumption DEF ra_stream_create, Streams, Nonces

(* Sending puts at most the one datagram on the network.                   *)
LEMMA SendAdds ==
  ASSUME NEW N, NEW m
  PROVE  ra_buf_sendto(N, m) \subseteq N \cup {m}
BY DEF ra_buf_sendto

(* Receiving puts nothing on it.                                           *)
LEMMA ReceiveRemoves ==
  ASSUME NEW m, NEW left \in ra_buf_recvfrom(m)
  PROVE  left \subseteq net
BY DEF ra_buf_recvfrom

(* What is sent on a stream is a datagram of the protocol.                 *)
LEMMA SentOnStream ==
  ASSUME NEW stream \in Streams(Slots, Secrets),
         NEW dst \in Sources \cup {SinkAddr},
         NEW body \in {DATA, HEARTBEAT, TERMINATE}
  PROVE  ra_stream_send(stream, dst, body) \in Messages
BY DEF ra_stream_send, Streams, Messages, CryptoMessages

(* The type field tells the three kinds of datagrams apart.                *)
LEMMA MessageKinds ==
  ASSUME NEW m \in Messages
  PROVE  /\ m.type = "RA_HANDSHAKE_INIT" => m \in InitMessages
         /\ m.type = "RA_HANDSHAKE_RESPONSE" => m \in ResponseMessages
         /\ m.type \notin {"RA_HANDSHAKE_INIT", "RA_HANDSHAKE_RESPONSE"} =>
              m \in CryptoMessages
         /\ m.type = "RA_MESSAGE_CRYPTO" => m \in CryptoMessages
         /\ m.dst \in Sources /\ m.type # "RA_HANDSHAKE_RESPONSE" =>
              m \in CryptoMessages
BY NetworkAssumption DEF Messages, InitMessages, ResponseMessages, CryptoMessages

(* Two processes and their run of the sink determine their secret.         *)
LEMMA SecretFacts ==
  /\ \A s \in Sources, e \in Epochs : SecretOf(s, e) \in Secrets
  /\ \A s, t \in Sources, d, e \in Epochs :
       SecretOf(s, d) = SecretOf(t, e) => s = t /\ d = e
  /\ \A s \in Sources, e \in Epochs : SecretOf(s, e) # NoSecret
<1>1. \A s \in Sources, e \in Epochs : SecretOf(s, e) \in Secrets
  BY DEF SecretOf, Secrets
<1>2. \A s, t \in Sources, d, e \in Epochs :
        SecretOf(s, d) = SecretOf(t, e) => s = t /\ d = e
  BY DEF SecretOf
<1> QED BY <1>1, <1>2, SecretsAssumption

(* What handle_handshake_init and the liveness pass do to one slot.        *)
LEMMA SlotOps ==
  ASSUME SinkTypeOK, NEW i \in Slots
  PROVE  /\ \A h \in UninitHeartbeat : audio_stream_create(i, h) \in AudioStreams
         /\ \A a \in AudioStreams, s \in Sources : Keyed(a, s) \in AudioStreams
         /\ \A a \in AudioStreams, s \in Sources :
              audio_stream_open(a, s) \in AudioStreams
         /\ \A a \in AudioStreams : audio_stream_close(a) \in AudioStreams
         /\ \A a \in AudioStreams : AgedSlot(a) \in AudioStreams
         /\ NullSlot(i) \in AudioStreams
<1> USE DEF AudioStreams
<1>1. ASSUME NEW h \in UninitHeartbeat
      PROVE  audio_stream_create(i, h) \in AudioStreams
  <2>1. h \in HeartbeatAges /\ slot[i] \in AudioStreams
    BY SinkAssumption DEF SinkTypeOK
  <2> QED BY <2>1 DEF audio_stream_create
<1>2. ASSUME NEW a \in AudioStreams, NEW s \in Sources
      PROVE  Keyed(a, s) \in AudioStreams
  <2>1. SecretOf(s, epoch) \in Secrets
    BY SecretFacts DEF SinkTypeOK
  <2> QED BY <2>1 DEF Keyed, Streams
<1>3. ASSUME NEW a \in AudioStreams, NEW s \in Sources
      PROVE  audio_stream_open(a, s) \in AudioStreams
  <2>1. ra_stream_reset(a.stream) \in Streams(Slots, Secrets)
    BY StreamOps
  <2>2. 0 \in 0 .. LIVENESS_TIMEOUT
    BY SinkAssumption
  <2> QED BY <2>1, <2>2 DEF audio_stream_open
<1>4. ASSUME NEW a \in AudioStreams
      PROVE  audio_stream_close(a) \in AudioStreams
  BY DEF audio_stream_close
<1>5. ASSUME NEW a \in AudioStreams
      PROVE  AgedSlot(a) \in AudioStreams
  <2>1. /\ a.upd \in 0 .. LIVENESS_TIMEOUT
        /\ a.upd < LIVENESS_TIMEOUT => a.upd + 1 \in 0 .. LIVENESS_TIMEOUT
    BY SinkAssumption
  <2>2. a.hb # NeverDue /\ a.hb < HEARTBEAT_INTERVAL => a.hb + 1 \in HeartbeatAges
    BY SinkAssumption DEF HeartbeatAges, NeverDue
  <2> QED BY <2>1, <2>2 DEF AgedSlot
<1>6. NullSlot(i) \in AudioStreams
  <2>1. 0 \in 0 .. LIVENESS_TIMEOUT /\ NeverDue \in HeartbeatAges
    BY SinkAssumption DEF HeartbeatAges
  <2> QED BY <2>1, StreamCreate DEF NullSlot
<1> QED BY <1>1, <1>2, <1>3, <1>4, <1>5, <1>6

(* What a source does with a datagram, and at the end of an iteration.     *)
LEMMA SourceOps ==
  ASSUME NEW c \in SourceStates, NEW s \in Sources
  PROVE  /\ \A m \in Messages : m.dst = s => handle_message(c, s, m) \in SourceStates
         /\ Continue(c) \in SourceStates
         /\ Exited \in SourceStates
         /\ NoProcess("off") \in SourceStates
         /\ AgedSource(c) \in SourceStates
<1> USE DEF SourceStates
<1>0. 0 \in Silences /\ 0 \in Slots /\ {0, 2} \subseteq Handshakes
  BY SourceAssumption, NetworkAssumption DEF Slots, Silences, Handshakes
<1>1. ASSUME NEW m \in Messages, m.dst = s
      PROVE  handle_message(c, s, m) \in SourceStates
  <2>1. CASE m.type = "RA_HANDSHAKE_RESPONSE"
    <3>1. m.id \in Slots /\ m.key \in Epochs
      BY <2>1, MessageKinds DEF ResponseMessages
    <3>2. SecretOf(s, m.key) \in Secrets
      BY <3>1, SecretFacts
    <3>3. [c.stream EXCEPT !.id = m.id, !.secret = SecretOf(s, m.key)]
            \in Streams(Slots, Secrets)
      BY <3>1, <3>2 DEF Streams
    <3> QED BY <1>0, <2>1, <3>3 DEF handle_message, handle_handshake_response
  <2>2. CASE m.type # "RA_HANDSHAKE_RESPONSE"
    <3>1. m.nonce \in Nonces
      BY <1>1, <2>2, MessageKinds DEF CryptoMessages
    <3>2. ra_stream_read(c.stream, m) \in Streams(Slots, Secrets)
      BY <3>1, StreamOps
    <3> QED BY <1>0, <2>2, <3>2 DEF handle_message, handle_message_crypto
  <2> QED BY <2>1, <2>2
<1>2. \A r \in {"off", "exited"} : NoProcess(r) \in SourceStates
  BY <1>0, StreamCreate DEF NoProcess
<1>3. Continue(c) \in SourceStates
  BY <1>2 DEF Continue, Exited
<1>4. AgedSource(c) \in SourceStates
  BY SourceAssumption DEF AgedSource, Silences
<1> QED BY <1>1, <1>2, <1>3, <1>4 DEF Exited

-----------------------------------------------------------------------------
(* Type correctness, one lemma for each component's steps.                 *)

(* Every variable has its type at first.                                   *)
LEMMA TypeInit == Init => TypeOK
<1> SUFFICES ASSUME Init PROVE TypeOK
  OBVIOUS
<1>1. NetTypeOK
  BY DEF Init, NetTypeOK
<1>2. SinkTypeOK
  <2>1. \A i \in Slots : NullSlot(i) \in AudioStreams
    <3> TAKE i \in Slots
    <3>1. 0 \in 0 .. LIVENESS_TIMEOUT /\ NeverDue \in HeartbeatAges
      BY SinkAssumption DEF HeartbeatAges
    <3> QED BY <3>1, StreamCreate DEF NullSlot, AudioStreams
  <2> QED BY <2>1, NetworkAssumption DEF Init, SinkInit, SinkTypeOK, Epochs
<1>3. SourceTypeOK
  <2>1. NoProcess("off") \in SourceStates
    <3>1. 0 \in Silences /\ 0 \in Slots /\ 0 \in Handshakes
      BY SourceAssumption, NetworkAssumption DEF Slots, Silences, Handshakes
    <3> QED BY <3>1, StreamCreate DEF NoProcess, SourceStates
  <2> QED BY <2>1 DEF Init, SourceInit, SourceTypeOK
<1> QED BY <1>1, <1>2, <1>3 DEF TypeOK

(* The sink's handling of a datagram keeps the types.                      *)
LEMMA TypeSinkReceive ==
  ASSUME TypeOK, NEW m \in net, SinkReceive(m)
  PROVE  TypeOK'
<1> USE DEF TypeOK, NetTypeOK, SinkTypeOK
<1>0. m \in Messages /\ SourceTypeOK'
  BY DEF SinkReceive, SourceTypeOK
<1>1. CASE HandleHandshakeInit(m)
  <2>0. m.from \in Sources
    BY <1>0, <1>1, MessageKinds DEF HandleHandshakeInit, InitMessages
  <2>1. ASSUME NEW i \in Slots, HandshakeAccepted(m, i)
        PROVE  NetTypeOK' /\ SinkTypeOK'
    <3>1. PICK h \in UninitHeartbeat :
            slot' = [slot EXCEPT ![i] =
                       audio_stream_open(Keyed(audio_stream_create(i, h), m.from),
                                         m.from)]
      BY <2>1 DEF HandshakeAccepted
    <3>2. audio_stream_open(Keyed(audio_stream_create(i, h), m.from), m.from)
            \in AudioStreams
      BY <2>0, SlotOps
    <3>3. create_handshake_response_message(m.from, i, epoch) \in Messages
      BY <2>0 DEF create_handshake_response_message, Messages, ResponseMessages
    <3>4. net' \subseteq net \cup
                {create_handshake_response_message(m.from, i, epoch)}
      BY <2>1, SendAdds, ReceiveRemoves
         DEF HandshakeAccepted, send_handshake_response
    <3> QED BY <1>1, <3>1, <3>2, <3>3, <3>4 DEF HandleHandshakeInit
  <2>2. ASSUME NEW i \in Slots, HandshakeOpenFails(m, i)
        PROVE  NetTypeOK' /\ SinkTypeOK'
    <3>1. PICK h \in UninitHeartbeat :
            slot' = [slot EXCEPT ![i] = Keyed(audio_stream_create(i, h), m.from)]
      BY <2>2 DEF HandshakeOpenFails
    <3>2. Keyed(audio_stream_create(i, h), m.from) \in AudioStreams
      BY <2>0, SlotOps
    <3> QED BY <1>1, <2>2, <3>1, <3>2, ReceiveRemoves
            DEF HandleHandshakeInit, HandshakeOpenFails
  <2>3. CASE HandshakeRefused(m)
    BY <1>0, <1>1, <2>3, ReceiveRemoves DEF HandleHandshakeInit, HandshakeRefused
  <2> QED BY <1>0, <1>1, <2>1, <2>2, <2>3 DEF HandleHandshakeInit, SinkTypeOK
<1>2. CASE HandleMessageCrypto(m)
  <2>1. m.id \in Slots /\ m.nonce \in Nonces
    BY <1>0, <1>2, MessageKinds DEF HandleMessageCrypto, CryptoMessages
  <2>2. Accepted(m) \in AudioStreams
    <3>1. slot[m.id] \in AudioStreams /\ 0 \in 0 .. LIVENESS_TIMEOUT
      BY <2>1, SinkAssumption
    <3>2. ra_stream_read(slot[m.id].stream, m) \in Streams(Slots, Secrets)
      BY <2>1, <3>1, StreamOps DEF AudioStreams
    <3> QED BY <3>1, <3>2 DEF Accepted, AudioStreams
  <2>3. audio_stream_close(Accepted(m)) \in AudioStreams
    BY <2>2 DEF audio_stream_close, AudioStreams
  <2> QED BY <1>0, <1>2, <2>2, <2>3, ReceiveRemoves
          DEF HandleMessageCrypto, HandleStreamData, HandleStreamTerminate,
              HandleMessageRejected
<1> QED BY <1>1, <1>2 DEF SinkReceive

(* The sink's background thread keeps the types.                           *)
LEMMA TypeBackground ==
  ASSUME TypeOK, NEW i \in Slots, HandleLiveness(i), UNCHANGED src,
         slot[i].peer \in Sources
  PROVE  TypeOK'
<1> USE DEF TypeOK, NetTypeOK, SinkTypeOK
<1>1. ASSUME NEW a \in AudioStreams, a.peer \in Sources,
             NEW body \in {TERMINATE, HEARTBEAT}, SendStreamSignal(a, i, body)
      PROVE  NetTypeOK' /\ slot' \in [Slots -> AudioStreams]
  <2>1. ra_stream_write(a.stream) \in Streams(Slots, Secrets)
    BY StreamOps DEF AudioStreams
  <2>2. [a EXCEPT !.stream = ra_stream_write(a.stream)] \in AudioStreams
    BY <2>1 DEF AudioStreams
  <2>3. ra_stream_send(ra_stream_write(a.stream), a.peer, body) \in Messages
    BY <1>1, <2>1, SentOnStream
  <2>4. net' \subseteq net \cup
              {ra_stream_send(ra_stream_write(a.stream), a.peer, body)}
    BY <1>1, SendAdds DEF SendStreamSignal
  <2> QED BY <1>1, <2>2, <2>3, <2>4 DEF SendStreamSignal
<1>2. CASE LivenessTimeout(i)
  <2>1. audio_stream_close(slot[i]) \in AudioStreams
    BY SlotOps
  <2>2. audio_stream_close(slot[i]).peer = slot[i].peer
    BY DEF audio_stream_close, AudioStreams
  <2> QED BY <1>1, <1>2, <2>1, <2>2 DEF LivenessTimeout, HandleLiveness, SourceTypeOK
<1>3. CASE SendHeartbeat(i)
  <2>1. 0 \in HeartbeatAges
    BY SinkAssumption DEF HeartbeatAges
  <2>2. /\ [slot[i] EXCEPT !.hb = 0] \in AudioStreams
        /\ [slot[i] EXCEPT !.hb = 0].peer = slot[i].peer
    BY <2>1 DEF AudioStreams
  <2> QED BY <1>1, <1>3, <2>2 DEF SendHeartbeat, HandleLiveness, SourceTypeOK
<1> QED BY <1>2, <1>3 DEF HandleLiveness

(* The timeout check ends every iteration of a source.                     *)
LEMMA TypeCheckTimeout ==
  ASSUME TypeOK, NEW s \in Sources, NEW c \in SourceStates,
         NEW inflight \in SUBSET Messages, CheckTimeout(s, c, inflight)
  PROVE  NetTypeOK' /\ SourceTypeOK'
<1> USE DEF TypeOK, NetTypeOK, SourceTypeOK
<1>1. CASE /\ ~TimedOut(c)
           /\ src' = [src EXCEPT ![s] = Continue(c)]
           /\ net' = inflight
  BY <1>1, SourceOps
<1>2. CASE /\ TimedOut(c)
           /\ \E late \in LateCallback([c EXCEPT !.stream = ra_stream_reset(@)], inflight) :
                /\ src' = [src EXCEPT ![s] = Continue([late[1] EXCEPT !.st = 1, !.hb = 0])]
                /\ net' = send_handshake(late[2], s)
  <2> DEFINE d == [c EXCEPT !.stream = ra_stream_reset(@)]
             w == ra_stream_write(d.stream)
  <2>1. d \in SourceStates /\ d.stream \in Streams(Slots, Secrets)
    BY StreamOps DEF SourceStates
  <2>2. w \in Streams(Slots, Secrets)
    BY <2>1, StreamOps
  <2>3. PICK late \in LateCallback(d, inflight) :
          /\ src' = [src EXCEPT ![s] = Continue([late[1] EXCEPT !.st = 1, !.hb = 0])]
          /\ net' = send_handshake(late[2], s)
    BY <1>2
  <2>4. ra_stream_send(w, SinkAddr, DATA) \in Messages
    BY <2>2, SentOnStream
  <2>5. [d EXCEPT !.stream = w] \in SourceStates
    BY <2>1, <2>2 DEF SourceStates
  <2> HIDE DEF d, w
  <2>6. \/ late = <<d, inflight>>
        \/ late = <<[d EXCEPT !.stream = w],
                    ra_buf_sendto(inflight, ra_stream_send(w, SinkAddr, DATA))>>
    BY <2>3 DEF LateCallback, w
  <2>7. late[1] \in SourceStates /\ late[2] \subseteq Messages
    BY <2>1, <2>4, <2>5, <2>6, SendAdds
  <2>8. create_handshake_message(s) \in Messages
    BY DEF create_handshake_message, Messages, InitMessages
  <2>9. [late[1] EXCEPT !.st = 1, !.hb = 0] \in SourceStates
    <3>1. 1 \in Handshakes /\ 0 \in Silences
      BY SourceAssumption DEF Handshakes, Silences
    <3> QED BY <2>7, <3>1 DEF SourceStates
  <2> QED BY <2>3, <2>7, <2>8, <2>9, SendAdds, SourceOps DEF send_handshake
<1> QED BY <1>1, <1>2 DEF CheckTimeout

(* A source sends one message on its stream.                               *)
LEMMA TypeSend ==
  ASSUME TypeOK, NEW s \in Sources, NEW body \in {DATA, TERMINATE}
  PROVE  /\ ra_stream_write(src[s].stream) \in Streams(Slots, Secrets)
         /\ ra_buf_sendto(net, ra_stream_send(ra_stream_write(src[s].stream),
                                              SinkAddr, body)) \subseteq Messages
<1>1. ra_stream_write(src[s].stream) \in Streams(Slots, Secrets)
  BY StreamOps DEF TypeOK, SourceTypeOK, SourceStates
<1>2. ra_stream_send(ra_stream_write(src[s].stream), SinkAddr, body) \in Messages
  BY <1>1, SentOnStream
<1> QED BY <1>1, <1>2, SendAdds DEF TypeOK, NetTypeOK

(* The source's steps keep the types.                                      *)
LEMMA TypeSource ==
  ASSUME TypeOK, NEW s \in Sources, SourceStep(s)
  PROVE  TypeOK'
<1> USE DEF TypeOK, NetTypeOK, SourceTypeOK
<1>0. SinkTypeOK' /\ src[s] \in SourceStates
  BY DEF SourceStep, sinkVars, SinkTypeOK
<1>1. CASE SourceStart(s)
  <2>1. create_handshake_message(s) \in Messages
    BY DEF create_handshake_message, Messages, InitMessages
  <2>2. [src[s] EXCEPT !.run = "running", !.st = 1, !.hb = 0] \in SourceStates
    <3>1. 1 \in Handshakes /\ 0 \in Silences
      BY SourceAssumption DEF Handshakes, Silences
    <3> QED BY <1>0, <3>1 DEF SourceStates
  <2>3. src' = [src EXCEPT ![s] =
                  [src[s] EXCEPT !.run = "running", !.st = 1, !.hb = 0]]
    BY <1>1 DEF SourceStart
  <2> QED BY <1>0, <1>1, <2>1, <2>2, <2>3, SendAdds DEF SourceStart, send_handshake
<1>2. ASSUME NEW m \in net, SourceReceive(s, m)
      PROVE  NetTypeOK' /\ SourceTypeOK'
  <2>1. handle_message(src[s], s, m) \in SourceStates
    BY <1>0, <1>2, SourceOps DEF SourceReceive
  <2> QED BY <1>2, <2>1, ReceiveRemoves, TypeCheckTimeout DEF SourceReceive
<1>3. CASE SourceIdle(s)
  BY <1>0, <1>3, TypeCheckTimeout DEF SourceIdle
<1>4. CASE SourceLeaveLoop(s)
  BY <1>0, <1>4, SourceOps DEF SourceLeaveLoop
<1>5. CASE AudioCallback(s)
  BY <1>0, <1>5, TypeSend DEF AudioCallback, SourceStates
<1>6. CASE SignalHandler(s)
  <2>1. [src[s] EXCEPT !.stream = ra_stream_write(src[s].stream), !.run = "stopping"]
          \in SourceStates
    BY <1>0, TypeSend DEF SourceStates
  <2>2. src' = [src EXCEPT ![s] =
          [src[s] EXCEPT !.stream = ra_stream_write(src[s].stream), !.run = "stopping"]]
    BY <1>6 DEF SignalHandler
  <2> QED BY <1>0, <1>6, <2>1, <2>2, TypeSend DEF SignalHandler
<1>7. CASE SourceStop(s)
  BY <1>0, <1>7 DEF SourceStop, SourceStates
<1>8. CASE SourceFails(s)
  BY <1>0, <1>8, SourceOps DEF SourceFails
<1> QED BY <1>0, <1>1, <1>2, <1>3, <1>4, <1>5, <1>6, <1>7, <1>8 DEF SourceStep

(* A restart of the sink, the network and time keep the types.             *)
LEMMA TypeOthers ==
  ASSUME TypeOK, \/ SinkRestart /\ UNCHANGED src
                 \/ NetworkLoses
                 \/ Tick
                 \/ UNCHANGED vars
  PROVE  TypeOK'
<1> USE DEF TypeOK, NetTypeOK, SinkTypeOK, SourceTypeOK
<1>1. CASE SinkRestart /\ UNCHANGED src
  <2>1. \A i \in Slots : NullSlot(i) \in AudioStreams
    BY SlotOps
  <2> QED BY <1>1, <2>1, NetworkAssumption DEF SinkRestart, Epochs
<1>2. CASE NetworkLoses
  BY <1>2 DEF NetworkLoses, Lose
<1>3. CASE Tick
  <2>1. \A i \in Slots : AgedSlot(slot[i]) \in AudioStreams
    BY SlotOps
  <2>2. \A s \in Sources : AgedSource(src[s]) \in SourceStates
    BY SourceOps
  <2> QED BY <1>3, <2>1, <2>2 DEF Tick
<1>4. CASE UNCHANGED vars
  BY <1>4 DEF vars
<1> QED BY <1>1, <1>2, <1>3, <1>4

-----------------------------------------------------------------------------
(* The inductive invariant.  TypeOK alone is not inductive: a heartbeat is *)
(* a datagram only because the peer of an open slot is a source.           *)
Inv == TypeOK /\ Authentic

(* What a datagram m must satisfy for Authentic.                           *)
Genuine(m) ==
  /\ m.type = "RA_HANDSHAKE_INIT" => Started(m.from)
  /\ m.type = "RA_HANDSHAKE_RESPONSE" => m.key <= epoch
  /\ m.type = "RA_MESSAGE_CRYPTO" /\ m.dst = SinkAddr =>
       \A s \in Sources, e \in Epochs : m.secret = SecretOf(s, e) =>
         /\ Started(s)
         /\ m.body = TERMINATE => Leaving(s)

(* Datagrams stay genuine while processes only move on and the sink only   *)
(* starts again.                                                           *)
LEMMA StaysGenuine ==
  ASSUME Inv,
         epoch' \in Epochs /\ epoch <= epoch',
         \A s \in Sources : Started(s) => Started(s)',
         \A s \in Sources : Leaving(s) => Leaving(s)',
         \A m \in net' : m \in net \/ Genuine(m)',
         SlotKeyed', SourceKeyed'
  PROVE  Authentic'
<1>1. ASSUME NEW m \in net
      PROVE  Genuine(m)'
  <2>1. m \in Messages /\ epoch \in Epochs
    BY DEF Inv, TypeOK, NetTypeOK, SinkTypeOK
  <2>2. Genuine(m)
    BY DEF Inv, Authentic, InitAuthentic, ResponseAuthentic, DataAuthentic, Genuine
  <2>3. m.type = "RA_HANDSHAKE_INIT" => m.from \in Sources
    BY <2>1, MessageKinds DEF InitMessages
  <2>4. m.type = "RA_HANDSHAKE_RESPONSE" => m.key \in Epochs
    BY <2>1, MessageKinds DEF ResponseMessages
  <2> QED BY <2>1, <2>2, <2>3, <2>4, NetworkAssumption DEF Genuine, Epochs
<1>2. \A m \in net' : Genuine(m)'
  BY <1>1
<1> QED BY <1>2 DEF Authentic, InitAuthentic, ResponseAuthentic, DataAuthentic, Genuine

(* Nothing is open at first, so nothing is forged.                         *)
LEMMA AuthenticInit == Init => Authentic
<1> SUFFICES ASSUME Init PROVE Authentic
  OBVIOUS
<1>1. \A i \in Slots : ~Open(i)
  BY DEF Init, SinkInit, NullSlot, Open
<1>2. \A s \in Sources : src[s].stream.secret = NoSecret
  BY DEF Init, SourceInit, NoProcess, ra_stream_create
<1> QED BY <1>1, <1>2 DEF Init, Authentic, InitAuthentic, ResponseAuthentic,
                           SlotKeyed, SourceKeyed, DataAuthentic

(* The sink's handling of a datagram keeps Authentic's invariant.          *)
LEMMA AuthenticSinkReceive ==
  ASSUME Inv, NEW m \in net, SinkReceive(m)
  PROVE  Authentic'
<1> USE DEF Inv
<1>0. /\ m \in Messages /\ epoch \in Epochs
      /\ epoch' = epoch /\ src' = src
      /\ slot \in [Slots -> AudioStreams]
  BY DEF SinkReceive, TypeOK, NetTypeOK, SinkTypeOK, HandleHandshakeInit,
         HandleMessageCrypto
<1>1. /\ \A s \in Sources : Started(s)' = Started(s)
      /\ \A s \in Sources : Leaving(s)' = Leaving(s)
      /\ SourceKeyed'
  BY <1>0 DEF Started, Leaving, Authentic, SourceKeyed
<1>2. epoch \in Int /\ epoch <= epoch'
  BY <1>0, NetworkAssumption DEF Epochs
<1>3. CASE HandleHandshakeInit(m)
  <2>0. m.from \in Sources /\ Started(m.from)
    BY <1>0, <1>3, MessageKinds
       DEF HandleHandshakeInit, InitMessages, Authentic, InitAuthentic
  <2>1. ASSUME NEW i \in Slots, HandshakeAccepted(m, i)
        PROVE  Authentic'
    <3>1. PICK h \in UninitHeartbeat :
            slot' = [slot EXCEPT ![i] =
                       audio_stream_open(Keyed(audio_stream_create(i, h), m.from),
                                         m.from)]
      BY <2>1 DEF HandshakeAccepted
    <3>2. audio_stream_create(i, h) \in AudioStreams
      BY SlotOps DEF TypeOK
    <3>3. /\ slot'[i].peer = m.from
          /\ slot'[i].stream.secret = SecretOf(m.from, epoch)
      BY <1>0, <3>1, <3>2
         DEF audio_stream_open, Keyed, ra_stream_reset, AudioStreams, Streams
    <3>4. \A j \in Slots : j # i => slot'[j] = slot[j]
      BY <1>0, <3>1
    <3>5. SlotKeyed'
      BY <1>0, <1>1, <2>0, <3>3, <3>4 DEF SlotKeyed, Open, Authentic
    <3>6. Genuine(create_handshake_response_message(m.from, i, epoch))'
      BY <1>0, <1>2 DEF Genuine, create_handshake_response_message
    <3>7. net' \subseteq net \cup
                {create_handshake_response_message(m.from, i, epoch)}
      BY <2>1, SendAdds, ReceiveRemoves
         DEF HandshakeAccepted, send_handshake_response
    <3> QED BY <1>0, <1>1, <1>2, <3>5, <3>6, <3>7, StaysGenuine
  <2>2. ASSUME NEW i \in Slots, HandshakeOpenFails(m, i)
        PROVE  Authentic'
    <3>1. PICK h \in UninitHeartbeat :
            slot' = [slot EXCEPT ![i] = Keyed(audio_stream_create(i, h), m.from)]
      BY <2>2 DEF HandshakeOpenFails
    <3>2. audio_stream_create(i, h) \in AudioStreams
      BY SlotOps DEF TypeOK
    <3>3. audio_stream_create(i, h).st # "open"
      BY <1>0, <2>2 DEF HandshakeOpenFails, FirstFree, Open, audio_stream_create,
                        AudioStreams
    <3>4. slot'[i].st # "open"
      BY <1>0, <3>1, <3>2, <3>3 DEF Keyed, AudioStreams
    <3>5. \A j \in Slots : j # i => slot'[j] = slot[j]
      BY <1>0, <3>1
    <3>6. SlotKeyed'
      BY <1>0, <1>1, <3>4, <3>5 DEF SlotKeyed, Open, Authentic
    <3> QED BY <1>0, <1>1, <1>2, <2>2, <3>6, ReceiveRemoves, StaysGenuine
            DEF HandshakeOpenFails
  <2>3. CASE HandshakeRefused(m)
    <3>1. SlotKeyed'
      BY <1>0, <1>1, <2>3 DEF HandshakeRefused, SlotKeyed, Open, Authentic
    <3> QED BY <1>0, <1>1, <1>2, <2>3, <3>1, ReceiveRemoves, StaysGenuine
            DEF HandshakeRefused
  <2> QED BY <1>3, <2>1, <2>2, <2>3 DEF HandleHandshakeInit
<1>4. CASE HandleMessageCrypto(m)
  <2>1. m.id \in Slots /\ m.nonce \in Nonces
    BY <1>0, <1>4, MessageKinds DEF HandleMessageCrypto, CryptoMessages
  <2>2. /\ slot[m.id] \in AudioStreams
        /\ Accepted(m).peer = slot[m.id].peer
        /\ Accepted(m).stream.secret = slot[m.id].stream.secret
        /\ Accepted(m).st = slot[m.id].st
    BY <1>0, <2>1 DEF Accepted, ra_stream_read, AudioStreams, Streams
  <2>3. CASE slot' = slot
    BY <1>0, <1>1, <1>2, <1>4, <2>3, ReceiveRemoves, StaysGenuine
       DEF HandleMessageCrypto, SlotKeyed, Open, Authentic
  <2>4. ASSUME NEW a, slot' = [slot EXCEPT ![m.id] = a],
               \/ a = Accepted(m)
               \/ a = audio_stream_close(Accepted(m))
        PROVE  Authentic'
    <3>1. a.st = "open" =>
            /\ slot[m.id].st = "open"
            /\ a.peer = slot[m.id].peer
            /\ a.stream.secret = slot[m.id].stream.secret
      BY <2>2, <2>4 DEF audio_stream_close, Accepted, AudioStreams
    <3>2. SlotKeyed'
      BY <1>0, <1>1, <2>1, <2>4, <3>1 DEF SlotKeyed, Open, Authentic
    <3> QED BY <1>0, <1>1, <1>2, <1>4, <3>2, ReceiveRemoves, StaysGenuine
            DEF HandleMessageCrypto
  <2> QED BY <1>4, <2>3, <2>4
          DEF HandleMessageCrypto, HandleStreamData, HandleStreamTerminate,
              HandleMessageRejected
<1> QED BY <1>3, <1>4 DEF SinkReceive

(* The sink's background thread keeps it.                                  *)
LEMMA AuthenticBackground ==
  ASSUME Inv, NEW i \in Slots, HandleLiveness(i), UNCHANGED src
  PROVE  Authentic'
<1> USE DEF Inv
<1>0. /\ epoch \in Epochs /\ epoch \in Int
      /\ epoch' = epoch
      /\ slot \in [Slots -> AudioStreams]
      /\ Open(i)
  BY NetworkAssumption
     DEF TypeOK, SinkTypeOK, HandleLiveness, LivenessTimeout, LivenessDue,
         SendHeartbeat, HeartbeatDue, Epochs
<1>1. /\ \A s \in Sources : Started(s)' = Started(s)
      /\ \A s \in Sources : Leaving(s)' = Leaving(s)
      /\ SourceKeyed'
  BY <1>0 DEF Started, Leaving, Authentic, SourceKeyed
<1>2. slot[i] \in AudioStreams /\ slot[i].peer \in Sources
  BY <1>0 DEF Authentic, SlotKeyed
<1>3. ASSUME NEW a, NEW body, SendStreamSignal(a, i, body),
             a = audio_stream_close(slot[i]) \/ a = [slot[i] EXCEPT !.hb = 0]
      PROVE  Authentic'
  <2>1. /\ a.peer = slot[i].peer
        /\ a.stream = slot[i].stream
        /\ a = [a EXCEPT !.peer = slot[i].peer]
    BY <1>2, <1>3 DEF audio_stream_close, AudioStreams
  <2>2. /\ slot' = [slot EXCEPT ![i] = [a EXCEPT !.stream = ra_stream_write(a.stream)]]
        /\ net' \subseteq net \cup
             {ra_stream_send(ra_stream_write(a.stream), a.peer, body)}
    BY <1>3, SendAdds DEF SendStreamSignal
  <2>3. /\ slot'[i].peer = slot[i].peer
        /\ slot'[i].stream.secret = slot[i].stream.secret
    BY <1>0, <1>2, <1>3, <2>2
       DEF audio_stream_close, ra_stream_write, AudioStreams, Streams
  <2>4. \A j \in Slots : j # i => slot'[j] = slot[j]
    BY <1>0, <2>2
  <2>5. SlotKeyed'
    BY <1>0, <1>1, <2>3, <2>4 DEF SlotKeyed, Open, Authentic
  <2>6. Genuine(ra_stream_send(ra_stream_write(a.stream), a.peer, body))'
    BY <1>2, <2>1, NetworkAssumption DEF Genuine, ra_stream_send
  <2> QED BY <1>0, <1>1, <2>2, <2>5, <2>6, StaysGenuine
<1> QED BY <1>3 DEF HandleLiveness, LivenessTimeout, SendHeartbeat

(* The keys that a source in state c holds are its own.                    *)
Own(c, s) == c.stream.secret # NoSecret =>
               \E e \in Epochs : e <= epoch /\ c.stream.secret = SecretOf(s, e)

(* A message that s sends on a stream of its own is genuine, a TERMINATE   *)
(* once s is stopping.                                                     *)
LEMMA OwnIsGenuine ==
  ASSUME NEW s \in Sources, NEW c \in SourceStates, Own(c, s), NEW body,
         Started(s)', body = TERMINATE => Leaving(s)'
  PROVE  Genuine(ra_stream_send(ra_stream_write(c.stream), SinkAddr, body))'
<1> DEFINE m == ra_stream_send(ra_stream_write(c.stream), SinkAddr, body)
<1>1. /\ m.type = "RA_MESSAGE_CRYPTO"
      /\ m.secret = c.stream.secret
      /\ m.body = body
  BY DEF ra_stream_send, ra_stream_write, SourceStates, Streams
<1>2. ASSUME NEW t \in Sources, NEW e \in Epochs, m.secret = SecretOf(t, e)
      PROVE  t = s
  BY <1>1, <1>2, SecretFacts DEF Own
<1> HIDE DEF m
<1>3. Genuine(m)'
  BY <1>1, <1>2 DEF Genuine
<1> QED BY <1>3 DEF m

(* The frame of every step of a source: the others are left alone.         *)
LEMMA SourceFrame ==
  ASSUME Inv, NEW s \in Sources, UNCHANGED sinkVars,
         NEW c \in SourceStates, src' = [src EXCEPT ![s] = c],
         c.run # "off", Leaving(s) => c.run \in {"stopping", "exited"}, Own(c, s)
  PROVE  /\ epoch' \in Epochs /\ epoch <= epoch'
         /\ \A t \in Sources : Started(t) => Started(t)'
         /\ \A t \in Sources : Leaving(t) => Leaving(t)'
         /\ Started(s)'
         /\ SlotKeyed' /\ SourceKeyed'
<1>0. /\ epoch' = epoch /\ slot' = slot /\ epoch \in Epochs
      /\ src \in [Sources -> SourceStates]
      /\ src'[s] = c
      /\ \A t \in Sources : t # s => src'[t] = src[t]
  BY DEF sinkVars, Inv, TypeOK, SinkTypeOK, SourceTypeOK
<1>1. epoch' \in Epochs /\ epoch <= epoch'
  BY <1>0, NetworkAssumption DEF Epochs
<1>2. \A t \in Sources : (Started(t) => Started(t)') /\ (Leaving(t) => Leaving(t)')
  BY <1>0 DEF Started, Leaving
<1>3. Started(s)'
  BY <1>0 DEF Started
<1>4. SlotKeyed'
  BY <1>0, <1>2 DEF SlotKeyed, Open, Inv, Authentic
<1>5. SourceKeyed'
  BY <1>0 DEF SourceKeyed, Own, Inv, Authentic
<1> QED BY <1>1, <1>2, <1>3, <1>4, <1>5

(* The source's timeout keeps it.                                          *)
LEMMA AuthenticCheckTimeout ==
  ASSUME Inv, NEW s \in Sources, NEW c \in SourceStates,
         NEW inflight \in SUBSET net, CheckTimeout(s, c, inflight),
         UNCHANGED sinkVars, c.run = src[s].run, c.run \in {"running", "stopping"},
         Own(c, s)
  PROVE  Authentic'
<1>0. ASSUME NEW d \in SourceStates, d.run = c.run, Own(d, s)
      PROVE  /\ Continue(d) \in SourceStates
             /\ Continue(d).run # "off"
             /\ Leaving(s) => Continue(d).run \in {"stopping", "exited"}
             /\ Own(Continue(d), s)
  <2>1. Continue(d) \in SourceStates
    BY SourceOps
  <2>2. Own(Exited, s) /\ Exited.run = "exited"
    BY DEF Own, Exited, NoProcess, ra_stream_create
  <2> QED BY <1>0, <2>1, <2>2 DEF Continue, Leaving
<1>1. CASE /\ ~TimedOut(c)
           /\ src' = [src EXCEPT ![s] = Continue(c)]
           /\ net' = inflight
  <2>1. /\ epoch' \in Epochs /\ epoch <= epoch'
        /\ \A t \in Sources : Started(t) => Started(t)'
        /\ \A t \in Sources : Leaving(t) => Leaving(t)'
        /\ SlotKeyed' /\ SourceKeyed'
    BY <1>0, <1>1, SourceFrame
  <2> QED BY <1>1, <2>1, StaysGenuine
<1>2. CASE /\ TimedOut(c)
           /\ \E late \in LateCallback([c EXCEPT !.stream = ra_stream_reset(@)], inflight) :
                /\ src' = [src EXCEPT ![s] = Continue([late[1] EXCEPT !.st = 1, !.hb = 0])]
                /\ net' = send_handshake(late[2], s)
  <2> DEFINE d == [c EXCEPT !.stream = ra_stream_reset(@)]
             w == ra_stream_write(d.stream)
             data == ra_stream_send(w, SinkAddr, DATA)
             init == create_handshake_message(s)
  <2>1. d \in SourceStates /\ d.run = c.run /\ Own(d, s)
    BY StreamOps DEF SourceStates, Own, ra_stream_reset, Streams
  <2>2. /\ [d EXCEPT !.stream = w] \in SourceStates
        /\ [d EXCEPT !.stream = w].run = c.run
        /\ Own([d EXCEPT !.stream = w], s)
    <3>1. w \in Streams(Slots, Secrets) /\ w.secret = d.stream.secret
      BY <2>1, StreamOps DEF SourceStates, ra_stream_write, Streams
    <3> HIDE DEF d, w
    <3> QED BY <2>1, <3>1 DEF SourceStates, Own
  <2>3. PICK late \in LateCallback(d, inflight) :
          /\ src' = [src EXCEPT ![s] = Continue([late[1] EXCEPT !.st = 1, !.hb = 0])]
          /\ net' = send_handshake(late[2], s)
    BY <1>2
  <2>4. \/ late = <<d, inflight>>
        \/ late = <<[d EXCEPT !.stream = w], ra_buf_sendto(inflight, data)>>
    BY <2>3 DEF LateCallback
  <2> DEFINE l == late[1]
             b == [l EXCEPT !.st = 1, !.hb = 0]
  <2>5. /\ l \in SourceStates /\ l.run = c.run /\ Own(l, s)
        /\ late[2] \subseteq net \cup {data}
    <3> HIDE DEF d, w, data
    <3>1. CASE late = <<d, inflight>>
      <4>1. l = d /\ late[2] = inflight
        BY <3>1
      <4> QED BY <2>1, <4>1
    <3>2. CASE late = <<[d EXCEPT !.stream = w], ra_buf_sendto(inflight, data)>>
      <4>1. l = [d EXCEPT !.stream = w] /\ late[2] = ra_buf_sendto(inflight, data)
        BY <3>2
      <4>2. late[2] \subseteq inflight \cup {data}
        BY <4>1, SendAdds
      <4> HIDE DEF l
      <4> QED BY <2>2, <4>1, <4>2
    <3> QED BY <2>4, <3>1, <3>2
  <2>6. b \in SourceStates /\ b.run = c.run /\ Own(b, s)
    <3>1. 1 \in Handshakes /\ 0 \in Silences
      BY SourceAssumption DEF Handshakes, Silences
    <3> HIDE DEF l
    <3> QED BY <2>5, <3>1 DEF SourceStates, Own
  <2> HIDE DEF b, l
  <2>7. /\ epoch' \in Epochs /\ epoch <= epoch'
        /\ \A t \in Sources : Started(t) => Started(t)'
        /\ \A t \in Sources : Leaving(t) => Leaving(t)'
        /\ Started(s)'
        /\ SlotKeyed' /\ SourceKeyed'
    <3>1. src' = [src EXCEPT ![s] = Continue(b)]
      BY <2>3 DEF b, l
    <3> QED BY <1>0, <2>6, <3>1, SourceFrame
  <2>8. Genuine(data)'
    <3>1. DATA # TERMINATE
      BY DEF DATA, TERMINATE
    <3> HIDE DEF d
    <3> QED BY <2>1, <2>7, <3>1, OwnIsGenuine
  <2>9. Genuine(init)'
    BY <2>7 DEF Genuine, create_handshake_message
  <2> HIDE DEF data, init
  <2>10. net' \subseteq net \cup {data, init}
    BY <2>3, <2>5, SendAdds DEF send_handshake, init
  <2> QED BY <2>7, <2>8, <2>9, <2>10, StaysGenuine
<1> QED BY <1>1, <1>2 DEF CheckTimeout

(* A source that sends one message on its stream, and may start to stop.   *)
LEMMA AuthenticSend ==
  ASSUME Inv, NEW s \in Sources, NEW body \in {DATA, TERMINATE},
         NEW c \in SourceStates, src' = [src EXCEPT ![s] = c],
         c.stream = ra_stream_write(src[s].stream),
         c.run \in {"running", "stopping"},
         Leaving(s) => c.run = "stopping",
         body = TERMINATE => c.run = "stopping",
         net' = ra_buf_sendto(net, ra_stream_send(ra_stream_write(src[s].stream),
                                                  SinkAddr, body)),
         UNCHANGED sinkVars
  PROVE  Authentic'
<1>1. src[s] \in SourceStates /\ Own(src[s], s)
  BY DEF Inv, TypeOK, SourceTypeOK, Authentic, SourceKeyed, Own
<1>2. Own(c, s)
  BY <1>1 DEF Own, ra_stream_write, SourceStates, Streams
<1>3. /\ epoch' \in Epochs /\ epoch <= epoch'
      /\ \A t \in Sources : Started(t) => Started(t)'
      /\ \A t \in Sources : Leaving(t) => Leaving(t)'
      /\ Started(s)'
      /\ SlotKeyed' /\ SourceKeyed'
  BY <1>2, SourceFrame
<1>4. body = TERMINATE => Leaving(s)'
  <2>1. src'[s].run = c.run
    BY DEF Inv, TypeOK, SourceTypeOK
  <2> QED BY <2>1 DEF Leaving
<1>5. PICK d \in SourceStates : d = src[s] /\ Own(d, s)
  BY <1>1
<1>6. Genuine(ra_stream_send(ra_stream_write(d.stream), SinkAddr, body))'
  BY <1>3, <1>4, <1>5, OwnIsGenuine
<1>7. net' \subseteq net \cup
            {ra_stream_send(ra_stream_write(d.stream), SinkAddr, body)}
  BY <1>5, SendAdds
<1>8. \A m \in net' : m \in net \/ Genuine(m)'
  BY <1>6, <1>7
<1> QED BY <1>3, <1>8, StaysGenuine

(* The source's other steps keep it.                                       *)
LEMMA AuthenticSource ==
  ASSUME Inv, NEW s \in Sources, SourceStep(s)
  PROVE  Authentic'
<1> USE DEF Inv
<1>0. /\ src[s] \in SourceStates /\ Own(src[s], s)
      /\ net \subseteq Messages
      /\ UNCHANGED sinkVars
  BY DEF TypeOK, NetTypeOK, SourceTypeOK, Authentic, SourceKeyed, Own, SourceStep
<1>1. CASE SourceStart(s)
  <2> DEFINE c == [src[s] EXCEPT !.run = "running", !.st = 1, !.hb = 0]
  <2>1. c \in SourceStates /\ c.run = "running" /\ Own(c, s)
    <3>1. 1 \in Handshakes /\ 0 \in Silences
      BY SourceAssumption DEF Handshakes, Silences
    <3> QED BY <1>0, <3>1 DEF SourceStates, Own
  <2>2. src' = [src EXCEPT ![s] = c] /\ ~Leaving(s)
    BY <1>1 DEF SourceStart, Leaving
  <2> HIDE DEF c
  <2>3. /\ epoch' \in Epochs /\ epoch <= epoch'
        /\ \A t \in Sources : Started(t) => Started(t)'
        /\ \A t \in Sources : Leaving(t) => Leaving(t)'
        /\ Started(s)'
        /\ SlotKeyed' /\ SourceKeyed'
    BY <1>0, <2>1, <2>2, SourceFrame
  <2>4. Genuine(create_handshake_message(s))'
    BY <2>3 DEF Genuine, create_handshake_message
  <2>5. net' \subseteq net \cup {create_handshake_message(s)}
    BY <1>1, SendAdds DEF SourceStart, send_handshake
  <2> QED BY <2>3, <2>4, <2>5, StaysGenuine
<1>2. ASSUME NEW m \in net, SourceReceive(s, m)
      PROVE  Authentic'
  <2> DEFINE c == handle_message(src[s], s, m)
  <2>0. m \in Messages /\ m.dst = s /\ src[s].run \in {"running", "stopping"}
    BY <1>0, <1>2 DEF SourceReceive, Alive
  <2>1. c \in SourceStates
    BY <1>0, <2>0, SourceOps
  <2>2. c.run = src[s].run /\ Own(c, s)
    <3>1. CASE m.type = "RA_HANDSHAKE_RESPONSE"
      <4>1. m.key \in Epochs /\ m.key <= epoch
        BY <1>2, <2>0, <3>1, MessageKinds
           DEF ResponseMessages, Authentic, ResponseAuthentic
      <4>2. /\ c.run = src[s].run
            /\ \/ c = src[s]
               \/ c.stream.secret = SecretOf(s, m.key)
        BY <1>0, <3>1
           DEF handle_message, handle_handshake_response, SourceStates, Streams
      <4> QED BY <1>0, <4>1, <4>2 DEF Own
    <3>2. CASE m.type # "RA_HANDSHAKE_RESPONSE"
      <4>1. /\ c.run = src[s].run
            /\ c.stream.secret = src[s].stream.secret
        BY <1>0, <3>2
           DEF handle_message, handle_message_crypto, ra_stream_read,
               SourceStates, Streams
      <4> QED BY <1>0, <4>1 DEF Own
    <3> QED BY <3>1, <3>2
  <2> HIDE DEF c
  <2>3. PICK left \in ra_buf_recvfrom(m) : CheckTimeout(s, c, left)
    BY <1>2 DEF SourceReceive, c
  <2> QED BY <1>0, <2>0, <2>1, <2>2, <2>3, ReceiveRemoves, AuthenticCheckTimeout
<1>3. CASE SourceIdle(s)
  BY <1>0, <1>3, AuthenticCheckTimeout DEF SourceIdle, Alive
<1>4. CASE SourceLeaveLoop(s) \/ SourceFails(s)
  <2>1. Exited \in SourceStates /\ Exited.run = "exited" /\ Own(Exited, s)
    <3>1. Exited \in SourceStates
      BY <1>0, SourceOps
    <3> QED BY <3>1 DEF Own, Exited, NoProcess, ra_stream_create
  <2>2. src' = [src EXCEPT ![s] = Exited]
    BY <1>4 DEF SourceLeaveLoop, SourceFails
  <2>3. /\ epoch' \in Epochs /\ epoch <= epoch'
        /\ \A t \in Sources : Started(t) => Started(t)'
        /\ \A t \in Sources : Leaving(t) => Leaving(t)'
        /\ SlotKeyed' /\ SourceKeyed'
    BY <1>0, <2>1, <2>2, SourceFrame
  <2> QED BY <1>4, <2>3, StaysGenuine DEF SourceLeaveLoop, SourceFails
<1>5. CASE AudioCallback(s)
  <2> DEFINE c == [src[s] EXCEPT !.stream = ra_stream_write(src[s].stream)]
  <2>1. c \in SourceStates /\ c.run = src[s].run
        /\ c.stream = ra_stream_write(src[s].stream)
    BY <1>0, TypeSend DEF SourceStates
  <2>2. src' = [src EXCEPT ![s] = c] /\ src[s].run \in {"running", "stopping"}
    BY <1>5 DEF AudioCallback, Established, Alive
  <2>3. DATA # TERMINATE /\ (Leaving(s) => src[s].run = "stopping")
    BY <2>2 DEF DATA, TERMINATE, Leaving
  <2> HIDE DEF c
  <2> QED BY <1>0, <1>5, <2>1, <2>2, <2>3, AuthenticSend DEF AudioCallback
<1>6. CASE SignalHandler(s)
  <2> DEFINE c == [src[s] EXCEPT !.stream = ra_stream_write(src[s].stream),
                                 !.run = "stopping"]
  <2>1. c \in SourceStates /\ c.run = "stopping"
        /\ c.stream = ra_stream_write(src[s].stream)
    BY <1>0, TypeSend DEF SourceStates
  <2>2. src' = [src EXCEPT ![s] = c]
    BY <1>6 DEF SignalHandler
  <2> HIDE DEF c
  <2> QED BY <1>0, <1>6, <2>1, <2>2, AuthenticSend DEF SignalHandler
<1>7. CASE SourceStop(s)
  <2> DEFINE c == [src[s] EXCEPT !.run = "stopping"]
  <2>1. c \in SourceStates /\ c.run = "stopping" /\ Own(c, s)
    BY <1>0 DEF SourceStates, Own
  <2>2. src' = [src EXCEPT ![s] = c]
    BY <1>7 DEF SourceStop
  <2> HIDE DEF c
  <2>3. /\ epoch' \in Epochs /\ epoch <= epoch'
        /\ \A t \in Sources : Started(t) => Started(t)'
        /\ \A t \in Sources : Leaving(t) => Leaving(t)'
        /\ SlotKeyed' /\ SourceKeyed'
    BY <1>0, <2>1, <2>2, SourceFrame
  <2> QED BY <1>7, <2>3, StaysGenuine DEF SourceStop
<1> QED BY <1>1, <1>2, <1>3, <1>4, <1>5, <1>6, <1>7 DEF SourceStep

(* A restart of the sink, the network and time keep it.                    *)
LEMMA AuthenticOthers ==
  ASSUME Inv, \/ SinkRestart /\ UNCHANGED src
              \/ NetworkLoses
              \/ Tick
              \/ UNCHANGED vars
  PROVE  Authentic'
<1> USE DEF Inv
<1>0. /\ epoch \in Epochs /\ epoch \in Int
      /\ slot \in [Slots -> AudioStreams]
      /\ src \in [Sources -> SourceStates]
  BY NetworkAssumption DEF TypeOK, SinkTypeOK, SourceTypeOK, Epochs
<1>1. CASE SinkRestart /\ UNCHANGED src
  <2>1. epoch' \in Epochs /\ epoch <= epoch'
    BY <1>0, <1>1, NetworkAssumption DEF SinkRestart, Epochs
  <2>2. SlotKeyed'
    BY <1>1 DEF SinkRestart, NullSlot, SlotKeyed, Open
  <2>3. SourceKeyed'
    BY <1>0, <1>1, <2>1 DEF SourceKeyed, Authentic, Epochs
  <2> QED BY <1>1, <2>1, <2>2, <2>3, StaysGenuine DEF SinkRestart, Started, Leaving
<1>2. CASE NetworkLoses
  <2>1. SlotKeyed' /\ SourceKeyed'
    BY <1>2 DEF NetworkLoses, SlotKeyed, SourceKeyed, Open, Started, Authentic
  <2> QED BY <1>0, <1>2, <2>1, StaysGenuine DEF NetworkLoses, Lose, Started, Leaving
<1>3. CASE Tick
  <2>1. \A i \in Slots : /\ slot'[i].st = slot[i].st
                         /\ slot'[i].peer = slot[i].peer
                         /\ slot'[i].stream = slot[i].stream
    BY <1>0, <1>3 DEF Tick, AgedSlot, AudioStreams
  <2>2. \A s \in Sources : src'[s].run = src[s].run /\ src'[s].stream = src[s].stream
    BY <1>0, <1>3 DEF Tick, AgedSource, SourceStates
  <2>3. epoch' = epoch /\ net' = net
    BY <1>3 DEF Tick
  <2>4. SlotKeyed'
    BY <2>1, <2>2, <2>3 DEF SlotKeyed, Open, Started, Authentic
  <2>5. SourceKeyed'
    BY <2>2, <2>3 DEF SourceKeyed, Authentic
  <2> QED BY <1>0, <2>2, <2>3, <2>4, <2>5, StaysGenuine DEF Started, Leaving
<1>4. CASE UNCHANGED vars
  <2>1. SlotKeyed' /\ SourceKeyed'
    BY <1>4 DEF vars, SlotKeyed, SourceKeyed, Open, Started, Authentic
  <2> QED BY <1>0, <1>4, <2>1, StaysGenuine DEF vars, Started, Leaving
<1> QED BY <1>1, <1>2, <1>3, <1>4

-----------------------------------------------------------------------------
(* Every step keeps the invariant.                                         *)
LEMMA InvStep == Inv /\ [Next]_vars => Inv'
<1> SUFFICES ASSUME Inv, [Next]_vars PROVE Inv'
  OBVIOUS
<1>1. ASSUME NEW m \in net, SinkReceive(m)
      PROVE  Inv'
  BY <1>1, TypeSinkReceive, AuthenticSinkReceive DEF Inv
<1>2. CASE BackgroundThread
  <2>1. PICK i \in Slots : HandleLiveness(i) /\ UNCHANGED src
    BY <1>2 DEF BackgroundThread
  <2>2. slot[i].peer \in Sources
    BY <2>1 DEF HandleLiveness, LivenessTimeout, LivenessDue, SendHeartbeat,
                HeartbeatDue, Inv, Authentic, SlotKeyed
  <2> QED BY <2>1, <2>2, TypeBackground, AuthenticBackground DEF Inv
<1>3. ASSUME NEW s \in Sources, SourceStep(s)
      PROVE  Inv'
  BY <1>3, TypeSource, AuthenticSource DEF Inv
<1>4. CASE \/ SinkRestart /\ UNCHANGED src
           \/ NetworkLoses
           \/ Tick
           \/ UNCHANGED vars
  BY <1>4, TypeOthers, AuthenticOthers DEF Inv
<1> QED BY <1>1, <1>2, <1>3, <1>4 DEF Next, Step

(* The invariant holds in every state.                                     *)
LEMMA Invariance == Spec => []Inv
<1>1. Init => Inv
  BY TypeInit, AuthenticInit DEF Inv
<1> QED BY <1>1, InvStep, PTL DEF Spec

(* Every variable keeps its type: no handler builds a slot, a source or a  *)
(* datagram that the code could not have.                                  *)
THEOREM TypeCorrect == Spec => []TypeOK
<1>1. Inv => TypeOK
  BY DEF Inv
<1> QED BY <1>1, Invariance, PTL

(* Whatever is in flight, and every key in use, belongs to the process it  *)
(* claims to come from, through slot reuse, late and duplicated datagrams  *)
(* and restarts of the sink (handle_handshake_init, handle_message_crypto, *)
(* handle_handshake_response).                                             *)
THEOREM AuthenticCorrect == Spec => []Authentic
<1>1. Inv => Authentic
  BY DEF Inv
<1> QED BY <1>1, Invariance, PTL

-----------------------------------------------------------------------------
(* The slot table implements SlotLease: each step is a step of the leases  *)
(* or leaves them as they are.                                             *)

(* The first state of the program is one of the lease.                     *)
LEMMA LeaseInit == Init => Lease!Init
<1> SUFFICES ASSUME Init PROVE Lease!Init
  OBVIOUS
<1>1. leasePhase = [s \in Sources |-> "new"]
  BY DEF Init, SourceInit, NoProcess, leasePhase
<1>2. \A i \in Slots : ~Open(i)
  BY DEF Init, SinkInit, NullSlot, Open
<1>3. epoch = 0
  BY DEF Init, SinkInit
<1> QED BY <1>1, <1>2, <1>3 DEF Lease!Init, leaseOwner, leaseIdle

(* What the slot operations do to the fields the leases are read from.     *)
LEMMA SlotFields ==
  ASSUME NEW a \in AudioStreams, NEW s \in Sources
  PROVE  /\ Keyed(a, s).st = a.st
         /\ audio_stream_open(a, s).st = "open"
         /\ audio_stream_open(a, s).peer = s
         /\ audio_stream_open(a, s).upd = 0
         /\ audio_stream_close(a).st = "closed"
<1>1. Keyed(a, s).st = a.st
  BY DEF Keyed, AudioStreams
<1>2. /\ audio_stream_open(a, s).st = "open"
      /\ audio_stream_open(a, s).peer = s
      /\ audio_stream_open(a, s).upd = 0
  BY DEF audio_stream_open, AudioStreams
<1>3. audio_stream_close(a).st = "closed"
  BY DEF audio_stream_close, AudioStreams
<1> QED BY <1>1, <1>2, <1>3

(* A step that touches slot i only changes the lease of i only.            *)
LEMMA LeaseOfOneSlot ==
  ASSUME NEW i \in Slots, \A j \in Slots : j # i => slot'[j] = slot[j]
  PROVE  /\ leaseOwner' = [leaseOwner EXCEPT ![i] = leaseOwner'[i]]
         /\ leaseIdle' = [leaseIdle EXCEPT ![i] = leaseIdle'[i]]
         /\ slot'[i].st = "open" =>
              leaseOwner'[i] = slot'[i].peer /\ leaseIdle'[i] = slot'[i].upd
         /\ slot'[i].st # "open" => leaseOwner'[i] = NoPeer /\ leaseIdle'[i] = 0
<1>1. \A j \in Slots : j # i =>
        leaseOwner'[j] = leaseOwner[j] /\ leaseIdle'[j] = leaseIdle[j]
  BY DEF leaseOwner, leaseIdle, Open
<1>2. /\ leaseOwner = [j \in Slots |-> leaseOwner[j]]
      /\ leaseOwner' = [j \in Slots |-> leaseOwner'[j]]
      /\ leaseIdle = [j \in Slots |-> leaseIdle[j]]
      /\ leaseIdle' = [j \in Slots |-> leaseIdle'[j]]
  BY DEF leaseOwner, leaseIdle
<1>3. /\ leaseOwner' = [leaseOwner EXCEPT ![i] = leaseOwner'[i]]
      /\ leaseIdle' = [leaseIdle EXCEPT ![i] = leaseIdle'[i]]
  BY <1>1, <1>2
<1>4. /\ slot'[i].st = "open" =>
           leaseOwner'[i] = slot'[i].peer /\ leaseIdle'[i] = slot'[i].upd
      /\ slot'[i].st # "open" => leaseOwner'[i] = NoPeer /\ leaseIdle'[i] = 0
  BY DEF leaseOwner, leaseIdle, Open
<1> QED BY <1>3, <1>4

(* A handshake leases a free place to a source that asked, or none.        *)
LEMMA LeaseHandshake ==
  ASSUME Inv, Inv', NEW m \in net, HandleHandshakeInit(m), UNCHANGED src
  PROVE  Lease!Next \/ UNCHANGED Lease!vars
<1> USE DEF Inv
<1>0. /\ m \in Messages /\ epoch \in Epochs /\ SinkTypeOK
      /\ slot \in [Slots -> AudioStreams] /\ slot' \in [Slots -> AudioStreams]
      /\ leasePhase' = leasePhase /\ epoch' = epoch
  BY DEF TypeOK, NetTypeOK, SinkTypeOK, leasePhase, HandleHandshakeInit
<1>1. m.from \in Sources /\ Started(m.from)
  BY <1>0, MessageKinds
     DEF HandleHandshakeInit, InitMessages, Authentic, InitAuthentic
<1>2. ASSUME NEW i \in Slots, HandshakeAccepted(m, i)
      PROVE  Lease!Acquire(m.from, i)
  <2>1. PICK h \in UninitHeartbeat :
          slot' = [slot EXCEPT ![i] =
                     audio_stream_open(Keyed(audio_stream_create(i, h), m.from),
                                       m.from)]
    BY <1>2 DEF HandshakeAccepted
  <2>2. /\ slot'[i] = audio_stream_open(Keyed(audio_stream_create(i, h), m.from),
                                        m.from)
        /\ \A j \in Slots : j # i => slot'[j] = slot[j]
    BY <1>0, <2>1
  <2>3. Keyed(audio_stream_create(i, h), m.from) \in AudioStreams
    BY <1>0, <1>1, SlotOps
  <2>4. slot'[i].st = "open" /\ slot'[i].peer = m.from /\ slot'[i].upd = 0
    BY <1>1, <2>2, <2>3, SlotFields
  <2>5. leaseOwner'[i] = m.from /\ leaseIdle'[i] = 0
    BY <2>2, <2>4, LeaseOfOneSlot
  <2>6. /\ leaseOwner' = [leaseOwner EXCEPT ![i] = m.from]
        /\ leaseIdle' = [leaseIdle EXCEPT ![i] = 0]
    BY <2>2, <2>5, LeaseOfOneSlot
  <2>7. leaseOwner[i] = NoPeer
    BY <1>2 DEF HandshakeAccepted, FirstFree, leaseOwner
  <2>8. leasePhase[m.from] # "new"
    BY <1>1 DEF Started, leasePhase
  <2> QED BY <1>0, <2>6, <2>7, <2>8 DEF Lease!Acquire
<1>3. ASSUME NEW i \in Slots, HandshakeOpenFails(m, i)
      PROVE  UNCHANGED Lease!vars
  <2>1. PICK h \in UninitHeartbeat :
          slot' = [slot EXCEPT ![i] = Keyed(audio_stream_create(i, h), m.from)]
    BY <1>3 DEF HandshakeOpenFails
  <2>2. /\ slot'[i] = Keyed(audio_stream_create(i, h), m.from)
        /\ \A j \in Slots : j # i => slot'[j] = slot[j]
    BY <1>0, <2>1
  <2>3. audio_stream_create(i, h) \in AudioStreams
    BY <1>0, SlotOps
  <2>4. slot[i].st # "open" /\ audio_stream_create(i, h).st # "open"
    BY <1>0, <1>3 DEF HandshakeOpenFails, FirstFree, Open, audio_stream_create,
                      AudioStreams
  <2>5. slot'[i].st # "open"
    BY <1>1, <2>2, <2>3, <2>4, SlotFields
  <2>6. leaseOwner' = leaseOwner /\ leaseIdle' = leaseIdle
    BY <2>2, <2>4, <2>5 DEF leaseOwner, leaseIdle, Open
  <2> QED BY <1>0, <2>6 DEF Lease!vars
<1>4. CASE HandshakeRefused(m)
  <2>1. leaseOwner' = leaseOwner /\ leaseIdle' = leaseIdle
    BY <1>4 DEF HandshakeRefused, leaseOwner, leaseIdle, Open
  <2> QED BY <1>0, <2>1 DEF Lease!vars
<1> QED BY <1>1, <1>2, <1>3, <1>4 DEF HandleHandshakeInit, Lease!Next

(* A message renews a lease, releases its sender's, or changes none.       *)
LEMMA LeaseMessage ==
  ASSUME Inv, Inv', NEW m \in net, HandleMessageCrypto(m), UNCHANGED src
  PROVE  Lease!Next \/ UNCHANGED Lease!vars
<1> USE DEF Inv
<1>0. /\ m \in Messages /\ epoch \in Epochs
      /\ slot \in [Slots -> AudioStreams] /\ slot' \in [Slots -> AudioStreams]
      /\ leasePhase' = leasePhase /\ epoch' = epoch
  BY DEF TypeOK, NetTypeOK, SinkTypeOK, leasePhase, HandleMessageCrypto
<1>1. m \in CryptoMessages /\ m.id \in Slots /\ slot[m.id] \in AudioStreams
  BY <1>0, MessageKinds DEF HandleMessageCrypto, CryptoMessages
<1>2. CASE HandleMessageRejected(m)
  <2>1. leaseOwner' = leaseOwner /\ leaseIdle' = leaseIdle
    BY <1>2 DEF HandleMessageRejected, leaseOwner, leaseIdle, Open
  <2> QED BY <1>0, <2>1 DEF Lease!vars
<1>3. ASSUME Accepts(m)
      PROVE  /\ slot[m.id].st = "open" /\ slot[m.id].peer \in Sources
             /\ leaseOwner[m.id] = slot[m.id].peer /\ leaseOwner[m.id] # NoPeer
             /\ m.secret = SecretOf(slot[m.id].peer, epoch)
  <2>1. Open(m.id) /\ m.secret = slot[m.id].stream.secret
    BY <1>3 DEF Accepts, Readable
  <2>2. /\ slot[m.id].peer \in Sources
        /\ slot[m.id].stream.secret = SecretOf(slot[m.id].peer, epoch)
    BY <1>1, <2>1 DEF Authentic, SlotKeyed
  <2> QED BY <1>1, <2>1, <2>2, SinkAssumption DEF leaseOwner, Open
<1>4. /\ Accepted(m) \in [st : {slot[m.id].st}, stream : {Accepted(m).stream},
                          peer : {slot[m.id].peer}, upd : {0},
                          hb : {slot[m.id].hb}]
  BY <1>1 DEF Accepted, AudioStreams
<1>5. CASE HandleStreamData(m)
  <2>1. Accepts(m) /\ slot' = [slot EXCEPT ![m.id] = Accepted(m)]
    BY <1>5 DEF HandleStreamData
  <2>2. /\ slot'[m.id] = Accepted(m)
        /\ \A j \in Slots : j # m.id => slot'[j] = slot[j]
    BY <1>0, <1>1, <2>1
  <2>3. /\ slot'[m.id].st = "open" /\ slot'[m.id].peer = slot[m.id].peer
        /\ slot'[m.id].upd = 0
    BY <1>3, <1>4, <2>1, <2>2
  <2>4. leaseOwner'[m.id] = leaseOwner[m.id] /\ leaseIdle'[m.id] = 0
    BY <1>1, <1>3, <2>1, <2>2, <2>3, LeaseOfOneSlot
  <2>5. /\ leaseOwner' = [leaseOwner EXCEPT ![m.id] = leaseOwner[m.id]]
        /\ leaseIdle' = [leaseIdle EXCEPT ![m.id] = 0]
    BY <1>1, <2>2, <2>4, LeaseOfOneSlot
  <2>6. leaseOwner' = leaseOwner
    BY <2>5 DEF leaseOwner
  <2> QED BY <1>0, <1>1, <1>3, <2>1, <2>5, <2>6 DEF Lease!Renew, Lease!Next
<1>6. CASE HandleStreamTerminate(m)
  <2>1. /\ Accepts(m) /\ m.body = TERMINATE
        /\ slot' = [slot EXCEPT ![m.id] = audio_stream_close(Accepted(m))]
    BY <1>6 DEF HandleStreamTerminate
  <2>2. /\ slot'[m.id] = audio_stream_close(Accepted(m))
        /\ \A j \in Slots : j # m.id => slot'[j] = slot[j]
    BY <1>0, <1>1, <2>1
  <2>3. slot'[m.id].st # "open"
    BY <1>4, <2>2 DEF audio_stream_close
  <2>4. leaseOwner'[m.id] = NoPeer /\ leaseIdle'[m.id] = 0
    BY <1>1, <2>2, <2>3, LeaseOfOneSlot
  <2>5. /\ leaseOwner' = [leaseOwner EXCEPT ![m.id] = NoPeer]
        /\ leaseIdle' = [leaseIdle EXCEPT ![m.id] = 0]
    BY <1>1, <2>2, <2>4, LeaseOfOneSlot
  <2>6. Leaving(slot[m.id].peer)
    <3>1. m.type = "RA_MESSAGE_CRYPTO" /\ m.dst = SinkAddr
      BY DEF HandleMessageCrypto
    <3> QED BY <1>0, <1>3, <2>1, <3>1 DEF Authentic, DataAuthentic
  <2>7. leasePhase[leaseOwner[m.id]] = "left"
    BY <1>3, <2>1, <2>6 DEF Leaving, leasePhase
  <2> QED BY <1>0, <1>1, <1>3, <2>1, <2>5, <2>7
          DEF Lease!Release, Lease!Free, Lease!Next
<1> QED BY <1>2, <1>5, <1>6 DEF HandleMessageCrypto

(* The liveness pass ends only a lease that was idle for its term.         *)
LEMMA LeaseBackground ==
  ASSUME Inv, Inv', NEW i \in Slots, HandleLiveness(i), UNCHANGED src
  PROVE  Lease!Next \/ UNCHANGED Lease!vars
<1> USE DEF Inv
<1>0. /\ slot \in [Slots -> AudioStreams] /\ slot' \in [Slots -> AudioStreams]
      /\ slot[i] \in AudioStreams /\ leasePhase' = leasePhase /\ epoch' = epoch
  BY DEF TypeOK, SinkTypeOK, leasePhase, HandleLiveness
<1>1. CASE LivenessTimeout(i)
  <2>1. slot[i].st = "open" /\ slot[i].upd >= LIVENESS_TIMEOUT
    BY <1>1 DEF LivenessTimeout, LivenessDue, Open
  <2>2. slot[i].upd = LIVENESS_TIMEOUT
    <3>1. slot[i].upd \in 0 .. LIVENESS_TIMEOUT
      BY <1>0 DEF AudioStreams
    <3> QED BY <2>1, <3>1, SinkAssumption
  <2>3. slot[i].peer \in Sources
    BY <2>1 DEF Authentic, SlotKeyed, Open
  <2>4. leaseOwner[i] # NoPeer /\ leaseIdle[i] = LIVENESS_TIMEOUT
    BY <2>1, <2>2, <2>3, SinkAssumption DEF leaseOwner, leaseIdle, Open
  <2>5. /\ slot'[i].st # "open"
        /\ \A j \in Slots : j # i => slot'[j] = slot[j]
    BY <1>0, <1>1
       DEF LivenessTimeout, SendStreamSignal, audio_stream_close, AudioStreams
  <2>6. leaseOwner'[i] = NoPeer /\ leaseIdle'[i] = 0
    BY <2>5, LeaseOfOneSlot
  <2>7. /\ leaseOwner' = [leaseOwner EXCEPT ![i] = NoPeer]
        /\ leaseIdle' = [leaseIdle EXCEPT ![i] = 0]
    BY <2>5, <2>6, LeaseOfOneSlot
  <2> QED BY <1>0, <2>4, <2>7 DEF Lease!Expire, Lease!Free, Lease!Next
<1>2. CASE SendHeartbeat(i)
  <2>1. \A j \in Slots : /\ slot'[j].st = slot[j].st
                         /\ slot'[j].peer = slot[j].peer
                         /\ slot'[j].upd = slot[j].upd
    BY <1>0, <1>2 DEF SendHeartbeat, SendStreamSignal, AudioStreams
  <2>2. leaseOwner' = leaseOwner /\ leaseIdle' = leaseIdle
    BY <2>1 DEF leaseOwner, leaseIdle, Open
  <2> QED BY <1>0, <2>2 DEF Lease!vars
<1> QED BY <1>1, <1>2 DEF HandleLiveness

(* How the end of an iteration moves a source through its run.             *)
LEMMA RunAfterIteration ==
  ASSUME TypeOK, NEW s \in Sources, NEW c \in SourceStates,
         NEW inflight, CheckTimeout(s, c, inflight)
  PROVE  /\ \A t \in Sources : t # s => src'[t] = src[t]
         /\ \/ src'[s].run = c.run
            \/ c.run = "stopping" /\ src'[s].run = "exited"
         /\ Established(s)' => src'[s] = c
<1>0. src \in [Sources -> SourceStates]
  BY DEF TypeOK, SourceTypeOK
<1>1. ASSUME NEW d \in SourceStates, d.run = c.run,
             src' = [src EXCEPT ![s] = Continue(d)]
      PROVE  /\ \A t \in Sources : t # s => src'[t] = src[t]
             /\ \/ src'[s].run = c.run
                \/ c.run = "stopping" /\ src'[s].run = "exited"
             /\ Established(s)' => src'[s] = d
  <2>1. src'[s] = Continue(d) /\ \A t \in Sources : t # s => src'[t] = src[t]
    BY <1>0, <1>1
  <2> QED BY <1>1, <2>1 DEF Continue, Exited, NoProcess, Established, Alive
<1>2. CASE ~TimedOut(c) /\ src' = [src EXCEPT ![s] = Continue(c)]
  BY <1>1, <1>2
<1>3. CASE \E late \in LateCallback([c EXCEPT !.stream = ra_stream_reset(@)], inflight) :
             src' = [src EXCEPT ![s] = Continue([late[1] EXCEPT !.st = 1, !.hb = 0])]
  <2> DEFINE d == [c EXCEPT !.stream = ra_stream_reset(@)]
             w == ra_stream_write(d.stream)
  <2>1. d \in SourceStates /\ d.run = c.run
    BY StreamOps DEF SourceStates
  <2>2. [d EXCEPT !.stream = w] \in SourceStates /\ [d EXCEPT !.stream = w].run = c.run
    <3>1. w \in Streams(Slots, Secrets)
      BY <2>1, StreamOps DEF SourceStates
    <3> HIDE DEF d, w
    <3> QED BY <2>1, <3>1 DEF SourceStates
  <2>3. PICK late \in LateCallback(d, inflight) :
          src' = [src EXCEPT ![s] = Continue([late[1] EXCEPT !.st = 1, !.hb = 0])]
    BY <1>3
  <2> DEFINE l == late[1]
             b == [l EXCEPT !.st = 1, !.hb = 0]
  <2>4. l = d \/ l = [d EXCEPT !.stream = w]
    <3> HIDE DEF d
    <3> QED BY <2>3 DEF LateCallback
  <2> HIDE DEF d, w, l
  <2>5. l \in SourceStates /\ l.run = c.run
    BY <2>1, <2>2, <2>4
  <2>6. b \in SourceStates /\ b.run = c.run /\ b.st # 2
    <3>1. 1 \in Handshakes /\ 0 \in Silences
      BY SourceAssumption DEF Handshakes, Silences
    <3>2. b \in SourceStates /\ b.run = c.run
      BY <2>5, <3>1 DEF SourceStates
    <3>3. b.st = 1
      BY <2>5 DEF SourceStates
    <3> QED BY <3>2, <3>3
  <2>7. src' = [src EXCEPT ![s] = Continue(b)]
    BY <2>3 DEF l
  <2> HIDE DEF b
  <2>8. ~Established(s)'
    BY <1>1, <2>6, <2>7 DEF Established
  <2> QED BY <1>1, <2>6, <2>7, <2>8
<1> QED BY <1>2, <1>3 DEF CheckTimeout

(* How any step of a source moves it through its run.                      *)
LEMMA RunOfSource ==
  ASSUME TypeOK, NEW s \in Sources, SourceStep(s)
  PROVE  /\ \A t \in Sources : t # s => src'[t] = src[t]
         /\ \/ src'[s].run = src[s].run
            \/ src[s].run = "off" /\ src'[s].run = "running"
            \/ /\ src[s].run \in {"running", "stopping"}
               /\ src'[s].run \in {"stopping", "exited"}
<1>0. src \in [Sources -> SourceStates] /\ src[s] \in SourceStates
      /\ net \subseteq Messages
  BY DEF TypeOK, SourceTypeOK, NetTypeOK
<1>1. CASE SourceStart(s)
  BY <1>0, <1>1 DEF SourceStart, SourceStates
<1>2. ASSUME NEW m \in net, SourceReceive(s, m)
      PROVE  /\ \A t \in Sources : t # s => src'[t] = src[t]
             /\ \/ src'[s].run = src[s].run
                \/ src[s].run = "stopping" /\ src'[s].run = "exited"
  <2> DEFINE c == handle_message(src[s], s, m)
  <2>1. m \in Messages /\ m.dst = s /\ src[s].run \in {"running", "stopping"}
    BY <1>0, <1>2 DEF SourceReceive, Alive
  <2>2. c \in SourceStates
    BY <1>0, <2>1, SourceOps
  <2>3. c.run = src[s].run
    BY <1>0 DEF handle_message, handle_handshake_response, handle_message_crypto,
                SourceStates
  <2> HIDE DEF c
  <2>4. PICK left \in ra_buf_recvfrom(m) : CheckTimeout(s, c, left)
    BY <1>2 DEF SourceReceive, c
  <2> QED BY <2>1, <2>2, <2>3, <2>4, RunAfterIteration
<1>3. CASE SourceIdle(s)
  BY <1>0, <1>3, RunAfterIteration DEF SourceIdle, Alive
<1>4. CASE SourceLeaveLoop(s) \/ SourceFails(s)
  BY <1>0, <1>4 DEF SourceLeaveLoop, SourceFails, Alive, Exited, NoProcess
<1>5. CASE AudioCallback(s)
  BY <1>0, <1>5 DEF AudioCallback, SourceStates
<1>6. CASE SignalHandler(s)
  BY <1>0, <1>6 DEF SignalHandler, Alive, SourceStates
<1>7. CASE SourceStop(s)
  BY <1>0, <1>7 DEF SourceStop, SourceStates
<1> QED BY <1>1, <1>2, <1>3, <1>4, <1>5, <1>6, <1>7 DEF SourceStep

(* A source joins or leaves, and touches no lease.                         *)
LEMMA LeaseSource ==
  ASSUME Inv, NEW s \in Sources, SourceStep(s)
  PROVE  Lease!Next \/ UNCHANGED Lease!vars
<1>1. leaseOwner' = leaseOwner /\ leaseIdle' = leaseIdle /\ epoch' = epoch
  BY DEF SourceStep, sinkVars, leaseOwner, leaseIdle, Open
<1>2. /\ \A t \in Sources : t # s => leasePhase'[t] = leasePhase[t]
      /\ \/ leasePhase'[s] = leasePhase[s]
         \/ leasePhase[s] = "new" /\ leasePhase'[s] = "live"
         \/ leasePhase[s] = "live" /\ leasePhase'[s] = "left"
  BY RunOfSource DEF Inv, leasePhase
<1>3. /\ leasePhase = [t \in Sources |-> leasePhase[t]]
      /\ leasePhase' = [t \in Sources |-> leasePhase'[t]]
  BY DEF leasePhase
<1>4. leasePhase' = [leasePhase EXCEPT ![s] = leasePhase'[s]]
  BY <1>2, <1>3
<1>5. CASE leasePhase'[s] = leasePhase[s]
  <2>1. leasePhase' = leasePhase
    BY <1>2, <1>3, <1>5
  <2> QED BY <1>1, <2>1 DEF Lease!vars
<1>6. CASE leasePhase[s] = "new" /\ leasePhase'[s] = "live"
  BY <1>1, <1>4, <1>6 DEF Lease!Next, Lease!Join
<1>7. CASE leasePhase[s] = "live" /\ leasePhase'[s] = "left"
  BY <1>1, <1>4, <1>7 DEF Lease!Next, Lease!Leave
<1> QED BY <1>2, <1>5, <1>6, <1>7

(* A restart revokes every lease, time ages them, a loss changes none.     *)
LEMMA LeaseOthers ==
  ASSUME Inv, \/ SinkRestart /\ UNCHANGED src
              \/ NetworkLoses
              \/ Tick
              \/ UNCHANGED vars
  PROVE  Lease!Next \/ UNCHANGED Lease!vars
<1>0. /\ slot \in [Slots -> AudioStreams] /\ src \in [Sources -> SourceStates]
  BY DEF Inv, TypeOK, SinkTypeOK, SourceTypeOK
<1>1. CASE SinkRestart /\ UNCHANGED src
  <2>1. leaseOwner' = [i \in Slots |-> NoPeer] /\ leaseIdle' = [i \in Slots |-> 0]
    BY <1>1 DEF SinkRestart, NullSlot, leaseOwner, leaseIdle, Open
  <2>2. leasePhase' = leasePhase /\ epoch' = epoch + 1
    BY <1>1 DEF SinkRestart, leasePhase
  <2> QED BY <2>1, <2>2 DEF Lease!Next, Lease!Revoke
<1>2. CASE NetworkLoses \/ UNCHANGED vars
  BY <1>2 DEF NetworkLoses, vars, Lease!vars, leasePhase, leaseOwner, leaseIdle, Open
<1>3. CASE Tick
  <2>1. \A i \in Slots :
          /\ slot'[i].st = slot[i].st
          /\ slot'[i].peer = slot[i].peer
          /\ slot[i].st = "open" =>
               slot'[i].upd = IF slot[i].upd < LIVENESS_TIMEOUT
                                THEN slot[i].upd + 1 ELSE slot[i].upd
    BY <1>0, <1>3 DEF Tick, AgedSlot, AudioStreams
  <2>2. leaseOwner' = leaseOwner
    BY <2>1 DEF leaseOwner, Open
  <2>3. \A i \in Slots : slot[i].st = "open" => slot[i].peer # NoPeer
    BY SinkAssumption DEF Inv, Authentic, SlotKeyed, Open
  <2>4. leaseIdle' = [i \in Slots |->
          IF leaseOwner[i] # NoPeer /\ leaseIdle[i] < LIVENESS_TIMEOUT
            THEN leaseIdle[i] + 1 ELSE leaseIdle[i]]
    <3>1. \A i \in Slots : leaseOwner[i] # NoPeer <=> slot[i].st = "open"
      BY <2>3 DEF leaseOwner, Open
    <3> QED BY <2>1, <3>1 DEF leaseIdle, Open
  <2>5. leasePhase' = leasePhase
    <3>1. \A s \in Sources : src'[s].run = src[s].run
      BY <1>0, <1>3 DEF Tick, AgedSource, SourceStates
    <3> QED BY <3>1 DEF leasePhase
  <2>6. epoch' = epoch
    BY <1>3 DEF Tick
  <2> QED BY <2>2, <2>4, <2>5, <2>6 DEF Lease!Next, Lease!Tick
<1> QED BY <1>1, <1>2, <1>3

(* Every step of the program is a step of the lease, or none.              *)
LEMMA LeaseStep == Inv /\ Inv' /\ [Next]_vars => [Lease!Next]_(Lease!vars)
<1> SUFFICES ASSUME Inv, Inv', [Next]_vars
             PROVE  Lease!Next \/ UNCHANGED Lease!vars
  OBVIOUS
<1>1. ASSUME NEW m \in net, SinkReceive(m)
      PROVE  Lease!Next \/ UNCHANGED Lease!vars
  BY <1>1, LeaseHandshake, LeaseMessage DEF SinkReceive
<1>2. CASE BackgroundThread
  BY <1>2, LeaseBackground DEF BackgroundThread
<1>3. ASSUME NEW s \in Sources, SourceStep(s)
      PROVE  Lease!Next \/ UNCHANGED Lease!vars
  BY <1>3, LeaseSource
<1>4. CASE \/ SinkRestart /\ UNCHANGED src
           \/ NetworkLoses
           \/ Tick
           \/ UNCHANGED vars
  BY <1>4, LeaseOthers
<1> QED BY <1>1, <1>2, <1>3, <1>4 DEF Next, Step

(* The slots are leases: whatever the network and the other processes do,  *)
(* a slot is given while free to a source that asked for it, and taken     *)
(* back only when its own source left, was silent for LIVENESS_TIMEOUT, or *)
(* the sink restarted (handle_handshake_init, handle_message_crypto,       *)
(* handle_liveness).                                                       *)
THEOREM LeaseImplemented == Spec => LeaseSpec
<1>1. Init => Lease!Init
  BY LeaseInit
<1>2. Inv /\ Inv' /\ [Next]_vars => [Lease!Next]_(Lease!vars)
  BY LeaseStep
<1> QED BY <1>1, <1>2, Invariance, PTL DEF Spec, LeaseSpec, Lease!Spec
-----------------------------------------------------------------------------
(* No step of a source moves its session and keeps it.                     *)
LEMMA SessionOfSource ==
  ASSUME TypeOK, NEW s \in Sources, SourceStep(s), Established(s), Established(s)'
  PROVE  /\ src'[s].stream.id = src[s].stream.id
         /\ src'[s].stream.secret = src[s].stream.secret
<1>0. /\ src \in [Sources -> SourceStates] /\ src[s] \in SourceStates
      /\ src[s].stream \in Streams(Slots, Secrets)
      /\ src[s].st = 2 /\ src[s].run \in {"running", "stopping"}
  BY DEF TypeOK, SourceTypeOK, SourceStates, Established, Alive
<1>1. ra_stream_write(src[s].stream).id = src[s].stream.id
      /\ ra_stream_write(src[s].stream).secret = src[s].stream.secret
  BY <1>0 DEF ra_stream_write, Streams
<1>2. CASE SourceStart(s)
  BY <1>0, <1>2 DEF SourceStart
<1>3. ASSUME NEW m \in net, SourceReceive(s, m)
      PROVE  /\ src'[s].stream.id = src[s].stream.id
             /\ src'[s].stream.secret = src[s].stream.secret
  <2> DEFINE c == handle_message(src[s], s, m)
  <2>1. m \in Messages /\ m.dst = s
    BY <1>3 DEF SourceReceive, TypeOK, NetTypeOK
  <2>2. c \in SourceStates
    BY <1>0, <2>1, SourceOps
  <2>3. c.stream.id = src[s].stream.id /\ c.stream.secret = src[s].stream.secret
    <3>1. ra_stream_read(src[s].stream, m).id = src[s].stream.id
          /\ ra_stream_read(src[s].stream, m).secret = src[s].stream.secret
      BY <1>0 DEF ra_stream_read, Streams
    <3> QED BY <1>0, <3>1
            DEF handle_message, handle_handshake_response, handle_message_crypto,
                SourceStates
  <2> HIDE DEF c
  <2>4. PICK left \in ra_buf_recvfrom(m) : CheckTimeout(s, c, left)
    BY <1>3 DEF SourceReceive, c
  <2>5. src'[s] = c
    BY <2>2, <2>4, RunAfterIteration
  <2> QED BY <2>3, <2>5
<1>4. CASE SourceIdle(s)
  BY <1>0, <1>4, RunAfterIteration DEF SourceIdle
<1>5. CASE SourceLeaveLoop(s) \/ SourceFails(s)
  BY <1>0, <1>5
     DEF SourceLeaveLoop, SourceFails, Exited, NoProcess, Established, Alive
<1>6. CASE AudioCallback(s) \/ SignalHandler(s)
  <2>1. src'[s].stream = ra_stream_write(src[s].stream)
    BY <1>0, <1>6 DEF AudioCallback, SignalHandler, SourceStates
  <2> QED BY <1>1, <2>1
<1>7. CASE SourceStop(s)
  BY <1>0, <1>7 DEF SourceStop, SourceStates
<1> QED BY <1>2, <1>3, <1>4, <1>5, <1>6, <1>7 DEF SourceStep

(* An established session stays with its slot and key until the heartbeat  *)
(* timeout gives it up, whatever late or repeated RESPONSE arrives         *)
(* (handle_handshake_response, source_main).                               *)
THEOREM SessionPinnedCorrect == Spec => SessionPinned
<1>1. ASSUME Inv, Inv', [Next]_vars, NEW s \in Sources,
             Established(s), Established(s)'
      PROVE  /\ src'[s].stream.id = src[s].stream.id
             /\ src'[s].stream.secret = src[s].stream.secret
  <2>1. CASE src' = src
    BY <2>1
  <2>2. ASSUME NEW t \in Sources, SourceStep(t)
        PROVE  /\ src'[s].stream.id = src[s].stream.id
               /\ src'[s].stream.secret = src[s].stream.secret
    BY <1>1, <2>2, RunOfSource, SessionOfSource DEF Inv
  <2>3. CASE Tick
    <3>1. src'[s].stream = src[s].stream
      BY <1>1, <2>3
         DEF Tick, AgedSource, SourceStates, Inv, TypeOK, SourceTypeOK
    <3> QED BY <3>1
  <2> QED BY <1>1, <2>1, <2>2, <2>3
          DEF Next, Step, SinkReceive, BackgroundThread, NetworkLoses, vars
<1>2. Inv /\ Inv' /\ [Next]_vars =>
        [\A s \in Sources : Established(s) /\ Established(s)' =>
           /\ src'[s].stream.id = src[s].stream.id
           /\ src'[s].stream.secret = src[s].stream.secret]_vars
  BY <1>1
<1> QED BY <1>2, Invariance, PTL DEF Spec, SessionPinned
=============================================================================
