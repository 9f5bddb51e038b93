-------------------------- MODULE SlotsBoundedProofs --------------------------
(***************************************************************************)
(* How many slots one source can hold: proof of SlotsBounded, for any      *)
(* number of sources, slots and restarts, any timeouts, and a network that *)
(* may lose any datagram, as long as time waits for work that is due and   *)
(* the network duplicates nothing.                                         *)
(*                                                                         *)
(* The argument is about when the slots of a source were opened, which the *)
(* sink does not keep: the invariant says that there are ages o[i] of the  *)
(* openings such that openings are a heartbeat timeout apart, a slot was   *)
(* heard of after its opening, and never after the next one.               *)
(***************************************************************************)
EXTENDS RemoteAudioProofs, FiniteSetTheorems

H == HEARTBEAT_TIMEOUT
InitOf(s) == create_handshake_message(s)
ResponseTo(s, m) == m.type = "RA_HANDSHAKE_RESPONSE" /\ m.dst = s

(* A message that the sink reads in a slot of s and that renews it.        *)
DataOf(s, m) == /\ m.type = "RA_MESSAGE_CRYPTO" /\ m.dst = SinkAddr
                /\ m.secret = SecretOf(s, epoch) /\ m.body # TERMINATE

(* A handshake is under way only in the tick in which it began, and one at *)
(* a time.                                                                 *)
HandshakeInv(s) ==
  /\ InitOf(s) \in net => /\ src[s].hb = 0 /\ src[s].st # 2
                          /\ \A m \in net : ~ResponseTo(s, m)
  /\ \A m \in net : ResponseTo(s, m) => src[s].hb = 0 /\ Started(s)

(* The ages of the openings against each other and against last_update.    *)
Spread(s, o) ==
  \A i \in SlotsOf(s) :
    /\ slot[i].upd <= o[i]
    /\ \A j \in SlotsOf(s) : /\ i # j => o[i] + H <= o[j] \/ o[j] + H <= o[i]
                             /\ o[j] < o[i] => o[j] <= slot[i].upd

(* Nothing was opened since the source last had reason to wait.            *)
SinceHandshake(s, o) == Alive(s) => \A i \in SlotsOf(s) : src[s].hb <= o[i]

RoomForInit(s, o) == InitOf(s) \in net => \A i \in SlotsOf(s) : H <= o[i]

Newest(s, o, i) == i \in SlotsOf(s) => \A j \in SlotsOf(s) : o[i] <= o[j]

NewestAnswered(s, o) ==
  \A m \in net : ResponseTo(s, m) /\ m.key = epoch => Newest(s, o, m.id)

NewestStreams(s, o) ==
  Established(s) /\ src[s].stream.secret = SecretOf(s, epoch)
    => Newest(s, o, src[s].stream.id)

(* What may still renew a slot after the next was opened is of that tick.  *)
LateData(s, o) ==
  \A m \in net : DataOf(s, m) /\ m.id \in SlotsOf(s) =>
    \A j \in SlotsOf(s) : o[j] < o[m.id] => o[j] = 0

OpenedInv(s, o) == /\ Spread(s, o) /\ SinceHandshake(s, o) /\ RoomForInit(s, o)
                   /\ NewestAnswered(s, o) /\ NewestStreams(s, o)
                   /\ LateData(s, o)

Ages == [Slots -> Nat]
CountInv == \A s \in Sources : HandshakeInv(s) /\ \E o \in Ages : OpenedInv(s, o)

-----------------------------------------------------------------------------
(* Counting.                                                               *)

(* Ages a term apart have different quotients by it.                       *)
LEMMA QuotientsApart ==
  ASSUME NEW h \in Nat \ {0}, NEW a \in Nat, NEW b \in Nat, a + h <= b
  PROVE  a \div h # b \div h
BY SMT

(* Quotients of what is not above a bound are not above its own.           *)
LEMMA QuotientBounded ==
  ASSUME NEW h \in Nat \ {0}, NEW a \in Nat, NEW b \in Nat, a <= b
  PROVE  a \div h \in 0 .. b \div h
BY SMT

(* As many slots as the invariant leaves room for: all but the oldest were *)
(* opened within the liveness timeout.                                     *)
LEMMA Counting ==
  ASSUME SinkTypeOK, NEW s \in Sources, NEW o \in Ages, Spread(s, o)
  PROVE  Cardinality(SlotsOf(s)) <= (LIVENESS_TIMEOUT \div HEARTBEAT_TIMEOUT) + 2
<1> DEFINE S == SlotsOf(s)
           T == {i \in S : o[i] <= LIVENESS_TIMEOUT}
           Q == LIVENESS_TIMEOUT \div H
           f == [i \in T |-> o[i] \div H]
<1>1. /\ LIVENESS_TIMEOUT \in Nat /\ H \in Nat \ {0} /\ S \subseteq Slots
      /\ \A i \in S : o[i] \in Nat
      /\ \A i \in S : slot[i].upd \in 0 .. LIVENESS_TIMEOUT
  BY SinkAssumption, SourceAssumption
     DEF SinkTypeOK, AudioStreams, SlotsOf, Ages, H
<1>2. Q \in Nat
  <2>1. Q \in 0 .. Q
    BY <1>1, QuotientBounded
  <2> QED BY <2>1
<1>3. f \in Injection(T, 0 .. Q)
  <2>1. \A i \in T : o[i] \div H \in 0 .. Q
    BY <1>1, QuotientBounded
  <2>2. ASSUME NEW i \in T, NEW j \in T, i # j
        PROVE  o[i] \div H # o[j] \div H
    <3>1. o[i] + H <= o[j] \/ o[j] + H <= o[i]
      BY <2>2 DEF Spread
    <3> QED BY <1>1, <3>1, QuotientsApart
  <2> QED BY <2>1, <2>2 DEF Injection, IsInjective
<1>4. IsFiniteSet(T) /\ Cardinality(T) <= Q + 1
  <2>1. IsFiniteSet(0 .. Q) /\ Cardinality(0 .. Q) = Q + 1
    BY <1>2, FS_Interval
  <2> HIDE DEF Q, f
  <2> QED BY <1>3, <2>1, FS_Injection
<1>5. CASE S = T
  <2>1. Cardinality(T) \in Nat
    BY <1>4, FS_CardinalityType
  <2> HIDE DEF S, T, Q
  <2>2. Cardinality(S) <= Q + 2
    BY <1>2, <1>4, <1>5, <2>1
  <2> QED BY <2>2 DEF S, Q, H
<1>6. CASE S # T
  <2>1. PICK x \in S : x \notin T
    BY <1>6
  <2>2. \A y \in S : y \notin T => y = x
    <3>1. ASSUME NEW y \in S, y \notin T, y # x
          PROVE  FALSE
      <4>1. LIVENESS_TIMEOUT < o[x] /\ LIVENESS_TIMEOUT < o[y]
        BY <1>1, <2>1, <3>1
      <4>2. /\ o[x] + H <= o[y] \/ o[y] + H <= o[x]
            /\ o[x] < o[y] => o[x] <= slot[y].upd
            /\ o[y] < o[x] => o[y] <= slot[x].upd
        BY <3>1 DEF Spread
      <4> HIDE DEF S, T
      <4> QED BY <1>1, <4>1, <4>2
    <3> QED BY <3>1
  <2>3. S = T \cup {x}
    BY <2>1, <2>2
  <2>4. Cardinality(S) = Cardinality(T) + 1
    <3> HIDE DEF S, T
    <3> QED BY <1>4, <2>1, <2>3, FS_AddElement
  <2>5. Cardinality(T) \in Nat
    BY <1>4, FS_CardinalityType
  <2> HIDE DEF S, T, Q
  <2>6. Cardinality(S) <= Q + 2
    BY <1>2, <1>4, <2>4, <2>5
  <2> QED BY <2>6 DEF S, Q, H
<1> QED BY <1>5, <1>6

-----------------------------------------------------------------------------
(* Steps that leave the source and its slots alone.                        *)

(* What such a step may send.                                              *)
Foreign(s, m) == m # InitOf(s) /\ ~ResponseTo(s, m) /\ ~DataOf(s, m)

(* A step of others: it may close slots of s, and answers nobody for it.   *)
LeavesAlone(s) ==
  /\ epoch' = epoch /\ src'[s] = src[s]
  /\ SlotsOf(s)' \subseteq SlotsOf(s)
  /\ \A i \in SlotsOf(s)' : slot'[i] = slot[i]
  /\ \A m \in net' : m \in net \/ (Foreign(s, m) /\ m.dst # s)
  /\ \A m \in net : m.dst = s => m \in net'

(* Slots of s may close, others may do anything.                           *)
LEMMA Frame ==
  ASSUME NEW s \in Sources, NEW o \in Ages, HandshakeInv(s), OpenedInv(s, o),
         epoch' = epoch, src'[s] = src[s],
         SlotsOf(s)' \subseteq SlotsOf(s),
         \A i \in SlotsOf(s)' : slot'[i].upd = slot[i].upd,
         \A m \in net' : m \in net \/ Foreign(s, m)
  PROVE  HandshakeInv(s)' /\ OpenedInv(s, o)'
<1>1. HandshakeInv(s)'
  BY DEF HandshakeInv, Foreign, Started
<1>2. Spread(s, o)' /\ SinceHandshake(s, o)' /\ RoomForInit(s, o)'
  BY DEF OpenedInv, Spread, SinceHandshake, RoomForInit, Foreign, Alive
<1>3. NewestAnswered(s, o)' /\ NewestStreams(s, o)'
  BY DEF OpenedInv, NewestAnswered, NewestStreams, Newest, Foreign, Established,
         Alive, ResponseTo
<1>4. LateData(s, o)'
  BY DEF OpenedInv, LateData, Foreign, DataOf
<1> QED BY <1>1, <1>2, <1>3, <1>4 DEF OpenedInv

(* A step that leaves s alone is one.                                      *)
LEMMA FrameAlone ==
  ASSUME NEW s \in Sources, NEW o \in Ages, HandshakeInv(s), OpenedInv(s, o),
         LeavesAlone(s)
  PROVE  HandshakeInv(s)' /\ OpenedInv(s, o)'
BY Frame DEF LeavesAlone

(* A step of the source itself: d is what becomes of it.                   *)
LEMMA SourceMoves ==
  ASSUME Inv, NEW s \in Sources, NEW o \in Ages, HandshakeInv(s), OpenedInv(s, o),
         UNCHANGED sinkVars,
         NEW d \in SourceStates, src'[s] = d, d.run # "off",
         d.hb <= src[s].hb,
         d.run \in {"running", "stopping"} => Alive(s) \/ SlotsOf(s) = {},
         d.st = 2 /\ d.stream.secret = SecretOf(s, epoch) =>
           Newest(s, o, d.stream.id),
         InitOf(s) \in net' => d.st # 2,
         InitOf(s) \in net' /\ InitOf(s) \notin net =>
           /\ d.hb = 0
           /\ \A i \in SlotsOf(s) : H <= o[i]
           /\ \A m \in net : ~ResponseTo(s, m),
         \A m \in net' : m \in net \/ Foreign(s, m) \/ m = InitOf(s)
                           \/ (DataOf(s, m) /\ Newest(s, o, m.id))
  PROVE  HandshakeInv(s)' /\ OpenedInv(s, o)'
<1>0. /\ slot' = slot /\ epoch' = epoch
      /\ src[s].hb \in Nat /\ d.hb \in Nat
      /\ SlotsOf(s)' = SlotsOf(s)
      /\ \A i \in SlotsOf(s) : o[i] \in Nat
  BY DEF sinkVars, SlotsOf, Open, Inv, TypeOK, SourceTypeOK, SourceStates,
         Silences, Ages
<1>1. \A m \in net' : ResponseTo(s, m) => m \in net
  BY DEF Foreign, ResponseTo, DataOf, InitOf, create_handshake_message
<1>2. HandshakeInv(s)'
  BY <1>0, <1>1 DEF HandshakeInv, Started
<1>3. Spread(s, o)' /\ RoomForInit(s, o)'
  BY <1>0 DEF OpenedInv, Spread, RoomForInit
<1>4. SinceHandshake(s, o)'
  BY <1>0 DEF OpenedInv, SinceHandshake, Alive
<1>5. NewestAnswered(s, o)' /\ NewestStreams(s, o)'
  BY <1>0, <1>1 DEF OpenedInv, NewestAnswered, NewestStreams, Newest, Established
<1>6. LateData(s, o)'
  BY <1>0 DEF OpenedInv, LateData, DataOf, Foreign, Newest, InitOf,
              create_handshake_message
<1> QED BY <1>2, <1>3, <1>4, <1>5, <1>6 DEF OpenedInv

-----------------------------------------------------------------------------
(* The steps of the sink.                                                  *)

(* A handshake of s opens slot i.                                          *)
LEMMA OwnHandshake ==
  ASSUME Inv, ~MayDuplicate, NEW s \in Sources, NEW o \in Ages,
         HandshakeInv(s), OpenedInv(s, o),
         NEW m \in net, m.type = "RA_HANDSHAKE_INIT", m.from = s,
         NEW i \in Slots, HandshakeAccepted(m, i), UNCHANGED <<epoch, src>>
  PROVE  HandshakeInv(s)' /\ OpenedInv(s, [o EXCEPT ![i] = 0])'
<1> DEFINE p == [o EXCEPT ![i] = 0]
           r == create_handshake_response_message(s, i, epoch)
<1>0. /\ slot \in [Slots -> AudioStreams] /\ net \subseteq Messages
      /\ epoch \in Epochs
  BY DEF Inv, TypeOK, SinkTypeOK, NetTypeOK
<1>1. m = InitOf(s)
  BY <1>0, MessageKinds DEF InitMessages, create_handshake_message, InitOf
<1>2. net' \subseteq (net \ {m}) \cup {r}
  BY SendAdds DEF HandshakeAccepted, send_handshake_response, ra_buf_recvfrom
<1>3. /\ i \notin SlotsOf(s) /\ SlotsOf(s)' = SlotsOf(s) \cup {i}
      /\ slot'[i].upd = 0
      /\ \A j \in SlotsOf(s) : j # i /\ slot'[j] = slot[j]
  <2>1. PICK h \in UninitHeartbeat :
          slot' = [slot EXCEPT ![i] =
                     audio_stream_open(Keyed(audio_stream_create(i, h), s), s)]
    BY DEF HandshakeAccepted
  <2>2. Keyed(audio_stream_create(i, h), s) \in AudioStreams
    BY SlotOps DEF Inv, TypeOK
  <2> DEFINE a == audio_stream_open(Keyed(audio_stream_create(i, h), s), s)
  <2>3. a.st = "open" /\ a.peer = s /\ a.upd = 0
    BY <2>2, SlotFields
  <2>4. ~Open(i)
    BY DEF HandshakeAccepted, FirstFree
  <2> HIDE DEF a
  <2>5. slot' = [slot EXCEPT ![i] = a]
    BY <2>1 DEF a
  <2> QED BY <1>0, <2>3, <2>4, <2>5 DEF SlotsOf, Open
<1>4. /\ p \in Ages /\ p[i] = 0 /\ H \in Nat \ {0}
      /\ \A j \in SlotsOf(s) : p[j] = o[j] /\ o[j] \in Nat /\ H <= o[j]
  BY <1>1, <1>3, SourceAssumption DEF Ages, OpenedInv, RoomForInit, SlotsOf, H
<1>5. /\ src[s].hb = 0 /\ src[s].st # 2
      /\ \A n \in net : ~ResponseTo(s, n)
  BY <1>1 DEF HandshakeInv
<1>6. /\ InitOf(s) \notin net'
      /\ \A n \in net' : ResponseTo(s, n) => n = r
      /\ \A n \in net' : DataOf(s, n)' => n \in net /\ DataOf(s, n)
      /\ r.id = i
  BY <1>1, <1>2, <1>5
     DEF ResponseTo, DataOf, create_handshake_response_message, InitOf,
         create_handshake_message
<1> HIDE DEF p, r
<1>7. HandshakeInv(s)'
  <2>1. Started(s)
    BY <1>1 DEF Inv, Authentic, InitAuthentic, InitOf, create_handshake_message
  <2> QED BY <1>5, <1>6, <2>1 DEF HandshakeInv, Started
<1>8. Spread(s, p)'
  <2>1. \A j \in SlotsOf(s) : slot[j].upd <= o[j] /\ slot[j].upd \in Nat
    BY <1>0 DEF OpenedInv, Spread, SlotsOf, AudioStreams
  <2> QED BY <1>3, <1>4, <2>1 DEF OpenedInv, Spread
<1>9. SinceHandshake(s, p)' /\ RoomForInit(s, p)' /\ NewestStreams(s, p)'
  BY <1>3, <1>4, <1>5, <1>6
     DEF SinceHandshake, RoomForInit, NewestStreams, Established
<1>10. NewestAnswered(s, p)'
  BY <1>3, <1>4, <1>6 DEF NewestAnswered, Newest
<1>11. LateData(s, p)'
  BY <1>3, <1>4, <1>6 DEF OpenedInv, LateData
<1> QED BY <1>7, <1>8, <1>9, <1>10, <1>11 DEF OpenedInv, p

(* A handshake of another source, or one that opens nothing.               *)
LEMMA OtherHandshake ==
  ASSUME Inv, NEW s \in Sources,
         NEW m \in net, HandleHandshakeInit(m), UNCHANGED src,
         \A i \in Slots : HandshakeAccepted(m, i) => m.from # s
  PROVE  LeavesAlone(s)
<1>0. /\ slot \in [Slots -> AudioStreams] /\ epoch' = epoch /\ src' = src
      /\ m.from \in Sources /\ m.dst # s
  BY MessageKinds, NetworkAssumption
     DEF Inv, TypeOK, SinkTypeOK, NetTypeOK, HandleHandshakeInit, InitMessages
<1>1. ASSUME NEW i \in Slots, HandshakeAccepted(m, i)
      PROVE  LeavesAlone(s)
  <2> DEFINE t == m.from
             r == create_handshake_response_message(t, i, epoch)
  <2>1. net' \subseteq net \cup {r} /\ net \subseteq net' \cup {m} /\ t # s
    <3>1. t # s
      BY <1>1
    <3>2. PICK left \in ra_buf_recvfrom(m) : net' = ra_buf_sendto(left, r)
      BY <1>1 DEF HandshakeAccepted, send_handshake_response
    <3> HIDE DEF r
    <3>3. /\ net' \subseteq left \cup {r} /\ left \subseteq net'
          /\ left \subseteq net /\ net \subseteq left \cup {m}
      BY <3>2 DEF ra_buf_sendto, ra_buf_recvfrom
    <3> QED BY <3>1, <3>3
  <2>2. Foreign(s, r) /\ r.dst # s
    BY <2>1 DEF Foreign, ResponseTo, DataOf, InitOf, create_handshake_message,
                create_handshake_response_message
  <2>3. PICK h \in UninitHeartbeat :
          slot' = [slot EXCEPT ![i] =
                     audio_stream_open(Keyed(audio_stream_create(i, h), t), t)]
    BY <1>1 DEF HandshakeAccepted
  <2>4. Keyed(audio_stream_create(i, h), t) \in AudioStreams
    BY <1>0, SlotOps DEF Inv, TypeOK
  <2> DEFINE a == audio_stream_open(Keyed(audio_stream_create(i, h), t), t)
  <2>5. a.peer = t /\ slot' = [slot EXCEPT ![i] = a]
    BY <1>0, <2>3, <2>4, SlotFields
  <2> HIDE DEF a, r
  <2>6. /\ SlotsOf(s)' \subseteq SlotsOf(s)
        /\ \A j \in SlotsOf(s)' : slot'[j] = slot[j]
    BY <1>0, <2>1, <2>5 DEF SlotsOf, Open
  <2> QED BY <1>0, <2>1, <2>2, <2>6 DEF LeavesAlone
<1>2. ASSUME NEW i \in Slots, HandshakeOpenFails(m, i)
      PROVE  LeavesAlone(s)
  <2>1. net' \subseteq net /\ net \subseteq net' \cup {m}
    BY <1>2 DEF HandshakeOpenFails, ra_buf_recvfrom
  <2>2. PICK h \in UninitHeartbeat :
          slot' = [slot EXCEPT ![i] = Keyed(audio_stream_create(i, h), m.from)]
    BY <1>2 DEF HandshakeOpenFails
  <2>3. ~Open(i) /\ slot[i] \in AudioStreams
    BY <1>0, <1>2 DEF HandshakeOpenFails, FirstFree
  <2> DEFINE b == audio_stream_create(i, h)
             a == Keyed(b, m.from)
  <2>4. b \in AudioStreams /\ b.st # "open"
    BY <2>3, SlotOps DEF Inv, TypeOK, audio_stream_create, Open, AudioStreams
  <2>5. a.st # "open" /\ slot' = [slot EXCEPT ![i] = a]
    <3> HIDE DEF b
    <3>1. a.st = b.st
      BY <1>0, <2>4, SlotFields
    <3> QED BY <2>2, <2>4, <3>1 DEF b
  <2> HIDE DEF a, b
  <2>6. /\ SlotsOf(s)' \subseteq SlotsOf(s)
        /\ \A j \in SlotsOf(s)' : slot'[j] = slot[j]
    BY <1>0, <2>5 DEF SlotsOf, Open
  <2> QED BY <1>0, <2>1, <2>6 DEF LeavesAlone
<1>3. CASE HandshakeRefused(m)
  <2>1. net' \subseteq net /\ net \subseteq net' \cup {m} /\ slot' = slot
    BY <1>3 DEF HandshakeRefused, ra_buf_recvfrom
  <2>2. SlotsOf(s)' = SlotsOf(s)
    BY <2>1 DEF SlotsOf, Open
  <2> QED BY <1>0, <2>1, <2>2 DEF LeavesAlone
<1> QED BY <1>1, <1>2, <1>3 DEF HandleHandshakeInit

(* A message renews a slot of s only if it is the last one opened, or the  *)
(* next one was opened in this tick.                                       *)
LEMMA SlotMessage ==
  ASSUME Inv, NEW s \in Sources, NEW o \in Ages, HandshakeInv(s), OpenedInv(s, o),
         NEW m \in net, HandleMessageCrypto(m), UNCHANGED src
  PROVE  HandshakeInv(s)' /\ OpenedInv(s, o)'
<1>0. /\ slot \in [Slots -> AudioStreams] /\ epoch' = epoch /\ src' = src
      /\ net' \subseteq net /\ m.id \in Slots
      /\ m.dst = SinkAddr /\ m.type = "RA_MESSAGE_CRYPTO"
  BY MessageKinds, ReceiveRemoves
     DEF Inv, TypeOK, SinkTypeOK, NetTypeOK, HandleMessageCrypto, CryptoMessages
<1>1. CASE HandleMessageRejected(m)
  <2>1. slot' = slot /\ SlotsOf(s)' = SlotsOf(s)
    BY <1>1 DEF HandleMessageRejected, SlotsOf, Open
  <2> QED BY <1>0, <2>1, Frame
<1> DEFINE a == Accepted(m)
<1>2. /\ a.st = slot[m.id].st /\ a.peer = slot[m.id].peer /\ a.upd = 0
      /\ audio_stream_close(a).st = "closed"
  BY <1>0 DEF Accepted, AudioStreams, audio_stream_close
<1>3. CASE HandleStreamTerminate(m)
  <2>1. slot' = [slot EXCEPT ![m.id] = audio_stream_close(a)]
    BY <1>3 DEF HandleStreamTerminate
  <2> HIDE DEF a
  <2>2. /\ SlotsOf(s)' \subseteq SlotsOf(s)
        /\ \A j \in SlotsOf(s)' : slot'[j] = slot[j]
    BY <1>0, <1>2, <2>1 DEF SlotsOf, Open
  <2> QED BY <1>0, <2>2, Frame
<1>4. CASE HandleStreamData(m)
  <2>1. slot' = [slot EXCEPT ![m.id] = a]
    BY <1>4 DEF HandleStreamData
  <2>2. m.body # TERMINATE /\ m.secret = slot[m.id].stream.secret
    BY <1>4 DEF HandleStreamData, Accepts, Readable
  <2> HIDE DEF a
  <2>3. /\ SlotsOf(s)' = SlotsOf(s)
        /\ \A j \in Slots : j # m.id => slot'[j] = slot[j]
        /\ slot'[m.id].upd = 0
    BY <1>0, <1>2, <2>1 DEF SlotsOf, Open
  <2>4. CASE m.id \notin SlotsOf(s)
    BY <1>0, <2>3, <2>4, Frame DEF SlotsOf
  <2>5. CASE m.id \in SlotsOf(s)
    <3>1. DataOf(s, m)
      BY <1>0, <2>2, <2>5 DEF DataOf, Inv, Authentic, SlotKeyed, SlotsOf
    <3>2. \A j \in SlotsOf(s) : o[j] < o[m.id] => o[j] = 0
      BY <2>5, <3>1 DEF OpenedInv, LateData
    <3>3. HandshakeInv(s)'
      BY <1>0 DEF HandshakeInv, Started
    <3>4. Spread(s, o)'
      <4>1. \A j \in SlotsOf(s) : o[j] \in Nat
        BY DEF Ages, SlotsOf
      <4>2. \A i \in SlotsOf(s) : i = m.id \/ slot'[i] = slot[i]
        BY <2>3 DEF SlotsOf
      <4> QED BY <2>3, <2>5, <3>2, <4>1, <4>2 DEF OpenedInv, Spread
    <3>5. SinceHandshake(s, o)' /\ RoomForInit(s, o)'
      BY <1>0, <2>3 DEF OpenedInv, SinceHandshake, RoomForInit, Alive
    <3>6. NewestAnswered(s, o)' /\ NewestStreams(s, o)'
      BY <1>0, <2>3 DEF OpenedInv, NewestAnswered, NewestStreams, Newest,
                        Established, Alive
    <3>7. LateData(s, o)'
      BY <1>0, <2>3 DEF OpenedInv, LateData, DataOf
    <3> QED BY <3>3, <3>4, <3>5, <3>6, <3>7 DEF OpenedInv
  <2> QED BY <2>4, <2>5
<1> QED BY <1>1, <1>3, <1>4 DEF HandleMessageCrypto

(* The liveness pass closes slots, and what it sends is for sources.       *)
LEMMA Background ==
  ASSUME Inv, NEW s \in Sources, NEW o \in Ages, HandshakeInv(s), OpenedInv(s, o),
         NEW i \in Slots, HandleLiveness(i), UNCHANGED src
  PROVE  HandshakeInv(s)' /\ OpenedInv(s, o)'
<1>0. /\ slot \in [Slots -> AudioStreams] /\ epoch' = epoch /\ src' = src
      /\ slot[i].peer \in Sources
  BY DEF Inv, TypeOK, SinkTypeOK, Authentic, SlotKeyed, HandleLiveness,
         LivenessTimeout, SendHeartbeat, LivenessDue, HeartbeatDue
<1>1. ASSUME NEW a, NEW body, SendStreamSignal(a, i, body),
             a \in {audio_stream_close(slot[i]), [slot[i] EXCEPT !.hb = 0]}
      PROVE  HandshakeInv(s)' /\ OpenedInv(s, o)'
  <2> DEFINE w == ra_stream_write(a.stream)
             m == ra_stream_send(w, a.peer, body)
             b == [a EXCEPT !.stream = w]
  <2>1. slot' = [slot EXCEPT ![i] = b] /\ net' \subseteq net \cup {m}
    BY <1>1, SendAdds DEF SendStreamSignal
  <2>2. /\ b.st = "open" => slot[i].st = "open"
        /\ b.peer = slot[i].peer /\ b.upd = slot[i].upd
        /\ a.peer = slot[i].peer
    BY <1>0, <1>1 DEF audio_stream_close, AudioStreams
  <2>3. Foreign(s, m)
    BY <1>0, <2>2, NetworkAssumption
       DEF Foreign, ResponseTo, DataOf, InitOf, create_handshake_message,
           ra_stream_send
  <2> HIDE DEF b, m
  <2>4. /\ SlotsOf(s)' \subseteq SlotsOf(s)
        /\ \A j \in SlotsOf(s)' : slot'[j].upd = slot[j].upd
    BY <1>0, <2>1, <2>2 DEF SlotsOf, Open
  <2> QED BY <1>0, <2>1, <2>3, <2>4, Frame
<1> QED BY <1>1 DEF HandleLiveness, LivenessTimeout, SendHeartbeat

(* A restart leaves no slot open.                                          *)
LEMMA Restart ==
  ASSUME NEW s \in Sources, NEW o \in Ages, HandshakeInv(s), OpenedInv(s, o),
         SinkRestart, UNCHANGED src
  PROVE  HandshakeInv(s)' /\ OpenedInv(s, o)'
<1>1. SlotsOf(s)' = {} /\ net' = net /\ src' = src
  BY DEF SinkRestart, SlotsOf, Open, NullSlot
<1>2. HandshakeInv(s)'
  BY <1>1 DEF HandshakeInv, Started
<1>3. OpenedInv(s, o)'
  BY <1>1 DEF OpenedInv, Spread, SinceHandshake, RoomForInit, NewestAnswered,
              NewestStreams, Newest, LateData
<1> QED BY <1>2, <1>3

(* Time ages the openings with the slots, for no open slot has reached the *)
(* liveness timeout, and there is nothing in flight.                       *)
LEMMA TimePasses ==
  ASSUME Inv, Timely, NEW s \in Sources, NEW o \in Ages,
         HandshakeInv(s), OpenedInv(s, o), Tick
  PROVE  \E p \in Ages : HandshakeInv(s)' /\ OpenedInv(s, p)'
<1> DEFINE p == [i \in Slots |-> o[i] + 1]
<1>0. /\ slot \in [Slots -> AudioStreams] /\ src \in [Sources -> SourceStates]
      /\ net' = {} /\ epoch' = epoch
      /\ \A i \in Slots : ~LivenessDue(i)
  BY DEF Inv, TypeOK, SinkTypeOK, SourceTypeOK, Tick, CaughtUp
<1>1. \A i \in Slots : slot'[i] = AgedSlot(slot[i])
  BY DEF Tick
<1>2. ASSUME NEW i \in Slots
      PROVE  /\ slot'[i].st = slot[i].st /\ slot'[i].peer = slot[i].peer
             /\ Open(i) => slot'[i].upd = slot[i].upd + 1
             /\ slot[i].upd \in Nat
  <2>1. slot[i] \in AudioStreams /\ LIVENESS_TIMEOUT \in Nat
    BY <1>0, SinkAssumption
  <2>2. slot[i].upd \in Nat /\ (Open(i) => slot[i].upd < LIVENESS_TIMEOUT)
    BY <1>0, <2>1 DEF AudioStreams, LivenessDue
  <2>3. /\ slot'[i].st = slot[i].st /\ slot'[i].peer = slot[i].peer
        /\ slot'[i].upd = IF slot[i].st = "open" /\ slot[i].upd < LIVENESS_TIMEOUT
                            THEN slot[i].upd + 1 ELSE slot[i].upd
    BY <1>1, <2>1 DEF AgedSlot, AudioStreams
  <2> QED BY <2>2, <2>3 DEF Open
<1>3. /\ src'[s].run = src[s].run /\ src'[s].st = src[s].st
      /\ src'[s].stream = src[s].stream
      /\ src[s].hb \in Nat /\ src'[s].hb \in Nat
      /\ src'[s].hb <= src[s].hb + 1
  <2>1. src[s] \in SourceStates /\ src'[s] = AgedSource(src[s])
    BY <1>0 DEF Tick
  <2> QED BY <2>1, SourceAssumption DEF AgedSource, SourceStates, Silences
<1>4. /\ SlotsOf(s)' = SlotsOf(s)
      /\ \A i \in SlotsOf(s) : slot'[i].upd = slot[i].upd + 1 /\ slot[i].upd \in Nat
  BY <1>2 DEF SlotsOf, Open
<1>5. /\ p \in Ages
      /\ \A i \in SlotsOf(s) : p[i] = o[i] + 1 /\ o[i] \in Nat
  BY DEF Ages, SlotsOf
<1> HIDE DEF p
<1>6. HandshakeInv(s)'
  BY <1>0 DEF HandshakeInv
<1>7. Spread(s, p)'
  BY <1>4, <1>5, SourceAssumption DEF OpenedInv, Spread, H
<1>8. SinceHandshake(s, p)'
  BY <1>3, <1>4, <1>5 DEF OpenedInv, SinceHandshake, Alive
<1>9. NewestStreams(s, p)'
  BY <1>0, <1>3, <1>4, <1>5
     DEF OpenedInv, NewestStreams, Newest, Established, Alive
<1>10. RoomForInit(s, p)' /\ NewestAnswered(s, p)' /\ LateData(s, p)'
  BY <1>0 DEF RoomForInit, NewestAnswered, LateData
<1> QED BY <1>5, <1>6, <1>7, <1>8, <1>9, <1>10 DEF OpenedInv

-----------------------------------------------------------------------------
(* The steps of the sources.                                               *)

(* What a source puts on the network when it sends on a stream.            *)
LEMMA StreamSend ==
  ASSUME NEW stream \in Streams(Slots, Secrets), NEW body
  PROVE  LET m == ra_stream_send(ra_stream_write(stream), SinkAddr, body)
         IN /\ m.type = "RA_MESSAGE_CRYPTO" /\ m.dst = SinkAddr
            /\ m.id = stream.id /\ m.secret = stream.secret /\ m.body = body
BY DEF ra_stream_send, ra_stream_write, Streams

(* What a datagram makes of a source: only a response changes its session. *)
LEMMA HandledMessage ==
  ASSUME Inv, NEW s \in Sources, NEW m \in net, m.dst = s,
         NEW c, c = handle_message(src[s], s, m)
  PROVE  /\ c \in SourceStates /\ c.run = src[s].run /\ c.hb <= src[s].hb
         /\ Own(c, s)
         /\ \/ /\ c.st = src[s].st /\ c.stream.id = src[s].stream.id
               /\ c.stream.secret = src[s].stream.secret
            \/ /\ ResponseTo(s, m) /\ m.key \in Epochs
               /\ c.stream.id = m.id /\ c.stream.secret = SecretOf(s, m.key)
<1>0. /\ src[s] \in SourceStates /\ m \in Messages
      /\ Own(src[s], s) /\ src[s].hb \in Nat
  BY DEF Inv, TypeOK, NetTypeOK, SourceTypeOK, Authentic, SourceKeyed, Own,
         SourceStates, Silences
<1>1. c \in SourceStates
  BY <1>0, SourceOps
<1>2. CASE m.type = "RA_HANDSHAKE_RESPONSE"
  <2>1. m.key \in Epochs /\ m.key <= epoch
    BY <1>0, <1>2, MessageKinds
       DEF ResponseMessages, Inv, Authentic, ResponseAuthentic
  <2>2. \/ c = src[s]
        \/ /\ c.run = src[s].run /\ c.hb = 0
           /\ c.stream.id = m.id /\ c.stream.secret = SecretOf(s, m.key)
    BY <1>0, <1>2
       DEF handle_message, handle_handshake_response, SourceStates, Streams
  <2> QED BY <1>0, <1>1, <1>2, <2>1, <2>2 DEF ResponseTo, Own
<1>3. CASE m.type # "RA_HANDSHAKE_RESPONSE"
  <2>1. /\ c.run = src[s].run /\ c.st = src[s].st
        /\ c.hb \in {0, src[s].hb}
        /\ c.stream.id = src[s].stream.id
        /\ c.stream.secret = src[s].stream.secret
    BY <1>0, <1>3
       DEF handle_message, handle_message_crypto, ra_stream_read,
           SourceStates, Streams
  <2> QED BY <1>0, <1>1, <2>1 DEF Own
<1> QED BY <1>2, <1>3

(* What the audio callback may still send while the stream is stopped.     *)
LastWord(c, m) == /\ c.st = 2 /\ m.type = "RA_MESSAGE_CRYPTO" /\ m.dst = SinkAddr
                  /\ m.id = c.stream.id /\ m.secret = c.stream.secret

(* An iteration from c on ends quietly, or with a new handshake and        *)
(* perhaps a last word.                                                    *)
LEMMA Iteration ==
  ASSUME NEW s \in Sources, NEW c \in SourceStates, NEW inflight,
         src \in [Sources -> SourceStates], CheckTimeout(s, c, inflight)
  PROVE  /\ src'[s] \in SourceStates
         /\ \A t \in Sources : t # s => src'[t] = src[t]
         /\ src'[s].run \in {c.run, "exited"}
         /\ \/ /\ net' = inflight
               /\ src'[s] = c \/ src'[s] = Exited
            \/ /\ TimedOut(c) /\ src'[s].hb = 0 /\ src'[s].st # 2
               /\ src'[s].stream.read_nonce = 0
               /\ \A m \in net' : m \in inflight \/ m = InitOf(s) \/ LastWord(c, m)
         /\ inflight \subseteq net'
<1>0. /\ Exited \in SourceStates /\ Exited.run = "exited"
      /\ Exited.hb = 0 /\ Exited.st = 0 /\ Exited.stream.read_nonce = 0
  BY SourceOps DEF Exited, NoProcess, ra_stream_create
<1>1. CASE /\ ~TimedOut(c)
           /\ src' = [src EXCEPT ![s] = Continue(c)]
           /\ net' = inflight
  BY <1>0, <1>1 DEF Continue
<1>2. CASE /\ TimedOut(c)
           /\ \E late \in LateCallback([c EXCEPT !.stream = ra_stream_reset(@)], inflight) :
                /\ src' = [src EXCEPT ![s] = Continue([late[1] EXCEPT !.st = 1, !.hb = 0])]
                /\ net' = send_handshake(late[2], s)
  <2> DEFINE d == [c EXCEPT !.stream = ra_stream_reset(@)]
             w == ra_stream_write(d.stream)
             data == ra_stream_send(w, SinkAddr, DATA)
             e == [d EXCEPT !.stream = w]
  <2>1. /\ d \in SourceStates /\ d.stream \in Streams(Slots, Secrets)
        /\ d.run = c.run /\ d.st = c.st
        /\ d.stream.id = c.stream.id /\ d.stream.secret = c.stream.secret
        /\ d.stream.read_nonce = 0
    BY StreamOps DEF SourceStates, ra_stream_reset, Streams
  <2>2. e \in SourceStates /\ e.run = c.run /\ e.stream.read_nonce = 0
    <3>1. w \in Streams(Slots, Secrets) /\ w.read_nonce = 0
      BY <2>1, StreamOps DEF ra_stream_write, Streams
    <3> HIDE DEF d, w
    <3> QED BY <2>1, <3>1 DEF SourceStates
  <2>3. c.st = 2 => LastWord(c, data)
    <3> HIDE DEF d
    <3> QED BY <2>1, StreamSend DEF LastWord
  <2>4. PICK late \in LateCallback(d, inflight) :
          /\ src' = [src EXCEPT ![s] = Continue([late[1] EXCEPT !.st = 1, !.hb = 0])]
          /\ net' = send_handshake(late[2], s)
    BY <1>2
  <2>5. \/ late = <<d, inflight>>
        \/ d.st = 2 /\ late = <<e, ra_buf_sendto(inflight, data)>>
    BY <2>4 DEF LateCallback
  <2> HIDE DEF d, e, data
  <2> DEFINE l == late[1]
  <2>6. /\ l \in SourceStates /\ l.run = c.run /\ l.stream.read_nonce = 0
        /\ \A m \in late[2] : m \in inflight \/ LastWord(c, m)
        /\ inflight \subseteq late[2]
    <3>1. CASE late = <<d, inflight>>
      BY <2>1, <3>1
    <3>2. CASE d.st = 2 /\ late = <<e, ra_buf_sendto(inflight, data)>>
      <4>1. l = e /\ late[2] = ra_buf_sendto(inflight, data)
        BY <3>2
      <4>2. late[2] \subseteq inflight \cup {data} /\ inflight \subseteq late[2]
        BY <4>1 DEF ra_buf_sendto
      <4> QED BY <2>1, <2>2, <2>3, <3>2, <4>1, <4>2
    <3> QED BY <2>5, <3>1, <3>2
  <2> DEFINE b == [l EXCEPT !.st = 1, !.hb = 0]
  <2>7. /\ b \in SourceStates /\ b.run = c.run /\ b.st = 1 /\ b.hb = 0
        /\ b.stream.read_nonce = 0
    <3>1. 1 \in Handshakes /\ 0 \in Silences
      BY SourceAssumption DEF Handshakes, Silences
    <3> HIDE DEF l
    <3> QED BY <2>6, <3>1 DEF SourceStates
  <2>8. src' = [src EXCEPT ![s] = Continue(b)]
    BY <2>4
  <2>9. net' \subseteq late[2] \cup {InitOf(s)} /\ late[2] \subseteq net'
    BY <2>4 DEF send_handshake, InitOf, ra_buf_sendto
  <2> HIDE DEF b, l
  <2>10. Continue(b) = b \/ Continue(b) = Exited
    BY DEF Continue
  <2>11. src'[s] = Continue(b) /\ \A t \in Sources : t # s => src'[t] = src[t]
    BY <2>8
  <2>12. /\ \A m \in net' : m \in inflight \/ m = InitOf(s) \/ LastWord(c, m)
         /\ inflight \subseteq net'
    BY <2>6, <2>9
  <2> QED BY <1>0, <1>2, <2>7, <2>10, <2>11, <2>12
<1> QED BY <1>1, <1>2 DEF CheckTimeout

(* A source holds no key but its own.                                      *)
LEMMA OnlyOwn ==
  ASSUME Inv, NEW s \in Sources, NEW t \in Sources, s # t,
         NEW c, Own(c, t)
  PROVE  c.stream.secret # SecretOf(s, epoch)
BY SecretFacts DEF Own, Inv, TypeOK, SinkTypeOK

(* What another source does is nothing to s.                               *)
LEMMA OtherSource ==
  ASSUME Inv, NEW s \in Sources, NEW t \in Sources, s # t, SourceStep(t)
  PROVE  LeavesAlone(s)
<1>0. /\ src \in [Sources -> SourceStates] /\ src[t] \in SourceStates
      /\ src[t].stream \in Streams(Slots, Secrets)
      /\ Own(src[t], t) /\ epoch' = epoch /\ slot' = slot
      /\ SinkAddr # s
  BY NetworkAssumption
     DEF Inv, TypeOK, SourceTypeOK, SourceStates, Authentic, SourceKeyed, Own,
         SourceStep, sinkVars
<1> DEFINE Apart(m) == Foreign(s, m) /\ m.dst # s
<1>1. Apart(InitOf(t))
  BY <1>0 DEF Foreign, ResponseTo, DataOf, InitOf, create_handshake_message
<1>2. ASSUME NEW c, Own(c, t), NEW m, LastWord(c, m)
      PROVE  Apart(m)
  BY <1>0, <1>2, OnlyOwn
     DEF LastWord, Foreign, ResponseTo, DataOf, InitOf, create_handshake_message
<1>3. ASSUME NEW body
      PROVE  Apart(ra_stream_send(ra_stream_write(src[t].stream), SinkAddr, body))
  <2> DEFINE m == ra_stream_send(ra_stream_write(src[t].stream), SinkAddr, body)
  <2>1. /\ m.type = "RA_MESSAGE_CRYPTO" /\ m.dst = SinkAddr
        /\ m.secret = src[t].stream.secret
    BY <1>0, StreamSend
  <2> HIDE DEF m
  <2>2. Apart(m)
    BY <1>0, <2>1, OnlyOwn
       DEF Foreign, ResponseTo, DataOf, InitOf, create_handshake_message
  <2> QED BY <2>2 DEF m
<1>4. ASSUME src'[s] = src[s], \A m \in net' : m \in net \/ Apart(m),
             \A m \in net : m.dst = s => m \in net'
      PROVE  LeavesAlone(s)
  <2>1. SlotsOf(s)' = SlotsOf(s)
    BY <1>0 DEF SlotsOf, Open
  <2> QED BY <1>0, <1>4, <2>1 DEF LeavesAlone
<1> HIDE DEF Apart
<1>5. CASE SourceStart(t)
  <2>1. /\ net' \subseteq net \cup {InitOf(t)} /\ net \subseteq net'
        /\ src'[s] = src[s]
    BY <1>0, <1>5 DEF SourceStart, send_handshake, InitOf, ra_buf_sendto
  <2> QED BY <1>1, <1>4, <2>1
<1>6. ASSUME NEW c \in SourceStates, Own(c, t), NEW inflight \in SUBSET net,
             CheckTimeout(t, c, inflight),
             \A m \in net : m.dst = s => m \in inflight
      PROVE  LeavesAlone(s)
  <2>1. /\ src'[s] = src[s] /\ inflight \subseteq net'
        /\ \A m \in net' : m \in inflight \/ m = InitOf(t) \/ LastWord(c, m)
    BY <1>0, <1>6, Iteration
  <2> QED BY <1>1, <1>2, <1>4, <1>6, <2>1
<1>7. ASSUME NEW m \in net, SourceReceive(t, m)
      PROVE  LeavesAlone(s)
  <2> DEFINE c == handle_message(src[t], t, m)
  <2>1. PICK left \in ra_buf_recvfrom(m) : CheckTimeout(t, c, left)
    BY <1>7 DEF SourceReceive
  <2>2. c \in SourceStates /\ Own(c, t) /\ m.dst = t
    BY <1>7, HandledMessage DEF SourceReceive
  <2> HIDE DEF c
  <2>3. left \subseteq net /\ net \subseteq left \cup {m}
    BY DEF ra_buf_recvfrom
  <2> QED BY <1>6, <2>1, <2>2, <2>3
<1>8. CASE SourceIdle(t)
  BY <1>0, <1>6, <1>8 DEF SourceIdle
<1>9. CASE SourceLeaveLoop(t) \/ SourceStop(t) \/ SourceFails(t)
  BY <1>0, <1>4, <1>9 DEF SourceLeaveLoop, SourceStop, SourceFails
<1>10. ASSUME NEW body,
              net' = ra_buf_sendto(net, ra_stream_send(ra_stream_write(src[t].stream),
                                                       SinkAddr, body)),
              src'[s] = src[s]
       PROVE  LeavesAlone(s)
  <2> DEFINE m == ra_stream_send(ra_stream_write(src[t].stream), SinkAddr, body)
  <2>1. net' \subseteq net \cup {m} /\ net \subseteq net'
    BY <1>10 DEF ra_buf_sendto
  <2> QED BY <1>3, <1>4, <1>10, <2>1
<1>11. CASE AudioCallback(t) \/ SignalHandler(t)
  BY <1>0, <1>10, <1>11 DEF AudioCallback, SignalHandler
<1> QED BY <1>5, <1>7, <1>8, <1>9, <1>11 DEF SourceStep

(* An iteration of s from c on, whatever it received before.               *)
LEMMA OwnIteration ==
  ASSUME Inv, NEW s \in Sources, NEW o \in Ages, HandshakeInv(s), OpenedInv(s, o),
         UNCHANGED sinkVars, Alive(s),
         NEW c \in SourceStates, c.run = src[s].run, c.hb <= src[s].hb,
         NEW inflight \in SUBSET net, CheckTimeout(s, c, inflight),
         InitOf(s) \in net => c.st # 2,
         c.st = 2 /\ c.stream.secret = SecretOf(s, epoch) =>
           Newest(s, o, c.stream.id)
  PROVE  HandshakeInv(s)' /\ OpenedInv(s, o)'
<1> DEFINE d == src'[s]
<1>0. /\ src \in [Sources -> SourceStates]
      /\ src[s].hb \in Nat /\ c.hb \in Nat /\ H \in Nat \ {0}
      /\ \A i \in SlotsOf(s) : o[i] \in Nat
  BY SourceAssumption DEF Inv, TypeOK, SourceTypeOK, SourceStates, Silences, H,
                          Ages, SlotsOf
<1>1. /\ d \in SourceStates /\ d.run \in {c.run, "exited"} /\ d.run # "off"
      /\ \/ /\ net' = inflight
            /\ d = c \/ d = Exited
         \/ /\ TimedOut(c) /\ d.hb = 0 /\ d.st # 2
            /\ \A m \in net' : m \in inflight \/ m = InitOf(s) \/ LastWord(c, m)
  BY <1>0, Iteration DEF Alive
<1> HIDE DEF d
<1>2. CASE net' = inflight /\ (d = c \/ d = Exited)
  <2>1. /\ d.hb <= src[s].hb
        /\ d.st = 2 => d = c
    BY <1>0, <1>2 DEF Exited, NoProcess
  <2> QED BY <1>1, <1>2, <2>1, SourceMoves DEF d
<1>3. CASE /\ TimedOut(c) /\ d.hb = 0 /\ d.st # 2
           /\ \A m \in net' : m \in inflight \/ m = InitOf(s) \/ LastWord(c, m)
  <2>1. /\ src[s].hb # 0 /\ H <= src[s].hb
        /\ d.hb <= src[s].hb
    BY <1>0, <1>3 DEF TimedOut, H
  <2>2. /\ \A m \in net : ~ResponseTo(s, m)
        /\ \A i \in SlotsOf(s) : H <= o[i]
    BY <1>0, <2>1 DEF HandshakeInv, OpenedInv, SinceHandshake
  <2>3. ASSUME NEW m, LastWord(c, m)
        PROVE  Foreign(s, m) \/ (DataOf(s, m) /\ Newest(s, o, m.id))
    BY <2>3 DEF LastWord, Foreign, ResponseTo, DataOf, InitOf,
                create_handshake_message
  <2>4. \A m \in net' : m \in net \/ Foreign(s, m) \/ m = InitOf(s)
                          \/ (DataOf(s, m) /\ Newest(s, o, m.id))
    BY <1>3, <2>3
  <2> QED BY <1>1, <1>3, <2>1, <2>2, <2>4, SourceMoves DEF d
<1> QED BY <1>1, <1>2, <1>3

(* The steps of s itself.                                                  *)
LEMMA OwnSource ==
  ASSUME Inv, NEW s \in Sources, NEW o \in Ages, HandshakeInv(s), OpenedInv(s, o),
         SourceStep(s)
  PROVE  HandshakeInv(s)' /\ OpenedInv(s, o)'
<1>0. /\ src \in [Sources -> SourceStates] /\ src[s] \in SourceStates
      /\ src[s].stream \in Streams(Slots, Secrets)
      /\ src[s].hb \in Nat
      /\ UNCHANGED sinkVars
  BY DEF Inv, TypeOK, SourceTypeOK, SourceStates, Silences, SourceStep
<1>1. /\ InitOf(s) \in net => src[s].st # 2
      /\ Established(s) /\ src[s].stream.secret = SecretOf(s, epoch) =>
           Newest(s, o, src[s].stream.id)
  BY DEF HandshakeInv, OpenedInv, NewestStreams
<1>2. CASE SourceStart(s)
  <2> DEFINE d == [src[s] EXCEPT !.run = "running", !.st = 1, !.hb = 0]
  <2>1. d \in SourceStates /\ d.run = "running" /\ d.st = 1 /\ d.hb = 0
    <3>1. 1 \in Handshakes /\ 0 \in Silences
      BY SourceAssumption DEF Handshakes, Silences
    <3> QED BY <1>0, <3>1 DEF SourceStates
  <2>2. ~Started(s)
    BY <1>2 DEF SourceStart, Started
  <2>3. SlotsOf(s) = {} /\ \A m \in net : ~ResponseTo(s, m)
    BY <2>2 DEF Inv, Authentic, SlotKeyed, SlotsOf, HandshakeInv
  <2>4. src'[s] = d
    BY <1>0, <1>2 DEF SourceStart
  <2>5. net' \subseteq net \cup {InitOf(s)}
    BY <1>2, SendAdds DEF SourceStart, send_handshake, InitOf
  <2> HIDE DEF d
  <2> QED BY <1>0, <2>1, <2>3, <2>4, <2>5, SourceMoves
<1>3. ASSUME NEW m \in net, SourceReceive(s, m)
      PROVE  HandshakeInv(s)' /\ OpenedInv(s, o)'
  <2> DEFINE c == handle_message(src[s], s, m)
  <2>1. PICK left \in ra_buf_recvfrom(m) : CheckTimeout(s, c, left)
    BY <1>3 DEF SourceReceive
  <2>2. Alive(s) /\ left \in SUBSET net
    BY <1>3, ReceiveRemoves DEF SourceReceive
  <2>3. /\ c \in SourceStates /\ c.run = src[s].run /\ c.hb <= src[s].hb
        /\ \/ /\ c.st = src[s].st /\ c.stream.id = src[s].stream.id
              /\ c.stream.secret = src[s].stream.secret
           \/ /\ ResponseTo(s, m) /\ m.key \in Epochs
              /\ c.stream.id = m.id /\ c.stream.secret = SecretOf(s, m.key)
    BY <1>3, HandledMessage DEF SourceReceive
  <2> HIDE DEF c
  <2>4. InitOf(s) \in net => c.st # 2
    BY <1>1, <2>3 DEF HandshakeInv
  <2>5. c.st = 2 /\ c.stream.secret = SecretOf(s, epoch) =>
          Newest(s, o, c.stream.id)
    <3>1. CASE ResponseTo(s, m) /\ m.key \in Epochs
               /\ c.stream.id = m.id /\ c.stream.secret = SecretOf(s, m.key)
      <4>1. c.stream.secret = SecretOf(s, epoch) => m.key = epoch
        BY <3>1, SecretFacts DEF Inv, TypeOK, SinkTypeOK
      <4> QED BY <3>1, <4>1 DEF OpenedInv, NewestAnswered
    <3> QED BY <1>1, <2>2, <2>3, <3>1 DEF Established
  <2> QED BY <1>0, <2>1, <2>2, <2>3, <2>4, <2>5, OwnIteration
<1>4. CASE SourceIdle(s)
  BY <1>0, <1>1, <1>4, OwnIteration DEF SourceIdle, Established
<1>5. CASE SourceLeaveLoop(s) \/ SourceFails(s)
  <2>1. /\ src'[s] = Exited /\ net' = net
        /\ Exited \in SourceStates /\ Exited.run = "exited"
        /\ Exited.hb = 0 /\ Exited.st = 0
    BY <1>0, <1>5, SourceOps DEF SourceLeaveLoop, SourceFails, Exited, NoProcess
  <2> QED BY <1>0, <2>1, SourceMoves
<1>6. CASE SourceStop(s)
  <2> DEFINE d == [src[s] EXCEPT !.run = "stopping"]
  <2>1. /\ src'[s] = d /\ net' = net /\ Alive(s)
        /\ d \in SourceStates /\ d.run = "stopping"
        /\ d.hb = src[s].hb /\ d.st = src[s].st /\ d.stream = src[s].stream
    BY <1>0, <1>6 DEF SourceStop, SourceStates, Alive
  <2> HIDE DEF d
  <2> QED BY <1>0, <1>1, <2>1, SourceMoves DEF Established
<1>7. ASSUME NEW d \in SourceStates, src'[s] = d, d.run \in {"running", "stopping"},
             d.hb = src[s].hb, d.st = src[s].st,
             d.stream = ra_stream_write(src[s].stream), Alive(s),
             NEW body, body = TERMINATE \/ src[s].st = 2,
             net' = ra_buf_sendto(net, ra_stream_send(ra_stream_write(src[s].stream),
                                                      SinkAddr, body))
      PROVE  HandshakeInv(s)' /\ OpenedInv(s, o)'
  <2> DEFINE m == ra_stream_send(ra_stream_write(src[s].stream), SinkAddr, body)
  <2>1. /\ m.type = "RA_MESSAGE_CRYPTO" /\ m.dst = SinkAddr /\ m.body = body
        /\ m.id = src[s].stream.id /\ m.secret = src[s].stream.secret
    BY <1>0, StreamSend
  <2>2. net' \subseteq net \cup {m}
    BY <1>7, SendAdds
  <2>3. d.stream.id = src[s].stream.id /\ d.stream.secret = src[s].stream.secret
    BY <1>0, <1>7 DEF ra_stream_write, Streams
  <2> HIDE DEF m
  <2>4. Foreign(s, m) \/ (DataOf(s, m) /\ Newest(s, o, m.id))
    BY <1>1, <1>7, <2>1 DEF Foreign, ResponseTo, DataOf, InitOf, Established,
                            create_handshake_message
  <2>5. m # InitOf(s)
    BY <2>1 DEF InitOf, create_handshake_message
  <2> QED BY <1>0, <1>1, <1>7, <2>2, <2>3, <2>4, <2>5, SourceMoves DEF Established
<1>8. CASE AudioCallback(s)
  <2> DEFINE d == [src[s] EXCEPT !.stream = ra_stream_write(src[s].stream)]
  <2>1. /\ d \in SourceStates /\ src'[s] = d
        /\ d.run = src[s].run /\ d.hb = src[s].hb /\ d.st = src[s].st
        /\ d.stream = ra_stream_write(src[s].stream)
    BY <1>0, <1>8, StreamOps DEF AudioCallback, SourceStates
  <2> HIDE DEF d
  <2> QED BY <1>7, <1>8, <2>1 DEF AudioCallback, Established, Alive
<1>9. CASE SignalHandler(s)
  <2> DEFINE d == [src[s] EXCEPT !.stream = ra_stream_write(src[s].stream),
                                 !.run = "stopping"]
  <2>1. /\ d \in SourceStates /\ src'[s] = d
        /\ d.run = "stopping" /\ d.hb = src[s].hb /\ d.st = src[s].st
        /\ d.stream = ra_stream_write(src[s].stream)
    BY <1>0, <1>9, StreamOps DEF SignalHandler, SourceStates
  <2> HIDE DEF d
  <2> QED BY <1>7, <1>9, <2>1 DEF SignalHandler
<1> QED BY <1>2, <1>3, <1>4, <1>5, <1>6, <1>8, <1>9 DEF SourceStep

-----------------------------------------------------------------------------
(* The theorem.                                                            *)

(* No slot is open and nothing is in flight at first.                      *)
LEMMA CountInit == Init => CountInv
<1> SUFFICES ASSUME Init, NEW s \in Sources
             PROVE  HandshakeInv(s) /\ \E o \in Ages : OpenedInv(s, o)
  BY DEF CountInv
<1>1. net = {} /\ SlotsOf(s) = {}
  BY DEF Init, SinkInit, NullSlot, SlotsOf, Open
<1>2. [i \in Slots |-> 0] \in Ages
  BY DEF Ages
<1> QED BY <1>1, <1>2
        DEF HandshakeInv, OpenedInv, Spread, SinceHandshake, RoomForInit,
            NewestAnswered, NewestStreams, Newest, LateData

(* Every step leaves ages of the openings for every source.                *)
LEMMA CountStep ==
  ASSUME Timely, ~MayDuplicate, Inv, CountInv, [Next]_vars
  PROVE  CountInv'
<1> SUFFICES ASSUME NEW s \in Sources
             PROVE  \E p \in Ages : HandshakeInv(s)' /\ OpenedInv(s, p)'
  BY DEF CountInv, Ages, Slots
<1>0. PICK o \in Ages : HandshakeInv(s) /\ OpenedInv(s, o)
  BY DEF CountInv
<1>1. ASSUME NEW m \in net, HandleHandshakeInit(m), UNCHANGED src
      PROVE  \E p \in Ages : HandshakeInv(s)' /\ OpenedInv(s, p)'
  <2>1. CASE \A i \in Slots : HandshakeAccepted(m, i) => m.from # s
    BY <1>0, <1>1, <2>1, OtherHandshake, FrameAlone
  <2>2. ASSUME NEW i \in Slots, HandshakeAccepted(m, i), m.from = s
        PROVE  \E p \in Ages : HandshakeInv(s)' /\ OpenedInv(s, p)'
    <3>1. /\ UNCHANGED <<epoch, src>> /\ m.type = "RA_HANDSHAKE_INIT"
          /\ [o EXCEPT ![i] = 0] \in Ages
      BY <1>1 DEF HandleHandshakeInit, Ages
    <3> QED BY <1>0, <2>2, <3>1, OwnHandshake
  <2> QED BY <2>1, <2>2
<1>2. ASSUME NEW m \in net, HandleMessageCrypto(m), UNCHANGED src
      PROVE  \E p \in Ages : HandshakeInv(s)' /\ OpenedInv(s, p)'
  BY <1>0, <1>2, SlotMessage
<1>3. CASE BackgroundThread
  BY <1>0, <1>3, Background DEF BackgroundThread
<1>4. CASE SinkRestart /\ UNCHANGED src
  BY <1>0, <1>4, Restart
<1>5. ASSUME NEW t \in Sources, SourceStep(t)
      PROVE  \E p \in Ages : HandshakeInv(s)' /\ OpenedInv(s, p)'
  BY <1>0, <1>5, OwnSource, OtherSource, FrameAlone
<1>6. CASE NetworkLoses \/ UNCHANGED vars
  <2>1. net' \subseteq net /\ slot' = slot /\ epoch' = epoch /\ src' = src
    BY <1>6 DEF NetworkLoses, Lose, vars
  <2>2. SlotsOf(s)' = SlotsOf(s)
    BY <2>1 DEF SlotsOf, Open
  <2> QED BY <1>0, <2>1, <2>2, Frame
<1>7. CASE Tick
  BY <1>0, <1>7, TimePasses
<1> QED BY <1>1, <1>2, <1>3, <1>4, <1>5, <1>6, <1>7
        DEF Next, Step, SinkReceive

(* However many of its handshakes are lost, a source never holds more than *)
(* LIVENESS_TIMEOUT \div HEARTBEAT_TIMEOUT + 2 slots, if the work that is  *)
(* due is done in time and no datagram arrives twice                       *)
(* (handle_handshake_init, handle_liveness, the timeout of source_main).   *)
THEOREM SlotsBoundedCorrect ==
  ASSUME Timely, ~MayDuplicate
  PROVE  Spec => []SlotsBounded
<1>1. Inv /\ CountInv /\ [Next]_vars => CountInv'
  BY CountStep
<1>2. Inv /\ CountInv => SlotsBounded
  BY Counting DEF Inv, TypeOK, CountInv, OpenedInv, SlotsBounded
<1> QED BY <1>1, <1>2, CountInit, Invariance, PTL DEF Spec
=============================================================================
