---------------------------- MODULE TimelyProofs ----------------------------
(***************************************************************************)
(* Why a source that streams does not time out while the sink keeps its    *)
(* slot: proof of NoSpuriousTimeout, for any number of sources, slots and  *)
(* restarts and whatever handshakes are lost, as long as time waits for    *)
(* work that is due and what is sent on a stream arrives once.             *)
(*                                                                         *)
(* The hard part are the slots that a source abandoned, because the        *)
(* RESPONSE that named them was lost: they too count nonces for it, and    *)
(* their heartbeats and TERMINATE, under the same secret, may be read in a *)
(* session that was later given the same slot.  They raise its read_nonce  *)
(* by at most a window plus one, for the sink closes an abandoned slot     *)
(* before it has sent it more heartbeats than a window holds.              *)
(***************************************************************************)
EXTENDS SlotsBoundedProofs

I == HEARTBEAT_INTERVAL

(* What the argument needs of the network and of the timeouts.  With the   *)
(* code's 3, 10 and 30 seconds and its window of 32 nonces, the latter     *)
(* hold.                                                                   *)
NothingOverdue ==
  /\ Timely /\ ~MayDuplicate
  /\ "RA_MESSAGE_CRYPTO" \notin Lossy
  /\ IsFiniteSet(Messages) /\ Cardinality(Messages) <= MaxInFlight

TimeoutsFit ==
  /\ NeverDue \notin UninitHeartbeat
  /\ I < HEARTBEAT_TIMEOUT
  /\ LIVENESS_TIMEOUT <= WINDOW_SIZE * I

Written(i) == slot[i].stream.write_nonce
ReadBy(c) == c.stream.read_nonce

ToSource(s, m) == m.type = "RA_MESSAGE_CRYPTO" /\ m.dst = s

(* The invariant is stated of a source s in state c, with N in flight: an  *)
(* iteration of its loop passes through such a state between the datagram  *)
(* it received and the timeout check.                                      *)
Lives(c) == c.run \in {"running", "stopping"}
InSession(c) == Lives(c) /\ c.st = 2

(* s is in the session of its slot i; all its other slots are abandoned.   *)
Held(s, c, i) == /\ InSession(c)
                 /\ c.stream.id = i
                 /\ c.stream.secret = SecretOf(s, epoch)

(* The heartbeat that the slot sent last is on its way.                    *)
Beat(s, i, m) ==
  /\ ToSource(s, m)
  /\ m.id = i /\ m.secret = SecretOf(s, epoch)
  /\ m.nonce = Written(i) /\ m.nonce >= 1 /\ slot[i].hb = 0

(* The source heard of its slot when that last sent a heartbeat, or will.  *)
BeatInv(s, c, N) ==
  \A i \in SlotsOf(s) : Held(s, c, i) =>
    /\ c.hb <= I
    /\ c.hb <= slot[i].hb \/ \E m \in N : Beat(s, i, m)

(* An abandoned slot was last renewed before its first heartbeat.          *)
AbandonedInv(s, c) ==
  Lives(c) => \A i \in SlotsOf(s) : ~Held(s, c, i) =>
    /\ Written(i) * I + slot[i].hb <= slot[i].upd + I
    /\ Written(i) <= WINDOW_SIZE

(* What is still on its way to an abandoned slot is of the tick in which   *)
(* it was opened, or renewed last.                                         *)
LateInv(s, c, N) ==
  Lives(c) => \A m \in N : DataOf(s, m) /\ m.id \in SlotsOf(s)
                => Held(s, c, m.id) \/ slot[m.id].upd = 0

(* Nonces past the window are those of the session.                        *)
NewInv(s, c, N) ==
  /\ \A m \in N : ToSource(s, m) => c.run # "off"
  /\ Lives(c) => \A m \in N : ToSource(s, m) /\ m.nonce > WINDOW_SIZE + 1 =>
       /\ InSession(c) /\ c.hb <= I
       /\ \A i \in SlotsOf(s) : Held(s, c, i) => m.nonce <= Written(i)

(* So what the source reads never puts the next heartbeat out of reach.    *)
ReadInv(s, c) ==
  /\ ~InSession(c) => ReadBy(c) <= WINDOW_SIZE + 1
  /\ \A i \in SlotsOf(s) : Held(s, c, i) =>
       ReadBy(c) <= WINDOW_SIZE + 1 \/ ReadBy(c) <= WINDOW_SIZE + Written(i)

SessionInv(s, c, N) ==
  /\ BeatInv(s, c, N) /\ AbandonedInv(s, c) /\ LateInv(s, c, N)
  /\ NewInv(s, c, N) /\ ReadInv(s, c)

(* Every slot that was ever used is due a heartbeat at some time.          *)
Scheduled == \A i \in Slots : slot[i].st # "null" => slot[i].hb # NeverDue

(* A slot's stream keeps the id it was created with.                       *)
Numbered == \A i \in Slots : slot[i].stream.id = i

HeartbeatInv == /\ Scheduled /\ Numbered
                /\ \A s \in Sources : SessionInv(s, src[s], net)

-----------------------------------------------------------------------------
(* What the steps have in common.                                          *)

(* With room for every datagram, none is lost for want of buffers.         *)
LEMMA SendKept ==
  ASSUME NothingOverdue, NEW N, N \subseteq Messages, NEW m \in Messages
  PROVE  ra_buf_sendto(N, m) = N \cup {m}
<1> DEFINE A == N \cup {m}
<1>1. A \subseteq Messages
  OBVIOUS
<1> HIDE DEF A
<1>2. Cardinality(A) <= MaxInFlight
  <2>1. /\ IsFiniteSet(A) /\ Cardinality(A) <= Cardinality(Messages)
        /\ Cardinality(A) \in Nat /\ Cardinality(Messages) \in Nat
    BY <1>1, FS_Subset, FS_CardinalityType DEF NothingOverdue
  <2> QED BY <2>1, NetworkAssumption DEF NothingOverdue
<1> QED BY <1>2 DEF ra_buf_sendto, A

(* Without duplication, what is received is gone.                          *)
LEMMA ReceivedOnce ==
  ASSUME NothingOverdue, NEW m, NEW left \in ra_buf_recvfrom(m)
  PROVE  left = net \ {m}
BY DEF ra_buf_recvfrom, NothingOverdue

(* The types of the numbers that the invariant compares.                   *)
LEMMA Numbers ==
  ASSUME Inv
  PROVE  /\ I \in Nat \ {0} /\ WINDOW_SIZE \in Nat
         /\ HEARTBEAT_TIMEOUT \in Nat /\ LIVENESS_TIMEOUT \in Nat
         /\ slot \in [Slots -> AudioStreams]
         /\ src \in [Sources -> SourceStates]
         /\ \A i \in Slots : /\ Written(i) \in Nat /\ slot[i].upd \in Nat
                             /\ slot[i].hb \in Int
                             /\ slot[i].hb # NeverDue => slot[i].hb \in 0 .. I
         /\ \A c \in SourceStates : c.hb \in Nat /\ ReadBy(c) \in Nat
         /\ \A m \in Messages : m.type = "RA_MESSAGE_CRYPTO" => m.nonce \in Nat
<1>1. slot \in [Slots -> AudioStreams] /\ src \in [Sources -> SourceStates]
  BY DEF Inv, TypeOK, SinkTypeOK, SourceTypeOK
<1>2. /\ I \in Nat \ {0} /\ WINDOW_SIZE \in Nat
      /\ HEARTBEAT_TIMEOUT \in Nat /\ LIVENESS_TIMEOUT \in Nat
  BY StreamAssumption, SinkAssumption, SourceAssumption DEF I
<1>3. Nonces \subseteq Nat
  BY StreamAssumption DEF Nonces
<1>4. ASSUME NEW i \in Slots
      PROVE  /\ Written(i) \in Nat /\ slot[i].upd \in Nat
             /\ slot[i].hb \in Int
             /\ slot[i].hb # NeverDue => slot[i].hb \in 0 .. I
  <2>1. slot[i] \in AudioStreams
    BY <1>1
  <2>2. slot[i].hb \in (0 .. I) \cup {-1}
    BY <2>1 DEF AudioStreams, HeartbeatAges, NeverDue, I
  <2>3. Written(i) \in Nat /\ slot[i].upd \in Nat
    <3>1. slot[i].stream \in Streams(Slots, Secrets)
      BY <2>1 DEF AudioStreams
    <3>2. slot[i].stream.write_nonce \in Nonces
      BY <3>1 DEF Streams
    <3>3. slot[i].stream.write_nonce \in Nat
      BY <1>3, <3>2
    <3>4. slot[i].upd \in 0 .. LIVENESS_TIMEOUT
      BY <2>1 DEF AudioStreams
    <3> QED BY <1>2, <3>3, <3>4 DEF Written
  <2> QED BY <1>2, <2>2, <2>3 DEF NeverDue
<1>5. \A c \in SourceStates : c.hb \in Nat /\ ReadBy(c) \in Nat
  <2> SUFFICES ASSUME NEW c \in SourceStates
               PROVE  c.hb \in Nat /\ ReadBy(c) \in Nat
    OBVIOUS
  <2>1. c.stream \in Streams(Slots, Secrets) /\ c.hb \in Silences
    BY DEF SourceStates
  <2>2. c.stream.read_nonce \in Nonces
    BY <2>1 DEF Streams
  <2>3. c.stream.read_nonce \in Nat
    BY <1>3, <2>2
  <2>4. c.hb \in Nat
    BY <1>2, <2>1 DEF Silences
  <2> QED BY <2>3, <2>4 DEF ReadBy
<1>6. \A m \in Messages : m.type = "RA_MESSAGE_CRYPTO" => m.nonce \in Nat
  BY <1>3, MessageKinds DEF CryptoMessages
<1> QED BY <1>1, <1>2, <1>4, <1>5, <1>6

(* Steps that at most close slots of s, and send nothing that they or the  *)
(* source could read.                                                      *)
LEMMA SessionFrame ==
  ASSUME NEW s \in Sources, SessionInv(s, src[s], net),
         epoch' = epoch, src'[s] = src[s],
         SlotsOf(s)' \subseteq SlotsOf(s),
         \A i \in SlotsOf(s)' : slot'[i] = slot[i],
         \A m \in net' : m \in net \/ (~ToSource(s, m) /\ ~DataOf(s, m)),
         Lives(src[s]) => \A m \in net : ToSource(s, m) => m \in net'
  PROVE  SessionInv(s, src[s], net)'
<1> USE DEF SessionInv
<1>1. BeatInv(s, src[s], net)'
  <2> SUFFICES ASSUME NEW i \in SlotsOf(s)', Held(s, src[s], i)'
               PROVE  (/\ src[s].hb <= I
                       /\ src[s].hb <= slot[i].hb \/ \E m \in net : Beat(s, i, m))'
    BY DEF BeatInv
  <2>1. i \in SlotsOf(s) /\ Held(s, src[s], i) /\ slot'[i] = slot[i]
    BY DEF Held, InSession, Lives
  <2>2. Lives(src[s])
    BY <2>1 DEF Held, InSession
  <2> QED BY <2>1, <2>2 DEF BeatInv, Beat, ToSource, Written
<1>2. AbandonedInv(s, src[s])'
  BY DEF AbandonedInv, Held, InSession, Lives, Written
<1>3. LateInv(s, src[s], net)'
  BY DEF LateInv, Held, InSession, Lives, DataOf
<1>4. NewInv(s, src[s], net)'
  BY DEF NewInv, Held, InSession, Lives, Written, ToSource
<1>5. ReadInv(s, src[s])'
  BY DEF ReadInv, Held, InSession, Lives, Written, ReadBy
<1> QED BY <1>1, <1>2, <1>3, <1>4, <1>5

(* The steps of others are.                                                *)
LEMMA SessionAlone ==
  ASSUME NEW s \in Sources, SessionInv(s, src[s], net), LeavesAlone(s)
  PROVE  SessionInv(s, src[s], net)'
BY SessionFrame DEF LeavesAlone, Foreign, ToSource

-----------------------------------------------------------------------------
(* The steps of the source.                                                *)

(* What a source does moves no slot: the state it ends in is what counts.  *)
LEMMA SessionHere ==
  ASSUME NEW s \in Sources, UNCHANGED sinkVars,
         SessionInv(s, src'[s], net')
  PROVE  SessionInv(s, src[s], net)'
<1>1. slot' = slot /\ epoch' = epoch /\ SlotsOf(s)' = SlotsOf(s)
  BY DEF sinkVars, SlotsOf, Open
<1> DEFINE c == src'[s]
           N == net'
<1> HIDE DEF c, N
<1>2. (src[s])' = c /\ net' = N
  BY DEF c, N
<1>3. SessionInv(s, c, N)
  BY DEF c, N
<1>4. BeatInv(s, src[s], net)'
  BY <1>1, <1>2, <1>3
     DEF SessionInv, BeatInv, Beat, Held, Written
<1>5. AbandonedInv(s, src[s])' /\ ReadInv(s, src[s])'
  BY <1>1, <1>2, <1>3
     DEF SessionInv, AbandonedInv, ReadInv, Held, Written, ReadBy
<1>6. LateInv(s, src[s], net)' /\ NewInv(s, src[s], net)'
  BY <1>1, <1>2, <1>3
     DEF SessionInv, LateInv, NewInv, Held, Written, DataOf
<1> QED BY <1>4, <1>5, <1>6 DEF SessionInv

(* A process that is gone has no session.                                  *)
LEMMA SessionGone ==
  ASSUME Inv, NEW s, NEW c, NEW N, SessionInv(s, c, N)
  PROVE  SessionInv(s, Exited, N)
<1>1. ~Lives(Exited) /\ Exited.run # "off" /\ ReadBy(Exited) = 0
  BY DEF Exited, NoProcess, ra_stream_create, Lives, ReadBy
<1> QED BY <1>1, Numbers
        DEF SessionInv, BeatInv, AbandonedInv, LateInv, NewInv, ReadInv,
            Held, InSession

(* A datagram for the source: a response makes a session only where there  *)
(* is none, and what is read is a heartbeat.  The heartbeat that its slot  *)
(* sent last is not rejected.                                              *)
LEMMA Handled ==
  ASSUME Inv, Scheduled, NEW s \in Sources, SessionInv(s, src[s], net),
         Alive(s), NEW m \in net, m.dst = s,
         NEW c, c = handle_message(src[s], s, m)
  PROVE  /\ SessionInv(s, c, net \ {m})
         /\ Lives(c)
         /\ \A i \in Slots : Held(s, src[s], i) => Held(s, c, i)
<1> DEFINE b == src[s]
           N == net \ {m}
<1>0. /\ b \in SourceStates /\ b.stream \in Streams(Slots, Secrets)
      /\ m \in Messages /\ Lives(b) /\ SessionInv(s, b, net)
      /\ c \in SourceStates
      /\ b.hb \in Nat /\ ReadBy(b) \in Nat /\ ReadBy(c) \in Nat
      /\ I \in Nat /\ WINDOW_SIZE \in Nat
  BY HandledMessage, Numbers
     DEF Inv, TypeOK, NetTypeOK, SourceTypeOK, SourceStates, Lives, Alive
<1> HIDE DEF b
<1>1. ASSUME c = b, \A i \in SlotsOf(s) : Held(s, b, i) /\ b.hb > slot[i].hb
                                             => ~Beat(s, i, m)
      PROVE  SessionInv(s, c, N)
  <2>1. BeatInv(s, c, N)
    <3> SUFFICES ASSUME NEW i \in SlotsOf(s), Held(s, c, i)
                 PROVE  /\ c.hb <= I
                        /\ c.hb <= slot[i].hb \/ \E n \in N : Beat(s, i, n)
      BY DEF BeatInv
    <3>1. /\ c.hb <= I
          /\ c.hb <= slot[i].hb \/ \E n \in net : Beat(s, i, n)
      BY <1>0, <1>1 DEF SessionInv, BeatInv
    <3>2. slot[i].hb \in Int
      BY Numbers DEF SlotsOf
    <3>3. c.hb > slot[i].hb => ~Beat(s, i, m)
      BY <1>1
    <3> QED BY <1>0, <1>1, <3>1, <3>2, <3>3
  <2>2. LateInv(s, c, N) /\ NewInv(s, c, N)
    BY <1>0, <1>1 DEF SessionInv, LateInv, NewInv
  <2> QED BY <1>0, <1>1, <2>1, <2>2 DEF SessionInv
<1>2. CASE m.type = "RA_HANDSHAKE_RESPONSE" /\ b.st > 1
  <2>1. c = b
    BY <1>2 DEF handle_message, handle_handshake_response, b
  <2>2. \A i \in SlotsOf(s) : ~Beat(s, i, m)
    BY <1>2 DEF Beat, ToSource
  <2> QED BY <1>0, <1>1, <2>1, <2>2 DEF b
<1>3. CASE m.type = "RA_HANDSHAKE_RESPONSE" /\ ~(b.st > 1)
  <2>1. /\ c.hb = 0 /\ c.run = b.run /\ c.st = 2 /\ ReadBy(c) = ReadBy(b)
    BY <1>0, <1>3
       DEF handle_message, handle_handshake_response, b, SourceStates, Streams,
           ReadBy
  <2>2. ~InSession(b) /\ Lives(c) /\ InSession(c)
        /\ \A i \in Slots : ~Held(s, b, i)
    BY <1>0, <1>3, <2>1 DEF InSession, Lives, Held
  <2>3. BeatInv(s, c, N)
    <3> SUFFICES ASSUME NEW i \in SlotsOf(s)
                 PROVE  c.hb <= I /\ c.hb <= slot[i].hb
      BY DEF BeatInv
    <3>1. slot[i].hb # NeverDue
      BY DEF Scheduled, SlotsOf, Open
    <3>2. slot[i].hb \in 0 .. I
      BY <3>1, Numbers DEF SlotsOf
    <3> QED BY <1>0, <2>1, <3>2
  <2>4. \A i \in SlotsOf(s) : ~Held(s, b, i)
    BY <2>2 DEF SlotsOf
  <2>5. AbandonedInv(s, c) /\ LateInv(s, c, N)
    BY <1>0, <2>4 DEF SessionInv, AbandonedInv, LateInv
  <2>6. NewInv(s, c, N)
    BY <1>0, <2>1, <2>2 DEF SessionInv, NewInv
  <2>7. ReadInv(s, c)
    BY <1>0, <2>1, <2>2 DEF SessionInv, ReadInv
  <2> QED BY <2>2, <2>3, <2>5, <2>6, <2>7 DEF SessionInv, b
<1>4. CASE m.type # "RA_HANDSHAKE_RESPONSE"
  <2>0. ToSource(s, m) /\ m.nonce \in Nat
    BY <1>0, <1>4, MessageKinds, Numbers DEF ToSource, CryptoMessages
  <2>1. CASE m.id = b.stream.id /\ Readable(b.stream, m)
    <3>1. /\ c.hb = 0 /\ c.run = b.run /\ c.st = b.st
          /\ c.stream.id = b.stream.id /\ c.stream.secret = b.stream.secret
          /\ ReadBy(c) = IF m.nonce > ReadBy(b) THEN m.nonce ELSE ReadBy(b)
      BY <1>0, <1>4, <2>1
         DEF handle_message, handle_message_crypto, ra_stream_read, b,
             SourceStates, Streams, ReadBy
    <3>2. /\ Lives(c) /\ (InSession(c) <=> InSession(b))
          /\ \A i : Held(s, c, i) <=> Held(s, b, i)
      BY <1>0, <3>1 DEF InSession, Lives, Held
    <3>3. BeatInv(s, c, N)
      <4> SUFFICES ASSUME NEW i \in SlotsOf(s)
                   PROVE  c.hb <= I /\ c.hb <= slot[i].hb
        BY DEF BeatInv
      <4>1. slot[i].hb # NeverDue
        BY DEF Scheduled, SlotsOf, Open
      <4>2. slot[i].hb \in 0 .. I
        BY <4>1, Numbers DEF SlotsOf
      <4> QED BY <1>0, <3>1, <4>2
    <3>4. AbandonedInv(s, c) /\ LateInv(s, c, N)
      BY <1>0, <3>2 DEF SessionInv, AbandonedInv, LateInv
    <3>5. NewInv(s, c, N)
      BY <1>0, <3>1, <3>2 DEF SessionInv, NewInv
    <3>6. ReadInv(s, c)
      <4>1. ~InSession(c) => m.nonce <= WINDOW_SIZE + 1 /\ ReadBy(b) <= WINDOW_SIZE + 1
        BY <1>0, <2>0, <3>2 DEF SessionInv, NewInv, ReadInv
      <4>2. ASSUME NEW i \in SlotsOf(s), Held(s, c, i)
            PROVE  /\ m.nonce <= WINDOW_SIZE + 1 \/ m.nonce <= Written(i)
                   /\ \/ ReadBy(b) <= WINDOW_SIZE + 1
                      \/ ReadBy(b) <= WINDOW_SIZE + Written(i)
                   /\ Written(i) \in Nat
        <5>1. Held(s, b, i) /\ Written(i) \in Nat
          BY <3>2, <4>2, Numbers DEF SlotsOf
        <5> QED BY <1>0, <2>0, <5>1 DEF SessionInv, NewInv, ReadInv
      <4>3. ASSUME NEW i \in SlotsOf(s), Held(s, c, i)
            PROVE  \/ ReadBy(c) <= WINDOW_SIZE + 1
                   \/ ReadBy(c) <= WINDOW_SIZE + Written(i)
        BY <1>0, <2>0, <3>1, <4>2, <4>3
      <4> QED BY <3>1, <4>1, <4>3 DEF ReadInv
    <3> QED BY <3>2, <3>3, <3>4, <3>5, <3>6 DEF SessionInv, b
  <2>2. CASE ~(m.id = b.stream.id /\ Readable(b.stream, m))
    <3>1. c = b
      BY <1>4, <2>2 DEF handle_message, handle_message_crypto, b
    <3>2. ASSUME NEW i \in SlotsOf(s), Held(s, b, i), Beat(s, i, m)
          PROVE  FALSE
      <4>1. /\ m.id = b.stream.id /\ m.secret = b.stream.secret
            /\ m.nonce = Written(i) /\ m.nonce >= 1
        BY <3>2 DEF Held, Beat
      <4>2. m.secret # NoSecret
        BY <3>2, SecretFacts DEF Beat, Inv, TypeOK, SinkTypeOK
      <4>3. \/ ReadBy(b) <= WINDOW_SIZE + 1
            \/ ReadBy(b) <= WINDOW_SIZE + Written(i)
        BY <1>0, <3>2 DEF SessionInv, ReadInv
      <4>4. m.nonce + WINDOW_SIZE >= ReadBy(b)
        BY <1>0, <2>0, <4>1, <4>3
      <4> QED BY <2>2, <4>1, <4>2, <4>4 DEF Readable, ReadBy
    <3> QED BY <1>0, <1>1, <3>1, <3>2 DEF b
  <2> QED BY <2>1, <2>2
<1> QED BY <1>2, <1>3, <1>4

(* The end of an iteration: the source that times out has no session that  *)
(* the sink keeps, and begins with a stream that was reset.                *)
LEMMA Checked ==
  ASSUME Inv, TimeoutsFit, NEW s \in Sources, UNCHANGED sinkVars,
         NEW c \in SourceStates, Lives(c), NEW N \in SUBSET net,
         SessionInv(s, c, N), CheckTimeout(s, c, N)
  PROVE  /\ SessionInv(s, src[s], net)'
         /\ TimedOut(c) => \A i \in SlotsOf(s) : ~Held(s, c, i)
<1> DEFINE d == src'[s]
           M == net'
<1>0. /\ src \in [Sources -> SourceStates]
      /\ c.hb \in Nat /\ I \in Nat /\ HEARTBEAT_TIMEOUT \in Nat
      /\ WINDOW_SIZE \in Nat
  BY Numbers
<1>1. TimedOut(c) => ~(c.hb <= I)
  BY <1>0 DEF TimeoutsFit, TimedOut
<1>2. TimedOut(c) => \A i \in SlotsOf(s) : ~Held(s, c, i)
  BY <1>1 DEF SessionInv, BeatInv
<1>3. /\ d.run \in {c.run, "exited"}
      /\ \/ /\ M = N
            /\ d = c \/ d = Exited
         \/ /\ TimedOut(c) /\ d.st # 2 /\ d.stream.read_nonce = 0
            /\ \A m \in M : m \in N \/ m = InitOf(s) \/ LastWord(c, m)
  BY <1>0, Iteration
<1> HIDE DEF d, M
<1>4. CASE M = N /\ (d = c \/ d = Exited)
  BY <1>2, <1>4, SessionGone, SessionHere DEF d, M
<1>5. CASE /\ TimedOut(c) /\ d.st # 2 /\ d.stream.read_nonce = 0
           /\ \A m \in M : m \in N \/ m = InitOf(s) \/ LastWord(c, m)
  <2>1. ~InSession(d) /\ (\A i : ~Held(s, d, i)) /\ d.run # "off" /\ ReadBy(d) = 0
    BY <1>3, <1>5 DEF InSession, Held, Lives, ReadBy
  <2>2. \A m \in M : ToSource(s, m) => m \in N
    BY <1>5, NetworkAssumption
       DEF ToSource, LastWord, InitOf, create_handshake_message
  <2>3. \A m \in M : DataOf(s, m) /\ m.id \in SlotsOf(s) => m \in N
    <3>1. ASSUME NEW m, LastWord(c, m), DataOf(s, m)
          PROVE  Held(s, c, m.id)
      BY <3>1 DEF LastWord, DataOf, Held, InSession
    <3> QED BY <1>2, <1>5, <3>1 DEF DataOf, InitOf, create_handshake_message
  <2>4. BeatInv(s, d, M) /\ ReadInv(s, d)
    BY <1>0, <2>1 DEF BeatInv, ReadInv
  <2>5. AbandonedInv(s, d) /\ LateInv(s, d, M)
    BY <1>2, <1>5, <2>3 DEF SessionInv, AbandonedInv, LateInv
  <2>6. NewInv(s, d, M)
    BY <1>1, <1>5, <2>1, <2>2 DEF SessionInv, NewInv
  <2> QED BY <1>2, <2>4, <2>5, <2>6, SessionHere DEF SessionInv, d, M
<1> QED BY <1>3, <1>4, <1>5

(* A source that sends, or is told to stop: d is what becomes of it.       *)
LEMMA SourceSends ==
  ASSUME NEW s \in Sources, UNCHANGED sinkVars, SessionInv(s, src[s], net),
         NEW d, src'[s] = d, Lives(d), Lives(src[s]),
         d.hb = src[s].hb, d.st = src[s].st, d.stream.id = src[s].stream.id,
         d.stream.secret = src[s].stream.secret, ReadBy(d) = ReadBy(src[s]),
         net \subseteq net',
         \A m \in net' : m \in net \/ (/\ ~ToSource(s, m)
                                       /\ DataOf(s, m) => Held(s, src[s], m.id))
  PROVE  SessionInv(s, src[s], net)'
<1> DEFINE b == src[s]
           N == net'
<1>0. SessionInv(s, b, net)
  OBVIOUS
<1>1. /\ InSession(d) <=> InSession(b)
      /\ \A i : Held(s, d, i) <=> Held(s, b, i)
      /\ \A m \in N : ToSource(s, m) => m \in net
      /\ \A m \in N : DataOf(s, m) => m \in net \/ Held(s, b, m.id)
      /\ net \subseteq N /\ d.hb = b.hb /\ ReadBy(d) = ReadBy(b)
      /\ Lives(b) /\ Lives(d)
  BY DEF InSession, Held
<1> HIDE DEF b, N
<1>2. BeatInv(s, d, N)
  BY <1>0, <1>1 DEF SessionInv, BeatInv
<1>3. AbandonedInv(s, d) /\ ReadInv(s, d) /\ LateInv(s, d, N)
  BY <1>0, <1>1 DEF SessionInv, AbandonedInv, ReadInv, LateInv
<1>4. NewInv(s, d, N)
  BY <1>0, <1>1 DEF SessionInv, NewInv, Lives
<1> QED BY <1>2, <1>3, <1>4, SessionHere DEF SessionInv, N

(* The steps of s itself.                                                  *)
LEMMA SessionSource ==
  ASSUME Inv, NothingOverdue, TimeoutsFit, Scheduled, NEW s \in Sources,
         SessionInv(s, src[s], net), SourceStep(s)
  PROVE  SessionInv(s, src[s], net)'
<1>0. /\ src \in [Sources -> SourceStates] /\ src[s] \in SourceStates
      /\ src[s].stream \in Streams(Slots, Secrets)
      /\ UNCHANGED sinkVars
  BY DEF Inv, TypeOK, SourceTypeOK, SourceStates, SourceStep
<1>1. CASE SourceStart(s)
  <2> DEFINE d == [src[s] EXCEPT !.run = "running", !.st = 1, !.hb = 0]
  <2>1. /\ src'[s] = d /\ d.run = "running" /\ d.st = 1
        /\ d.stream = src[s].stream
    BY <1>0, <1>1 DEF SourceStart, SourceStates
  <2>2. SlotsOf(s) = {} /\ ~Lives(src[s])
    BY <1>1 DEF Inv, Authentic, SlotKeyed, SlotsOf, SourceStart, Started, Lives
  <2>3. /\ net' \subseteq net \cup {InitOf(s)}
        /\ \A m \in net : ~ToSource(s, m)
    BY <1>1, SendAdds
       DEF SourceStart, send_handshake, InitOf, SessionInv, NewInv
  <2>4. \A m \in net' : ~ToSource(s, m)
    BY <2>3 DEF ToSource, InitOf, create_handshake_message
  <2> HIDE DEF d
  <2>5. BeatInv(s, d, net') /\ AbandonedInv(s, d) /\ LateInv(s, d, net')
    BY <2>2 DEF BeatInv, AbandonedInv, LateInv
  <2>6. NewInv(s, d, net')
    BY <2>4 DEF NewInv
  <2>7. ReadInv(s, d)
    BY <2>1, <2>2 DEF SessionInv, ReadInv, ReadBy, InSession
  <2> QED BY <1>0, <2>1, <2>5, <2>6, <2>7, SessionHere DEF SessionInv
<1>2. ASSUME NEW m \in net, SourceReceive(s, m)
      PROVE  SessionInv(s, src[s], net)'
  <2> DEFINE c == handle_message(src[s], s, m)
  <2>1. Alive(s) /\ m.dst = s /\ CheckTimeout(s, c, net \ {m})
    BY <1>2, ReceivedOnce DEF SourceReceive
  <2>2. c \in SourceStates
    BY <2>1, HandledMessage
  <2> HIDE DEF c
  <2>3. SessionInv(s, c, net \ {m}) /\ Lives(c)
    BY <2>1, Handled DEF c
  <2> QED BY <1>0, <2>1, <2>2, <2>3, Checked
<1>3. CASE SourceIdle(s)
  BY <1>0, <1>3, Checked DEF SourceIdle, Alive, Lives
<1>4. CASE SourceLeaveLoop(s) \/ SourceFails(s)
  <2>1. src'[s] = Exited /\ net' = net
    BY <1>0, <1>4 DEF SourceLeaveLoop, SourceFails
  <2> QED BY <1>0, <2>1, SessionGone, SessionHere
<1>5. CASE SourceStop(s)
  <2> DEFINE d == [src[s] EXCEPT !.run = "stopping"]
  <2>1. /\ src'[s] = d /\ net' = net /\ d.run = "stopping" /\ Lives(src[s])
        /\ d.hb = src[s].hb /\ d.st = src[s].st /\ d.stream = src[s].stream
    BY <1>0, <1>5 DEF SourceStop, SourceStates, Lives
  <2> HIDE DEF d
  <2> QED BY <1>0, <2>1, SourceSends DEF Lives, ReadBy
<1>6. ASSUME NEW d, src'[s] = d, d.run \in {"running", "stopping"},
             d.hb = src[s].hb, d.st = src[s].st,
             d.stream = ra_stream_write(src[s].stream), Alive(s),
             NEW body, body = TERMINATE \/ src[s].st = 2,
             net' = ra_buf_sendto(net, ra_stream_send(ra_stream_write(src[s].stream),
                                                      SinkAddr, body))
      PROVE  SessionInv(s, src[s], net)'
  <2> DEFINE m == ra_stream_send(ra_stream_write(src[s].stream), SinkAddr, body)
  <2>1. /\ m.type = "RA_MESSAGE_CRYPTO" /\ m.dst = SinkAddr /\ m.body = body
        /\ m.id = src[s].stream.id /\ m.secret = src[s].stream.secret
    BY <1>0, StreamSend
  <2>2. net' \subseteq net \cup {m} /\ net \subseteq net'
    BY <1>6 DEF ra_buf_sendto
  <2>3. /\ d.stream.id = src[s].stream.id
        /\ d.stream.secret = src[s].stream.secret
        /\ ReadBy(d) = ReadBy(src[s])
    BY <1>0, <1>6 DEF ra_stream_write, Streams, ReadBy
  <2> HIDE DEF m
  <2>4. ~ToSource(s, m) /\ (DataOf(s, m) => Held(s, src[s], m.id))
    BY <1>6, <2>1, NetworkAssumption
       DEF ToSource, DataOf, Held, InSession, Lives, Alive
  <2>5. Lives(d) /\ Lives(src[s])
    BY <1>6 DEF Lives, Alive
  <2> QED BY <1>0, <1>6, <2>2, <2>3, <2>4, <2>5, SourceSends
<1>7. CASE AudioCallback(s)
  <2> DEFINE d == [src[s] EXCEPT !.stream = ra_stream_write(src[s].stream)]
  <2>1. /\ src'[s] = d
        /\ d.run = src[s].run /\ d.hb = src[s].hb /\ d.st = src[s].st
        /\ d.stream = ra_stream_write(src[s].stream)
    BY <1>0, <1>7 DEF AudioCallback, SourceStates
  <2> HIDE DEF d
  <2> QED BY <1>6, <1>7, <2>1 DEF AudioCallback, Established, Alive
<1>8. CASE SignalHandler(s)
  <2> DEFINE d == [src[s] EXCEPT !.stream = ra_stream_write(src[s].stream),
                                 !.run = "stopping"]
  <2>1. /\ src'[s] = d
        /\ d.run = "stopping" /\ d.hb = src[s].hb /\ d.st = src[s].st
        /\ d.stream = ra_stream_write(src[s].stream)
    BY <1>0, <1>8 DEF SignalHandler, SourceStates
  <2> HIDE DEF d
  <2> QED BY <1>6, <1>8, <2>1 DEF SignalHandler
<1> QED BY <1>1, <1>2, <1>3, <1>4, <1>5, <1>7, <1>8 DEF SourceStep

-----------------------------------------------------------------------------
(* The steps of the sink.                                                  *)

(* What a handshake leaves in the slot it takes is due a heartbeat.        *)
LEMMA CreatedSlot ==
  ASSUME Inv, TimeoutsFit, Scheduled, NEW i \in Slots, NEW h \in UninitHeartbeat,
         NEW t \in Sources
  PROVE  LET b == Keyed(audio_stream_create(i, h), t)
             a == audio_stream_open(b, t)
         IN /\ b \in AudioStreams
            /\ b.hb # NeverDue /\ b.st # "null"
            /\ a.hb \in 0 .. I /\ a.stream.write_nonce = 0
<1> DEFINE n == audio_stream_create(i, h)
           b == Keyed(n, t)
           a == audio_stream_open(b, t)
<1>0. slot[i] \in AudioStreams /\ h # NeverDue /\ SinkTypeOK /\ h \in HeartbeatAges
  BY SinkAssumption DEF Inv, TypeOK, SinkTypeOK, TimeoutsFit
<1>1. n \in AudioStreams
  BY <1>0, SlotOps
<1>2. n.hb # NeverDue /\ n.st # "null"
  BY <1>0 DEF audio_stream_create, AudioStreams, Scheduled
<1> HIDE DEF n
<1>3. b \in AudioStreams
  BY <1>0, <1>1, SlotOps
<1>4. b.hb = n.hb /\ b.st = n.st
  BY <1>1 DEF Keyed, AudioStreams
<1> HIDE DEF b
<1>5. b.stream \in Streams(Slots, Secrets)
  BY <1>3 DEF AudioStreams
<1>6. a.stream.write_nonce = 0 /\ a.hb = b.hb
  BY <1>3, <1>5 DEF audio_stream_open, ra_stream_reset, AudioStreams, Streams
<1>7. b.hb \in 0 .. I
  BY <1>2, <1>3, <1>4 DEF AudioStreams, HeartbeatAges, I
<1> QED BY <1>2, <1>3, <1>4, <1>6, <1>7 DEF n, b

(* A handshake of s opens slot i: s has no session then.                   *)
LEMMA SessionOpens ==
  ASSUME Inv, NothingOverdue, TimeoutsFit, Scheduled,
         NEW s \in Sources, HandshakeInv(s), SessionInv(s, src[s], net),
         NEW m \in net, m.type = "RA_HANDSHAKE_INIT", m.from = s,
         NEW i \in Slots, HandshakeAccepted(m, i), UNCHANGED <<epoch, src>>
  PROVE  SessionInv(s, src[s], net)'
<1> DEFINE r == create_handshake_response_message(s, i, epoch)
<1>0. /\ slot \in [Slots -> AudioStreams] /\ src' = src /\ epoch' = epoch
      /\ m = InitOf(s) /\ I \in Nat \ {0} /\ WINDOW_SIZE \in Nat
  BY MessageKinds, Numbers
     DEF Inv, TypeOK, NetTypeOK, InitMessages, create_handshake_message, InitOf
<1>1. ~InSession(src[s])
  BY <1>0 DEF HandshakeInv, InSession
<1>2. /\ net' \subseteq net \cup {r}
      /\ ~ToSource(s, r) /\ ~DataOf(s, r)
  BY SendAdds, ReceiveRemoves
     DEF HandshakeAccepted, send_handshake_response, ToSource, DataOf,
         create_handshake_response_message
<1> HIDE DEF r
<1>3. /\ \A j \in SlotsOf(s)' : j # i => j \in SlotsOf(s) /\ slot'[j] = slot[j]
      /\ slot'[i].upd = 0 /\ slot'[i].hb \in 0 .. I /\ Written(i)' = 0
  <2>1. PICK h \in UninitHeartbeat :
          slot' = [slot EXCEPT ![i] =
                     audio_stream_open(Keyed(audio_stream_create(i, h), s), s)]
    BY DEF HandshakeAccepted
  <2> DEFINE b == Keyed(audio_stream_create(i, h), s)
             a == audio_stream_open(b, s)
  <2>2. b \in AudioStreams /\ a.hb \in 0 .. I /\ a.stream.write_nonce = 0
    BY CreatedSlot
  <2>3. slot' = [slot EXCEPT ![i] = a]
    BY <2>1
  <2> HIDE DEF b
  <2>4. a.upd = 0
    BY <2>2, SlotFields
  <2> HIDE DEF a
  <2> QED BY <1>0, <2>2, <2>3, <2>4 DEF SlotsOf, Open, Written
<1>4. \A j : ~Held(s, src[s], j)'
  BY <1>0, <1>1 DEF Held, InSession, Lives
<1>5. BeatInv(s, src[s], net)'
  BY <1>4 DEF BeatInv
<1>6. AbandonedInv(s, src[s])'
  <2> SUFFICES ASSUME Lives(src[s]), NEW j \in SlotsOf(s)'
               PROVE  (/\ Written(j) * I + slot[j].hb <= slot[j].upd + I
                       /\ Written(j) <= WINDOW_SIZE)'
    BY <1>0 DEF AbandonedInv, Lives
  <2>1. CASE j = i
    BY <1>0, <1>3, <2>1
  <2>2. CASE j # i
    <3>1. j \in SlotsOf(s) /\ slot'[j] = slot[j] /\ ~Held(s, src[s], j)
      BY <1>1, <1>3, <2>2 DEF Held
    <3> QED BY <3>1 DEF SessionInv, AbandonedInv, Written
  <2> QED BY <2>1, <2>2
<1>7. LateInv(s, src[s], net)'
  BY <1>0, <1>1, <1>2, <1>3
     DEF SessionInv, LateInv, Held, InSession, Lives, DataOf
<1>8. NewInv(s, src[s], net)'
  BY <1>0, <1>1, <1>2 DEF SessionInv, NewInv, InSession, Lives, ToSource
<1>9. ReadInv(s, src[s])'
  BY <1>0, <1>1, <1>4 DEF SessionInv, ReadInv, InSession, Lives, ReadBy
<1> QED BY <1>5, <1>6, <1>7, <1>8, <1>9 DEF SessionInv

(* A message for the sink: one of s that renews an abandoned slot is of a  *)
(* tick in which that needed no renewal.                                   *)
LEMMA SessionMessage ==
  ASSUME Inv, NEW s \in Sources, SessionInv(s, src[s], net),
         NEW m \in net, HandleMessageCrypto(m), UNCHANGED src
  PROVE  SessionInv(s, src[s], net)'
<1>0. /\ slot \in [Slots -> AudioStreams] /\ epoch' = epoch /\ src' = src
      /\ net' \subseteq net /\ m.id \in Slots
      /\ m.dst = SinkAddr /\ m.type = "RA_MESSAGE_CRYPTO"
  BY MessageKinds, ReceiveRemoves
     DEF Inv, TypeOK, SinkTypeOK, NetTypeOK, HandleMessageCrypto, CryptoMessages
<1>1. \A n \in net : ToSource(s, n) => n \in net'
  BY <1>0, NetworkAssumption DEF HandleMessageCrypto, ra_buf_recvfrom, ToSource
<1>2. CASE HandleMessageRejected(m)
  <2>1. slot' = slot /\ SlotsOf(s)' = SlotsOf(s)
    BY <1>2 DEF HandleMessageRejected, SlotsOf, Open
  <2> QED BY <1>0, <1>1, <2>1, SessionFrame
<1> DEFINE a == Accepted(m)
<1>3. /\ a.st = slot[m.id].st /\ a.peer = slot[m.id].peer /\ a.upd = 0
      /\ a.hb = slot[m.id].hb
      /\ a.stream.write_nonce = slot[m.id].stream.write_nonce
      /\ audio_stream_close(a).st = "closed"
  <2>1. slot[m.id] \in AudioStreams
    BY <1>0
  <2>2. slot[m.id].stream \in Streams(Slots, Secrets)
    BY <2>1 DEF AudioStreams
  <2> QED BY <2>1, <2>2
          DEF Accepted, AudioStreams, audio_stream_close, ra_stream_read, Streams
<1>4. CASE HandleStreamTerminate(m)
  <2>1. slot' = [slot EXCEPT ![m.id] = audio_stream_close(a)]
    BY <1>4 DEF HandleStreamTerminate
  <2> HIDE DEF a
  <2>2. /\ SlotsOf(s)' \subseteq SlotsOf(s)
        /\ \A j \in SlotsOf(s)' : slot'[j] = slot[j]
    BY <1>0, <1>3, <2>1 DEF SlotsOf, Open
  <2> QED BY <1>0, <1>1, <2>2, SessionFrame
<1>5. CASE HandleStreamData(m)
  <2>1. slot' = [slot EXCEPT ![m.id] = a]
    BY <1>5 DEF HandleStreamData
  <2>2. m.body # TERMINATE /\ m.secret = slot[m.id].stream.secret
    BY <1>5 DEF HandleStreamData, Accepts, Readable
  <2> HIDE DEF a
  <2>3. /\ SlotsOf(s)' = SlotsOf(s)
        /\ \A j \in Slots : j # m.id => slot'[j] = slot[j]
        /\ \A j \in Slots : /\ slot'[j].hb = slot[j].hb
                            /\ Written(j)' = Written(j)
        /\ slot'[m.id].upd = 0
    BY <1>0, <1>3, <2>1 DEF SlotsOf, Open, Written
  <2>4. CASE m.id \notin SlotsOf(s)
    <3>1. \A j \in SlotsOf(s) : slot'[j] = slot[j]
      BY <2>3, <2>4 DEF SlotsOf
    <3> QED BY <1>0, <1>1, <2>3, <3>1, SessionFrame
  <2>5. CASE m.id \in SlotsOf(s)
    <3>1. DataOf(s, m)
      BY <1>0, <2>2, <2>5 DEF DataOf, Inv, Authentic, SlotKeyed, SlotsOf
    <3>2. Lives(src[s]) => Held(s, src[s], m.id) \/ slot[m.id].upd = 0
      BY <2>5, <3>1 DEF SessionInv, LateInv
    <3>3. \A j : Held(s, src[s], j)' <=> Held(s, src[s], j)
      BY <1>0 DEF Held, InSession, Lives
    <3>4. Lives(src[s])' <=> Lives(src[s])
      BY <1>0 DEF Lives
    <3>5. BeatInv(s, src[s], net)'
      <4>1. \A j \in SlotsOf(s), n \in net :
              Beat(s, j, n) => n \in net' /\ Beat(s, j, n)'
        BY <1>0, <1>1, <2>3 DEF Beat, ToSource, SlotsOf
      <4> SUFFICES ASSUME NEW j \in SlotsOf(s), Held(s, src[s], j)
                   PROVE  /\ src'[s].hb <= I
                          /\ \/ src'[s].hb <= slot'[j].hb
                             \/ \E n \in net' : Beat(s, j, n)'
        BY <2>3, <3>3 DEF BeatInv
      <4>2. slot'[j].hb = slot[j].hb
        BY <2>3 DEF SlotsOf
      <4> QED BY <1>0, <4>1, <4>2 DEF SessionInv, BeatInv
    <3>6. AbandonedInv(s, src[s])'
      <4> SUFFICES ASSUME Lives(src[s]), NEW j \in SlotsOf(s), ~Held(s, src[s], j)
                   PROVE  /\ Written(j)' * I + slot'[j].hb <= slot'[j].upd + I
                          /\ Written(j)' <= WINDOW_SIZE
        BY <2>3, <3>3, <3>4 DEF AbandonedInv, I
      <4>1. slot'[j].upd = slot[j].upd
        BY <2>3, <3>2 DEF SlotsOf
      <4>2. slot'[j].hb = slot[j].hb /\ Written(j)' = Written(j)
        BY <2>3 DEF SlotsOf
      <4> QED BY <4>1, <4>2 DEF SessionInv, AbandonedInv
    <3>7. LateInv(s, src[s], net)'
      <4>1. \A j \in SlotsOf(s) : j = m.id \/ slot'[j] = slot[j]
        BY <2>3 DEF SlotsOf
      <4> QED BY <1>0, <2>3, <3>3, <3>4, <4>1 DEF SessionInv, LateInv, DataOf
    <3>8. NewInv(s, src[s], net)'
      <4>1. \A j \in SlotsOf(s) : Written(j)' = Written(j)
        BY <2>3 DEF SlotsOf
      <4>2. InSession(src[s])' <=> InSession(src[s])
        BY <1>0 DEF InSession, Lives
      <4>3. /\ \A n \in net' : n \in net
            /\ \A n : ToSource(s, n)' <=> ToSource(s, n)
        BY <1>0 DEF ToSource
      <4> QED BY <1>0, <2>3, <3>3, <3>4, <4>1, <4>2, <4>3 DEF SessionInv, NewInv, I
    <3>9. ReadInv(s, src[s])'
      <4>1. \A j \in SlotsOf(s) : Written(j)' = Written(j)
        BY <2>3 DEF SlotsOf
      <4>2. InSession(src[s])' <=> InSession(src[s])
        BY <1>0 DEF InSession, Lives
      <4> QED BY <1>0, <2>3, <3>3, <4>1, <4>2 DEF SessionInv, ReadInv, ReadBy
    <3> QED BY <3>5, <3>6, <3>7, <3>8, <3>9 DEF SessionInv
  <2> QED BY <2>4, <2>5
<1> QED BY <1>2, <1>4, <1>5 DEF HandleMessageCrypto

(* The pass of the background thread: a heartbeat of an abandoned slot     *)
(* finds it unrenewed for as long as its heartbeats so far took, so that   *)
(* it is closed before the window is spent; the one of the session is on   *)
(* its way to a source that heard of the slot within the interval.         *)
LEMMA SessionLiveness ==
  ASSUME Inv, NothingOverdue, TimeoutsFit, Numbered, NEW s \in Sources,
         SessionInv(s, src[s], net),
         NEW i \in Slots, HandleLiveness(i), UNCHANGED src
  PROVE  SessionInv(s, src[s], net)'
<1> DEFINE c == src[s]
           w == ra_stream_write(slot[i].stream)
           Sent(body) == ra_stream_send(w, slot[i].peer, body)
<1>0. /\ slot \in [Slots -> AudioStreams] /\ slot[i] \in AudioStreams
      /\ slot[i].stream \in Streams(Slots, Secrets)
      /\ epoch' = epoch /\ src' = src /\ net \subseteq Messages
      /\ Open(i) /\ slot[i].peer \in Sources /\ Started(slot[i].peer)
      /\ slot[i].stream.secret = SecretOf(slot[i].peer, epoch)
      /\ I \in Nat \ {0} /\ WINDOW_SIZE \in Nat /\ LIVENESS_TIMEOUT \in Nat
      /\ c.hb \in Nat /\ ReadBy(c) \in Nat
  BY Numbers
     DEF Inv, TypeOK, NetTypeOK, SinkTypeOK, SourceTypeOK, Authentic, SlotKeyed,
         HandleLiveness, LivenessTimeout, SendHeartbeat, LivenessDue,
         HeartbeatDue, AudioStreams
<1>1. \A j \in Slots : Written(j) \in Nat /\ slot[j].upd \in Nat /\ slot[j].hb \in Int
  BY Numbers
<1>2. /\ w \in Streams(Slots, Secrets)
      /\ w.id = slot[i].stream.id /\ w.secret = slot[i].stream.secret
      /\ w.write_nonce \in Nat /\ w.write_nonce >= 1
      /\ Written(i) <= w.write_nonce /\ w.write_nonce <= Written(i) + 1
  <2>1. /\ slot[i].stream.write_nonce \in 0 .. MaxNonce /\ MaxNonce \in Nat \ {0}
    BY <1>0, StreamAssumption DEF Streams, Nonces
  <2>2. /\ w.id = slot[i].stream.id /\ w.secret = slot[i].stream.secret
        /\ w.write_nonce = IF Written(i) < MaxNonce THEN Written(i) + 1
                                                    ELSE Written(i)
    BY <1>0 DEF ra_stream_write, Streams, Written
  <2> QED BY <1>0, <2>1, <2>2, StreamOps DEF Written
<1>3. \A body : /\ Sent(body).type = "RA_MESSAGE_CRYPTO"
                /\ Sent(body).dst = slot[i].peer
                /\ Sent(body).id = i
                /\ Sent(body).secret = SecretOf(slot[i].peer, epoch)
                /\ Sent(body).nonce = w.write_nonce
  BY <1>0, <1>2 DEF ra_stream_send, Numbered
<1>4. \A body \in {HEARTBEAT, TERMINATE} : Sent(body) \in Messages
  BY <1>0, <1>2, SentOnStream
<1>5. \A body : ~DataOf(s, Sent(body))
  BY <1>0, <1>3, NetworkAssumption DEF DataOf
<1>6. /\ SlotsOf(s) \subseteq Slots /\ SlotsOf(s)' \subseteq Slots
      /\ \A j \in Slots : Held(s, c, j)' <=> Held(s, c, j)
      /\ \A j \in Slots : Held(s, c, j) /\ Held(s, c, i) => j = i
  BY <1>0 DEF Held, InSession, Lives, SlotsOf
<1>7. /\ Lives(c)' <=> Lives(c)
      /\ InSession(c)' <=> InSession(c)
      /\ ReadBy(c)' = ReadBy(c) /\ src'[s] = src[s]
  BY <1>0 DEF Lives, InSession, ReadBy
<1> HIDE DEF w, Sent
<1>8. ASSUME NEW a, NEW body \in {HEARTBEAT, TERMINATE}, SendStreamSignal(a, i, body),
             a.peer = slot[i].peer, a.stream = slot[i].stream,
             a.upd = slot[i].upd,
             NEW b, b = [a EXCEPT !.stream = w],
             b.st = a.st, b.peer = a.peer, b.stream = w, b.upd = a.upd, b.hb = a.hb,
             a.st \in {"open", "closed"}, a.st = "open" => a.hb = 0 /\ SendHeartbeat(i)
      PROVE  SessionInv(s, src[s], net)'
  <2>1. /\ net' = net \cup {Sent(body)}
        /\ slot' = [slot EXCEPT ![i] = b]
    <3>1. net' = ra_buf_sendto(net, Sent(body))
      BY <1>8 DEF SendStreamSignal, w, Sent
    <3>2. net' = net \cup {Sent(body)}
      BY <1>0, <1>4, <3>1, SendKept
    <3>3. slot' = [slot EXCEPT ![i] = b]
      BY <1>8 DEF SendStreamSignal, w
    <3> QED BY <3>2, <3>3
  <2>2. /\ SlotsOf(s)' \subseteq SlotsOf(s)
        /\ \A j \in SlotsOf(s)' : j # i => slot'[j] = slot[j]
        /\ slot'[i] = b
        /\ i \in SlotsOf(s)' => b.st = "open"
    BY <1>0, <1>8, <2>1 DEF SlotsOf, Open
  <2>3. CASE slot[i].peer # s
    <3>1. ~ToSource(s, Sent(body))
      BY <1>3, <2>3 DEF ToSource
    <3>2. i \notin SlotsOf(s)
      BY <2>3 DEF SlotsOf
    <3> QED BY <1>0, <1>5, <2>1, <2>2, <3>1, <3>2, SessionFrame
  <2>4. CASE slot[i].peer = s
    <3> DEFINE m == Sent(body)
    <3>0. /\ ToSource(s, m) /\ ~DataOf(s, m) /\ m.nonce = w.write_nonce
          /\ m.id = i /\ m.secret = SecretOf(s, epoch)
          /\ net' = net \cup {m} /\ i \in SlotsOf(s)
      BY <1>0, <1>3, <1>5, <2>1, <2>4 DEF ToSource, SlotsOf
    <3> HIDE DEF m
    <3>1. Lives(c) /\ ~Held(s, c, i) =>
            /\ Written(i) * I + slot[i].hb <= slot[i].upd + I
            /\ Written(i) <= WINDOW_SIZE
      BY <3>0 DEF SessionInv, AbandonedInv
    <3>2. \A n : /\ ToSource(s, n)' <=> ToSource(s, n)
                /\ DataOf(s, n)' <=> DataOf(s, n)
      BY <1>0 DEF ToSource, DataOf
    <3>3. \A n \in net' : n = m \/ n \in net
      BY <3>0
    <3>4. Lives(c) => c.run # "off"
      BY DEF Lives
    <3>5. c.run # "off"
      BY <1>0, <2>4 DEF Started
    <3>6. CASE b.st = "closed"
      <4>1. /\ \A j \in SlotsOf(s)' : j \in SlotsOf(s) /\ j # i /\ slot'[j] = slot[j]
            /\ \A j \in SlotsOf(s)' : Written(j)' = Written(j)
        BY <2>2, <3>6 DEF Written
      <4>2. BeatInv(s, c, net)'
        BY <1>0, <1>6, <1>7, <3>0, <4>1
           DEF SessionInv, BeatInv, Beat, ToSource
      <4>3. AbandonedInv(s, c)' /\ ReadInv(s, c)'
        BY <1>6, <1>7, <4>1 DEF SessionInv, AbandonedInv, ReadInv
      <4>4. LateInv(s, c, net)'
        BY <1>6, <1>7, <3>0, <3>2, <3>3, <4>1 DEF SessionInv, LateInv
      <4>5. NewInv(s, c, net)'
        <5>1. ASSUME Lives(c), w.write_nonce > WINDOW_SIZE + 1
              PROVE  Held(s, c, i)
          BY <1>0, <1>1, <1>2, <3>1, <5>1
        <5>2. Held(s, c, i) => InSession(c) /\ c.hb <= I
          BY <3>0 DEF SessionInv, BeatInv, Held
        <5>3. \A j \in SlotsOf(s)' : Held(s, c, i) => ~Held(s, c, j)
          BY <1>6, <4>1
        <5>4. ASSUME NEW n \in net', ToSource(s, n), n.nonce > WINDOW_SIZE + 1, Lives(c)
              PROVE  /\ InSession(c) /\ c.hb <= I
                     /\ \A j \in SlotsOf(s)' : Held(s, c, j) => n.nonce <= Written(j)'
          <6>1. CASE n = m
            BY <3>0, <5>1, <5>2, <5>3, <5>4, <6>1
          <6>2. CASE n \in net
            BY <4>1, <5>4, <6>2 DEF SessionInv, NewInv
          <6> QED BY <3>3, <6>1, <6>2
        <5> QED BY <1>6, <1>7, <3>2, <3>5, <5>4 DEF NewInv
      <4> QED BY <4>2, <4>3, <4>4, <4>5 DEF SessionInv
    <3>7. CASE b.st = "open"
      <4>1. /\ slot[i].hb >= I /\ slot[i].upd < LIVENESS_TIMEOUT
            /\ b.hb = 0 /\ b.upd = slot[i].upd
        BY <1>0, <1>1, <1>8, <3>7
           DEF SendHeartbeat, HeartbeatDue, LivenessDue, I
      <4>2. SlotsOf(s)' = SlotsOf(s)
        BY <1>0, <1>8, <2>1, <3>7 DEF SlotsOf, Open
      <4>3. /\ \A j \in SlotsOf(s) : j # i => slot'[j] = slot[j]
            /\ \A j \in SlotsOf(s) : j # i => Written(j)' = Written(j)
            /\ slot'[i].hb = 0 /\ slot'[i].upd = slot[i].upd
            /\ Written(i)' = w.write_nonce
        BY <1>8, <2>2, <4>1, <4>2 DEF Written
      <4>4. \A j \in SlotsOf(s) : Written(j) <= Written(j)'
                                  /\ Written(j) \in Nat /\ Written(j)' \in Nat
        BY <1>1, <1>2, <4>3 DEF SlotsOf
      <4>5. BeatInv(s, c, net)'
        <5>1. ASSUME NEW j \in SlotsOf(s), Held(s, c, j)
              PROVE  /\ c.hb <= I
                     /\ c.hb <= slot'[j].hb \/ \E n \in net' : Beat(s, j, n)'
          <6>1. c.hb <= I /\ (c.hb <= slot[j].hb \/ \E n \in net : Beat(s, j, n))
            BY <5>1 DEF SessionInv, BeatInv
          <6>2. CASE j = i
            <7>1. ASSUME NEW n \in net', ToSource(s, n), n.id = i,
                         n.secret = SecretOf(s, epoch), n.nonce = w.write_nonce
                  PROVE  Beat(s, i, n)'
              BY <1>0, <1>2, <4>3, <7>1 DEF Beat, ToSource
            <7>2. \E n \in net' : Beat(s, i, n)'
              BY <3>0, <7>1
            <7> QED BY <6>1, <6>2, <7>2
          <6>3. CASE j # i
            <7>1. \A n \in net : Beat(s, j, n) => n \in net' /\ Beat(s, j, n)'
              BY <1>0, <3>0, <4>3, <6>3 DEF Beat, ToSource
            <7> QED BY <4>3, <6>1, <6>3, <7>1
          <6> QED BY <6>2, <6>3
        <5> QED BY <1>0, <1>6, <4>2, <5>1 DEF BeatInv, I
      <4>6. AbandonedInv(s, c)'
        <5>1. ASSUME Lives(c), NEW j \in SlotsOf(s), ~Held(s, c, j)
              PROVE  /\ Written(j)' * I + slot'[j].hb <= slot'[j].upd + I
                     /\ Written(j)' <= WINDOW_SIZE
          <6>1. /\ Written(j) * I + slot[j].hb <= slot[j].upd + I
                /\ Written(j) <= WINDOW_SIZE
            BY <5>1 DEF SessionInv, AbandonedInv
          <6>2. CASE j = i
            <7> DEFINE x == Written(i)
                       y == w.write_nonce
                       u == slot[i].upd
            <7>1. /\ x \in Nat /\ y \in Nat /\ u \in Nat /\ y <= x + 1
                  /\ x * I <= u /\ u < LIVENESS_TIMEOUT
                  /\ LIVENESS_TIMEOUT <= WINDOW_SIZE * I
              <8>1. x * I \in Nat /\ slot[i].hb \in Int
                BY <1>0, <1>1
              <8>2. x * I <= u
                BY <1>0, <1>1, <4>1, <6>1, <6>2, <8>1
              <8> QED BY <1>1, <1>2, <4>1, <8>2 DEF TimeoutsFit
            <7> HIDE DEF x, y, u
            <7>2. x < WINDOW_SIZE
              <8>1. ASSUME WINDOW_SIZE <= x
                    PROVE  FALSE
                <9>1. WINDOW_SIZE * I <= x * I
                  BY <1>0, <7>1, <8>1
                <9>2. x * I \in Nat /\ WINDOW_SIZE * I \in Nat
                  BY <1>0, <7>1
                <9> QED BY <1>0, <7>1, <9>1, <9>2
              <8> QED BY <1>0, <7>1, <8>1
            <7>3. y * I <= u + I
              <8>1. y * I <= (x + 1) * I /\ (x + 1) * I = x * I + I
                BY <1>0, <7>1
              <8>2. x * I \in Nat /\ y * I \in Nat
                BY <1>0, <7>1
              <8> QED BY <1>0, <7>1, <8>1, <8>2
            <7>4. y * I + 0 <= u + I /\ y <= WINDOW_SIZE
              <8>1. y * I \in Nat
                BY <1>0, <7>1
              <8> QED BY <1>0, <7>1, <7>2, <7>3, <8>1
            <7> QED BY <4>3, <6>2, <7>4 DEF x, y, u
          <6>3. CASE j # i
            BY <4>3, <6>1, <6>3
          <6> QED BY <6>2, <6>3
        <5> QED BY <1>6, <1>7, <4>2, <5>1 DEF AbandonedInv, I
      <4>7. LateInv(s, c, net)'
        <5>1. \A j \in SlotsOf(s) : slot'[j].upd = slot[j].upd
          BY <4>3
        <5> QED BY <1>6, <1>7, <3>0, <3>2, <3>3, <4>2, <5>1 DEF SessionInv, LateInv
      <4>8. NewInv(s, c, net)'
        <5>1. ASSUME Lives(c), w.write_nonce > WINDOW_SIZE + 1
              PROVE  Held(s, c, i)
          BY <1>0, <1>1, <1>2, <3>1, <5>1
        <5>2. Held(s, c, i) => InSession(c) /\ c.hb <= I
          BY <3>0 DEF SessionInv, BeatInv, Held
        <5>3. \A j \in SlotsOf(s) : Held(s, c, i) /\ Held(s, c, j) => j = i
          BY <1>6
        <5>4. ASSUME NEW n \in net', ToSource(s, n), n.nonce > WINDOW_SIZE + 1, Lives(c)
              PROVE  /\ InSession(c) /\ c.hb <= I
                     /\ \A j \in SlotsOf(s) : Held(s, c, j) => n.nonce <= Written(j)'
          <6>1. CASE n = m
            <7>1. Held(s, c, i)
              BY <3>0, <5>1, <5>4, <6>1
            <7>2. n.nonce <= Written(i)'
              BY <1>2, <3>0, <4>3, <6>1
            <7> QED BY <5>2, <5>3, <7>1, <7>2
          <6>2. CASE n \in net
            <7>1. /\ InSession(c) /\ c.hb <= I
                  /\ \A j \in SlotsOf(s) : Held(s, c, j) => n.nonce <= Written(j)
              BY <5>4, <6>2 DEF SessionInv, NewInv
            <7>2. n.nonce \in Nat
              BY <1>0, <5>4, <6>2, Numbers DEF ToSource
            <7> QED BY <4>4, <7>1, <7>2
          <6> QED BY <3>3, <6>1, <6>2
        <5> QED BY <1>6, <1>7, <3>2, <3>5, <4>2, <5>4 DEF NewInv, I
      <4>9. ReadInv(s, c)'
        <5>1. ASSUME NEW j \in SlotsOf(s), Held(s, c, j)
              PROVE  \/ ReadBy(c) <= WINDOW_SIZE + 1
                     \/ ReadBy(c) <= WINDOW_SIZE + Written(j)'
          <6>1. \/ ReadBy(c) <= WINDOW_SIZE + 1
                \/ ReadBy(c) <= WINDOW_SIZE + Written(j)
            BY <5>1 DEF SessionInv, ReadInv
          <6>2. /\ Written(j) <= Written(j)'
                /\ Written(j) \in Nat /\ Written(j)' \in Nat
            BY <4>4
          <6> QED BY <1>0, <6>1, <6>2
        <5> QED BY <1>6, <1>7, <4>2, <5>1 DEF SessionInv, ReadInv
      <4> QED BY <4>5, <4>6, <4>7, <4>8, <4>9 DEF SessionInv
    <3> QED BY <1>8, <3>6, <3>7
  <2> QED BY <2>3, <2>4
<1>9. CASE LivenessTimeout(i)
  <2> DEFINE a == audio_stream_close(slot[i])
             b == [a EXCEPT !.stream = w]
  <2>1. /\ SendStreamSignal(a, i, TERMINATE)
        /\ a.peer = slot[i].peer /\ a.stream = slot[i].stream
        /\ a.upd = slot[i].upd /\ a.st = "closed"
        /\ b.st = a.st /\ b.peer = a.peer /\ b.stream = w /\ b.upd = a.upd
        /\ b.hb = a.hb
    BY <1>0, <1>9 DEF LivenessTimeout, audio_stream_close, AudioStreams
  <2> HIDE DEF a
  <2> QED BY <1>8, <2>1
<1>10. CASE SendHeartbeat(i)
  <2> DEFINE a == [slot[i] EXCEPT !.hb = 0]
             b == [a EXCEPT !.stream = w]
  <2>1. /\ SendStreamSignal(a, i, HEARTBEAT)
        /\ a.peer = slot[i].peer /\ a.stream = slot[i].stream
        /\ a.upd = slot[i].upd /\ a.st = "open" /\ a.hb = 0
        /\ b.st = a.st /\ b.peer = a.peer /\ b.stream = w /\ b.upd = a.upd
        /\ b.hb = a.hb
    BY <1>0, <1>10 DEF SendHeartbeat, AudioStreams, Open
  <2> HIDE DEF a
  <2> QED BY <1>8, <1>10, <2>1
<1> QED BY <1>9, <1>10 DEF HandleLiveness
(* A restart leaves no slot open.                                          *)
LEMMA SessionRestart ==
  ASSUME NEW s \in Sources, SessionInv(s, src[s], net), SinkRestart, UNCHANGED src
  PROVE  SessionInv(s, src[s], net)'
<1>1. /\ SlotsOf(s)' = {} /\ net' = net /\ src'[s] = src[s]
      /\ InSession(src[s])' <=> InSession(src[s])
      /\ Lives(src[s])' <=> Lives(src[s])
  BY DEF SinkRestart, SlotsOf, Open, NullSlot, InSession, Lives
<1>2. BeatInv(s, src[s], net)' /\ AbandonedInv(s, src[s])' /\ LateInv(s, src[s], net)'
  BY <1>1 DEF BeatInv, AbandonedInv, LateInv
<1>3. NewInv(s, src[s], net)' /\ ReadInv(s, src[s])'
  BY <1>1 DEF SessionInv, NewInv, ReadInv, ToSource, ReadBy
<1> QED BY <1>2, <1>3 DEF SessionInv

(* Time ages a source with the slot it holds, and an abandoned slot as     *)
(* much since its last heartbeat as since its last renewal.                *)
LEMMA SessionTick ==
  ASSUME Inv, NothingOverdue, Scheduled, NEW s \in Sources,
         SessionInv(s, src[s], net), Tick
  PROVE  SessionInv(s, src[s], net)'
<1> DEFINE c == src[s]
<1>0. /\ net = {} /\ net' = {} /\ epoch' = epoch
      /\ \A i \in Slots : ~LivenessDue(i) /\ ~HeartbeatDue(i)
      /\ \A i \in Slots : slot'[i] = AgedSlot(slot[i])
      /\ src' = [t \in Sources |-> AgedSource(src[t])]
  BY DEF NothingOverdue, Tick, CaughtUp
<1>1. /\ I \in Nat /\ WINDOW_SIZE \in Nat
      /\ c \in SourceStates /\ c.hb \in Nat /\ ReadBy(c) \in Nat
  BY Numbers
<1>2. /\ src'[s].run = c.run /\ src'[s].st = c.st /\ src'[s].stream = c.stream
      /\ src'[s].hb \in Nat /\ src'[s].hb <= c.hb + 1
  <2>1. src'[s] = AgedSource(c)
    BY <1>0
  <2> QED BY <1>1, <2>1 DEF AgedSource, SourceStates
<1>3. ASSUME NEW i \in SlotsOf(s)
      PROVE  /\ slot[i].hb \in 0 .. I /\ slot[i].hb < I
             /\ slot'[i].hb = slot[i].hb + 1
             /\ slot[i].upd \in Nat /\ slot'[i].upd = slot[i].upd + 1
             /\ Written(i)' = Written(i) /\ Written(i) \in Nat
  <2>1. /\ i \in Slots /\ slot[i].st = "open" /\ slot[i] \in AudioStreams
        /\ slot[i].upd \in Nat /\ Written(i) \in Nat
        /\ slot[i].hb # NeverDue /\ slot[i].hb \in 0 .. I
        /\ LIVENESS_TIMEOUT \in Nat
    BY <1>3, Numbers DEF SlotsOf, Open, Scheduled
  <2>2. slot[i].hb < I /\ slot[i].upd < LIVENESS_TIMEOUT
    BY <1>0, <1>1, <2>1 DEF HeartbeatDue, LivenessDue, Open, I
  <2>3. /\ slot'[i].hb = slot[i].hb + 1 /\ slot'[i].upd = slot[i].upd + 1
        /\ slot'[i].stream = slot[i].stream
    BY <1>0, <2>1, <2>2 DEF AgedSlot, AudioStreams, I
  <2> QED BY <2>1, <2>2, <2>3 DEF Written
<1>4. SlotsOf(s)' = SlotsOf(s)
  <2>1. \A i \in Slots : slot'[i].st = slot[i].st /\ slot'[i].peer = slot[i].peer
    <3>1. \A i \in Slots : slot[i] \in AudioStreams
      BY Numbers
    <3>2. \A i \in Slots : /\ AgedSlot(slot[i]).st = slot[i].st
                           /\ AgedSlot(slot[i]).peer = slot[i].peer
      BY <3>1 DEF AgedSlot, AudioStreams
    <3> QED BY <1>0, <3>2
  <2> QED BY <2>1 DEF SlotsOf, Open
<1>5. /\ InSession(c)' <=> InSession(c)
      /\ Lives(c)' <=> Lives(c)
      /\ ReadBy(c)' = ReadBy(c)
      /\ \A i \in SlotsOf(s) : Held(s, c, i)' <=> Held(s, c, i)
  BY <1>0, <1>2 DEF InSession, Lives, Held, ReadBy
<1> HIDE DEF c
<1>6. BeatInv(s, c, net)'
  <2>1. ASSUME NEW i \in SlotsOf(s), Held(s, c, i)
        PROVE  src'[s].hb <= I /\ src'[s].hb <= slot'[i].hb
    <3>1. c.hb <= slot[i].hb
      BY <1>0, <2>1 DEF SessionInv, BeatInv, c
    <3> QED BY <1>1, <1>2, <1>3, <3>1
  <2> QED BY <1>4, <1>5, <2>1 DEF BeatInv, I, c
<1>7. AbandonedInv(s, c)'
  <2>1. ASSUME Lives(c), NEW i \in SlotsOf(s), ~Held(s, c, i)
        PROVE  /\ Written(i)' * I + slot'[i].hb <= slot'[i].upd + I
               /\ Written(i)' <= WINDOW_SIZE
    <3>1. /\ Written(i) * I + slot[i].hb <= slot[i].upd + I
          /\ Written(i) <= WINDOW_SIZE
      BY <2>1 DEF SessionInv, AbandonedInv, c
    <3>2. Written(i) * I \in Nat
      BY <1>1, <1>3
    <3> QED BY <1>1, <1>3, <3>1, <3>2
  <2> QED BY <1>4, <1>5, <2>1 DEF AbandonedInv, I
<1>8. LateInv(s, c, net)' /\ NewInv(s, c, net)'
  BY <1>0 DEF LateInv, NewInv
<1>9. ReadInv(s, c)'
  BY <1>3, <1>4, <1>5 DEF SessionInv, ReadInv, c
<1> QED BY <1>6, <1>7, <1>8, <1>9 DEF SessionInv, c

(* Slots keep the ids of their streams, and the heartbeats of used ones    *)
(* stay due.                                                               *)
LEMMA SlotsStay ==
  ASSUME Inv, TimeoutsFit, Scheduled, Numbered, [Next]_vars
  PROVE  Scheduled' /\ Numbered'
<1> DEFINE Fit(i, a) == a.stream.id = i /\ (a.st # "null" => a.hb # NeverDue)
<1>0. /\ slot \in [Slots -> AudioStreams] /\ net \subseteq Messages
      /\ \A i \in Slots : Fit(i, slot[i])
  BY Numbers DEF Inv, TypeOK, NetTypeOK, Scheduled, Numbered
<1>1. ASSUME NEW i \in Slots, NEW a, slot' = [slot EXCEPT ![i] = a], Fit(i, a)
      PROVE  Scheduled' /\ Numbered'
  BY <1>0, <1>1 DEF Scheduled, Numbered
<1>2. CASE slot' = slot
  BY <1>2 DEF Scheduled, Numbered
<1>3. ASSUME NEW m \in net, HandleHandshakeInit(m)
      PROVE  Scheduled' /\ Numbered'
  <2>1. m.from \in Sources
    BY <1>0, <1>3, MessageKinds DEF HandleHandshakeInit, InitMessages
  <2>2. ASSUME NEW i \in Slots, NEW h \in UninitHeartbeat
        PROVE  LET b == Keyed(audio_stream_create(i, h), m.from)
               IN Fit(i, b) /\ Fit(i, audio_stream_open(b, m.from))
    <3> DEFINE n == audio_stream_create(i, h)
               b == Keyed(n, m.from)
               a == audio_stream_open(b, m.from)
    <3>1. n \in AudioStreams /\ n.stream.id = i
      BY <1>0, SlotOps DEF Inv, TypeOK, audio_stream_create, AudioStreams
    <3>2. b \in AudioStreams /\ b.hb # NeverDue /\ a.hb # NeverDue
      <4>1. 0 .. I \subseteq Nat
        BY Numbers
      <4> QED BY <2>1, <4>1, CreatedSlot DEF NeverDue
    <3> HIDE DEF n
    <3>3. n.stream \in Streams(Slots, Secrets)
      BY <3>1 DEF AudioStreams
    <3>4. b.stream.id = i
      BY <3>1, <3>3 DEF Keyed, AudioStreams, Streams
    <3> HIDE DEF b
    <3>5. b.stream \in Streams(Slots, Secrets)
      BY <3>2 DEF AudioStreams
    <3>6. a.stream.id = i
      BY <3>2, <3>4, <3>5 DEF audio_stream_open, ra_stream_reset, AudioStreams, Streams
    <3> QED BY <3>2, <3>4, <3>6 DEF b, n
  <2> QED BY <1>1, <1>2, <1>3, <2>2
          DEF HandleHandshakeInit, HandshakeAccepted, HandshakeOpenFails,
              HandshakeRefused
<1>4. ASSUME NEW m \in net, HandleMessageCrypto(m)
      PROVE  Scheduled' /\ Numbered'
  <2>1. m.id \in Slots
    BY <1>0, <1>4, MessageKinds DEF HandleMessageCrypto, CryptoMessages
  <2>2. slot[m.id] \in AudioStreams /\ slot[m.id].stream \in Streams(Slots, Secrets)
    BY <1>0, <2>1 DEF AudioStreams
  <2>3. Accepts(m) => slot[m.id].hb # NeverDue /\ slot[m.id].stream.id = m.id
    BY <1>0, <2>1 DEF Accepts, Open
  <2>4. Accepts(m) => Fit(m.id, Accepted(m)) /\ Fit(m.id, audio_stream_close(Accepted(m)))
    BY <2>2, <2>3
       DEF Accepted, audio_stream_close, ra_stream_read, AudioStreams, Streams
  <2> QED BY <1>1, <1>2, <1>4, <2>1, <2>4
          DEF HandleMessageCrypto, HandleStreamData, HandleStreamTerminate,
              HandleMessageRejected
<1>5. ASSUME NEW i \in Slots, HandleLiveness(i)
      PROVE  Scheduled' /\ Numbered'
  <2>1. /\ slot[i] \in AudioStreams /\ slot[i].stream \in Streams(Slots, Secrets)
        /\ slot[i].st = "open" /\ slot[i].hb # NeverDue /\ slot[i].stream.id = i
        /\ 0 # NeverDue
    BY <1>0, <1>5
       DEF HandleLiveness, LivenessTimeout, SendHeartbeat, LivenessDue,
           HeartbeatDue, Open, AudioStreams, NeverDue
  <2> DEFINE w == ra_stream_write(slot[i].stream)
  <2>2. w.id = i
    BY <2>1 DEF ra_stream_write, Streams
  <2> HIDE DEF w
  <2>3. \A a \in {audio_stream_close(slot[i]), [slot[i] EXCEPT !.hb = 0]} :
          a.stream = slot[i].stream /\ Fit(i, [a EXCEPT !.stream = w])
    BY <2>1, <2>2 DEF audio_stream_close, AudioStreams
  <2> QED BY <1>1, <1>5, <2>3
          DEF HandleLiveness, LivenessTimeout, SendHeartbeat, SendStreamSignal, w
<1>6. CASE SinkRestart
  BY <1>6 DEF SinkRestart, NullSlot, ra_stream_create, Scheduled, Numbered
<1>7. CASE Tick
  <2>1. \A i \in Slots : AgedSlot(slot[i]).stream.id = slot[i].stream.id
    BY <1>0 DEF AgedSlot, AudioStreams
  <2>2. ASSUME NEW i \in Slots, slot[i].st # "null"
        PROVE  AgedSlot(slot[i]).hb # NeverDue
    <3>1. slot[i] \in AudioStreams /\ slot[i].hb \in 0 .. I
      BY <1>0, <2>2, Numbers
    <3> QED BY <3>1, Numbers DEF AgedSlot, AudioStreams, NeverDue
  <2>3. \A i \in Slots : AgedSlot(slot[i]).st = slot[i].st
    BY <1>0 DEF AgedSlot, AudioStreams
  <2> QED BY <1>0, <1>7, <2>1, <2>2, <2>3 DEF Tick, Scheduled, Numbered
<1> QED BY <1>2, <1>3, <1>4, <1>5, <1>6, <1>7
        DEF Next, Step, SinkReceive, BackgroundThread, SourceStep, sinkVars,
            NetworkLoses, vars

-----------------------------------------------------------------------------
(* The theorem.                                                            *)

(* At first nothing is used or in flight.                                  *)
LEMMA HeartbeatInit == Init => HeartbeatInv
<1> SUFFICES ASSUME Init PROVE HeartbeatInv
  OBVIOUS
<1>1. Scheduled /\ Numbered
  BY DEF Init, SinkInit, NullSlot, ra_stream_create, Scheduled, Numbered
<1>2. ASSUME NEW s \in Sources
      PROVE  SessionInv(s, src[s], net)
  <2>1. net = {} /\ SlotsOf(s) = {} /\ ReadBy(src[s]) = 0
    BY DEF Init, SinkInit, SourceInit, NullSlot, SlotsOf, Open, NoProcess,
           ra_stream_create, ReadBy
  <2> QED BY <2>1, StreamAssumption
          DEF SessionInv, BeatInv, AbandonedInv, LateInv, NewInv, ReadInv
<1> QED BY <1>1, <1>2 DEF HeartbeatInv

(* Every step keeps the sessions of every source.                          *)
LEMMA HeartbeatStep ==
  ASSUME NothingOverdue, TimeoutsFit, Inv, CountInv, HeartbeatInv, [Next]_vars
  PROVE  HeartbeatInv'
<1>0. Scheduled /\ Numbered
  BY DEF HeartbeatInv
<1>1. Scheduled' /\ Numbered'
  BY <1>0, SlotsStay
<1>2. ASSUME NEW s \in Sources
      PROVE  SessionInv(s, src[s], net)'
  <2>0. SessionInv(s, src[s], net) /\ HandshakeInv(s)
    BY DEF HeartbeatInv, CountInv
  <2>1. ASSUME NEW m \in net, HandleHandshakeInit(m), UNCHANGED src
        PROVE  SessionInv(s, src[s], net)'
    <3>1. CASE \A i \in Slots : HandshakeAccepted(m, i) => m.from # s
      BY <2>0, <2>1, <3>1, OtherHandshake, SessionAlone
    <3>2. ASSUME NEW i \in Slots, HandshakeAccepted(m, i), m.from = s
          PROVE  SessionInv(s, src[s], net)'
      <4>1. UNCHANGED <<epoch, src>> /\ m.type = "RA_HANDSHAKE_INIT"
        BY <2>1 DEF HandleHandshakeInit
      <4> QED BY <1>0, <2>0, <3>2, <4>1, SessionOpens
    <3> QED BY <3>1, <3>2
  <2>2. ASSUME NEW m \in net, HandleMessageCrypto(m), UNCHANGED src
        PROVE  SessionInv(s, src[s], net)'
    BY <2>0, <2>2, SessionMessage
  <2>3. CASE BackgroundThread
    BY <1>0, <2>0, <2>3, SessionLiveness DEF BackgroundThread
  <2>4. CASE SinkRestart /\ UNCHANGED src
    BY <2>0, <2>4, SessionRestart
  <2>5. ASSUME NEW t \in Sources, SourceStep(t)
        PROVE  SessionInv(s, src[s], net)'
    BY <1>0, <2>0, <2>5, SessionSource, OtherSource, SessionAlone
  <2>6. CASE NetworkLoses \/ UNCHANGED vars
    <3>1. /\ net' \subseteq net /\ slot' = slot /\ epoch' = epoch /\ src' = src
          /\ Lives(src[s]) => \A m \in net : ToSource(s, m) => m \in net'
      BY <2>6 DEF NetworkLoses, Lose, vars, Undeliverable, Alive, Lives, ToSource,
                  NothingOverdue
    <3>2. SlotsOf(s)' = SlotsOf(s)
      BY <3>1 DEF SlotsOf, Open
    <3> QED BY <2>0, <3>1, <3>2, SessionFrame
  <2>7. CASE Tick
    BY <1>0, <2>0, <2>7, SessionTick
  <2> QED BY <2>1, <2>2, <2>3, <2>4, <2>5, <2>6, <2>7 DEF Next, Step, SinkReceive
<1> QED BY <1>1, <1>2 DEF HeartbeatInv

(* The slot of a session that the sink keeps is its source's.              *)
LEMMA OpenSessionHeld ==
  ASSUME Inv, NEW s \in Sources, Established(s), SessionOpen(s)
  PROVE  /\ src[s].stream.id \in SlotsOf(s)
         /\ Held(s, src[s], src[s].stream.id)
<1> DEFINE i == src[s].stream.id
           t == slot[i].peer
<1>1. /\ i \in Slots /\ Open(i) /\ slot[i].stream.secret = src[s].stream.secret
      /\ t \in Sources /\ slot[i].stream.secret = SecretOf(t, epoch)
      /\ epoch \in Epochs
  <2>1. src[s].stream \in Streams(Slots, Secrets)
    BY DEF Inv, TypeOK, SourceTypeOK, SourceStates
  <2>2. i \in Slots
    BY <2>1 DEF Streams
  <2> QED BY <2>2 DEF SessionOpen, Inv, Authentic, SlotKeyed, TypeOK, SinkTypeOK
<1> HIDE DEF i, t
<1>2. PICK e \in Epochs : src[s].stream.secret = SecretOf(s, e)
  <2>1. src[s].stream.secret # NoSecret
    BY <1>1, SecretFacts
  <2> QED BY <2>1 DEF Inv, Authentic, SourceKeyed
<1>3. t = s /\ e = epoch
  <2>1. SecretOf(t, epoch) = SecretOf(s, e)
    BY <1>1, <1>2
  <2> QED BY <1>1, <2>1, SecretFacts
<1>4. Held(s, src[s], i) /\ i \in SlotsOf(s)
  BY <1>1, <1>2, <1>3
     DEF Held, InSession, Lives, Established, Alive, SlotsOf, i, t
<1> QED BY <1>4 DEF i

(* No step takes a source out of a session that the sink keeps.            *)
LEMMA SessionKept ==
  ASSUME Inv, NothingOverdue, TimeoutsFit, HeartbeatInv, [Next]_vars,
         NEW s \in Sources, Established(s), SessionOpen(s)
  PROVE  src'[s].st # 1
<1> DEFINE i == src[s].stream.id
<1>0. /\ i \in SlotsOf(s) /\ i \in Slots /\ Held(s, src[s], i)
      /\ src \in [Sources -> SourceStates] /\ src[s] \in SourceStates
      /\ src[s].st = 2 /\ Alive(s) /\ Lives(src[s])
      /\ Scheduled /\ SessionInv(s, src[s], net)
  BY OpenSessionHeld
     DEF Established, Inv, TypeOK, SourceTypeOK, HeartbeatInv, SlotsOf, Lives, Alive
<1> HIDE DEF i
<1>1. ASSUME UNCHANGED sinkVars, NEW c \in SourceStates, c.st = 2, Lives(c),
             NEW N \in SUBSET net, SessionInv(s, c, N), Held(s, c, i),
             CheckTimeout(s, c, N)
      PROVE  src'[s].st # 1
  <2>1. ~TimedOut(c)
    BY <1>0, <1>1, Checked
  <2>2. src'[s] = Continue(c)
    BY <1>0, <1>1, <2>1 DEF CheckTimeout
  <2> QED BY <1>1, <2>2 DEF Continue, Exited, NoProcess
<1>2. CASE src' = src
  BY <1>0, <1>2
<1>3. CASE Tick
  BY <1>0, <1>3 DEF Tick, AgedSource, SourceStates
<1>4. ASSUME NEW t \in Sources, SourceStep(t), t # s
      PROVE  src'[s].st # 1
  <2>1. src'[s] = src[s]
    BY <1>4, OtherSource DEF LeavesAlone
  <2> QED BY <1>0, <2>1
<1>5. CASE SourceStep(s)
  <2>0. UNCHANGED sinkVars
    BY <1>5 DEF SourceStep
  <2>1. ASSUME NEW m \in net, SourceReceive(s, m)
        PROVE  src'[s].st # 1
    <3> DEFINE c == handle_message(src[s], s, m)
    <3>1. m.dst = s /\ CheckTimeout(s, c, net \ {m})
      BY <2>1, ReceivedOnce DEF SourceReceive
    <3>2. c \in SourceStates
      BY <3>1, HandledMessage
    <3>3. c.st = 2
      BY <1>0 DEF handle_message, handle_handshake_response, handle_message_crypto,
                  SourceStates
    <3> HIDE DEF c
    <3>4. SessionInv(s, c, net \ {m}) /\ Lives(c) /\ Held(s, c, i)
      BY <1>0, <3>1, Handled DEF c
    <3> QED BY <1>1, <2>0, <3>1, <3>2, <3>3, <3>4
  <2>2. CASE SourceIdle(s)
    BY <1>0, <1>1, <2>0, <2>2 DEF SourceIdle
  <2>3. CASE \/ SourceStart(s) \/ SourceLeaveLoop(s) \/ AudioCallback(s)
             \/ SignalHandler(s) \/ SourceStop(s) \/ SourceFails(s)
    BY <1>0, <2>3
       DEF SourceStart, SourceLeaveLoop, AudioCallback, SignalHandler, SourceStop,
           SourceFails, Exited, NoProcess, Alive, SourceStates
  <2> QED BY <1>5, <2>1, <2>2, <2>3 DEF SourceStep
<1> QED BY <1>2, <1>3, <1>4, <1>5
        DEF Next, Step, SinkReceive, BackgroundThread, NetworkLoses, vars

(* A source that streams gives up its session only when the sink closed    *)
(* it: heartbeats come often enough, and neither a heartbeat nor the       *)
(* TERMINATE of a slot it abandoned makes the next one unreadable, if what *)
(* is sent on a stream arrives once and before time passes, and the window *)
(* holds the heartbeats of a liveness timeout (handle_liveness,            *)
(* ra_stream_read, the timeout check of source_main).                      *)
THEOREM NoSpuriousTimeoutCorrect ==
  ASSUME NothingOverdue, TimeoutsFit
  PROVE  Spec => NoSpuriousTimeout
<1>1. Inv /\ CountInv /\ [Next]_vars => CountInv'
  BY CountStep DEF NothingOverdue
<1>2. Inv /\ CountInv /\ HeartbeatInv /\ [Next]_vars => HeartbeatInv'
  BY HeartbeatStep
<1>3. Inv /\ HeartbeatInv /\ [Next]_vars =>
        [\A s \in Sources : Established(s) /\ src'[s].st = 1 => ~SessionOpen(s)]_vars
  BY SessionKept
<1> QED BY <1>1, <1>2, <1>3, CountInit, HeartbeatInit, Invariance, PTL
        DEF Spec, NoSpuriousTimeout
=============================================================================
