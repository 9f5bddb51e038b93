----------------------------- MODULE RemoteAudio -----------------------------
(***************************************************************************)
(* The sources, the sink and the network between them: the handshake, the  *)
(* encrypted session with its data and heartbeats, the two timeouts, and   *)
(* stops, crashes and restarts on both sides.                              *)
(***************************************************************************)
EXTENDS Sink, Source

CONSTANTS Lossy,     \* the types of datagrams that the network may lose
          Timely     \* whether time waits until all work that is due is done

MessageTypes == {"RA_HANDSHAKE_INIT", "RA_HANDSHAKE_RESPONSE", "RA_MESSAGE_CRYPTO"}

ASSUME ModeAssumption == Lossy \subseteq MessageTypes /\ Timely \in BOOLEAN

vars == <<net, slot, epoch, src>>

Init == /\ net = {}
        /\ SinkInit
        /\ SourceInit

(* No datagram is in flight and neither thread of the sink nor a source's  *)
(* loop has anything to do: what a network much faster than a tick, and    *)
(* processes that are scheduled in time, reach before each tick.           *)
CaughtUp == /\ net = {}
            /\ \A i \in Slots : ~LivenessDue(i) /\ ~HeartbeatDue(i)
            /\ \A s \in Sources : Alive(s) => ~TimedOut(src[s])

Tick ==
  /\ Timely => CaughtUp
  /\ slot' = [i \in Slots |-> AgedSlot(slot[i])]
  /\ src' = [s \in Sources |-> AgedSource(src[s])]
  /\ UNCHANGED <<net, epoch>>

SinkReceive(m) == (HandleHandshakeInit(m) \/ HandleMessageCrypto(m)) /\ UNCHANGED src

BackgroundThread == \E i \in Slots : HandleLiveness(i) /\ UNCHANGED src

(* The process is gone and nothing is bound to the port.                   *)
Undeliverable(m) == m.dst \in Sources /\ ~Alive(m.dst)

NetworkLoses == \E m \in net : /\ m.type \in Lossy \/ Undeliverable(m)
                               /\ Lose(m)
                               /\ UNCHANGED <<slot, epoch, src>>

SourceStep(s) ==
  /\ \/ SourceStart(s)
     \/ \E m \in net : SourceReceive(s, m)
     \/ SourceIdle(s)
     \/ SourceLeaveLoop(s)
     \/ AudioCallback(s)
     \/ SignalHandler(s)
     \/ SourceStop(s)
     \/ SourceFails(s)
  /\ UNCHANGED sinkVars

Step == \/ \E m \in net : SinkReceive(m)
        \/ BackgroundThread
        \/ SinkRestart /\ UNCHANGED src
        \/ \E s \in Sources : SourceStep(s)
        \/ NetworkLoses

Next == Step \/ Tick

Spec == Init /\ [][Next]_vars

-----------------------------------------------------------------------------
(* Fairness.  Time passes; the background thread runs its pass every       *)
(* second and the source's loop wakes up every second (select_timeout);    *)
(* and a network that is not dead carries, of the handshakes sent again    *)
(* and again, one through.  Nothing is assumed of the audio, of signals or *)
(* of single datagrams.                                                    *)
TickFairness == WF_vars(Tick)

SinkFairness == \A i \in Slots : WF_vars(HandleLiveness(i) /\ UNCHANGED src)

SourceFairness == \A s \in Sources : WF_vars(SourceIdle(s) /\ UNCHANGED sinkVars)

InitGetsThrough(s) ==
  \E m \in net : /\ m.type = "RA_HANDSHAKE_INIT"
                 /\ m.from = s
                 /\ \E i \in Slots : HandshakeAccepted(m, i)
                 /\ UNCHANGED <<epoch, src>>

ResponseGetsThrough(s) ==
  \E m \in net : /\ m.type = "RA_HANDSHAKE_RESPONSE"
                 /\ SourceReceive(s, m)
                 /\ UNCHANGED sinkVars

NetworkFairness == /\ \A s \in Sources : /\ SF_vars(InitGetsThrough(s))
                                         /\ SF_vars(ResponseGetsThrough(s))
                   /\ WF_vars(NetworkLoses)

FairSpec == Spec /\ TickFairness /\ SinkFairness /\ SourceFairness /\ NetworkFairness

-----------------------------------------------------------------------------
TypeOK == NetTypeOK /\ SinkTypeOK /\ SourceTypeOK

(* Who may know what.  A source was started if anything names it; an open  *)
(* slot is keyed with its peer and this run of the sink; and whatever is   *)
(* encrypted for the sink under a source's key was sent by that source, a  *)
(* TERMINATE only after it began to stop.                                  *)
Started(s) == src[s].run # "off"
Leaving(s) == src[s].run \in {"stopping", "exited"}

InitAuthentic ==
  \A m \in net : m.type = "RA_HANDSHAKE_INIT" => Started(m.from)

ResponseAuthentic ==
  \A m \in net : m.type = "RA_HANDSHAKE_RESPONSE" => m.key <= epoch

SlotKeyed ==
  \A i \in Slots : Open(i) =>
    /\ slot[i].peer \in Sources
    /\ Started(slot[i].peer)
    /\ slot[i].stream.secret = SecretOf(slot[i].peer, epoch)

SourceKeyed ==
  \A s \in Sources : src[s].stream.secret # NoSecret =>
    \E e \in Epochs : e <= epoch /\ src[s].stream.secret = SecretOf(s, e)

DataAuthentic ==
  \A m \in net : m.type = "RA_MESSAGE_CRYPTO" /\ m.dst = SinkAddr =>
    \A s \in Sources, e \in Epochs : m.secret = SecretOf(s, e) =>
      /\ Started(s)
      /\ m.body = TERMINATE => Leaving(s)

(* Each datagram in flight and each key in use belongs to the process it   *)
(* claims to come from, across slot reuse, late datagrams and restarts of  *)
(* the sink (send_*, handle_handshake_init, handle_handshake_response).    *)
Authentic == /\ InitAuthentic
             /\ ResponseAuthentic
             /\ SlotKeyed
             /\ SourceKeyed
             /\ DataAuthentic

-----------------------------------------------------------------------------
(* The slot table implements the leases of SlotLease: no late, lost or     *)
(* duplicated datagram, and nothing another source does, takes a slot from *)
(* the source that holds it (handle_handshake_init, handle_message_crypto, *)
(* handle_liveness).                                                       *)
leasePhase == [s \in Sources |-> CASE src[s].run = "off" -> "new"
                                  [] src[s].run = "running" -> "live"
                                  [] OTHER -> "left"]
leaseOwner == [i \in Slots |-> IF Open(i) THEN slot[i].peer ELSE NoPeer]
leaseIdle == [i \in Slots |-> IF Open(i) THEN slot[i].upd ELSE 0]

Lease == INSTANCE SlotLease WITH
           Owners <- Sources, Places <- Slots, Term <- LIVENESS_TIMEOUT,
           None <- NoPeer,
           phase <- leasePhase, owner <- leaseOwner, idle <- leaseIdle,
           reign <- epoch

LeaseSpec == Lease!Spec

(* An established session is given up only through the heartbeat timeout:  *)
(* a late or duplicated RESPONSE never moves a source that streams to      *)
(* another slot or key (the state > 1 test of handle_handshake_response).  *)
SessionPinned ==
  [][\A s \in Sources : Established(s) /\ Established(s)' =>
       /\ src'[s].stream.id = src[s].stream.id
       /\ src'[s].stream.secret = src[s].stream.secret]_vars

(* The sink still keeps the slot of the session that s is in.              *)
SessionOpen(s) ==
  /\ Open(src[s].stream.id)
  /\ slot[src[s].stream.id].stream.secret = src[s].stream.secret

(* Over a timely network a source gives up its session only when the sink  *)
(* has already closed it: the heartbeats come often enough and are read    *)
(* (handle_liveness against the timeout check of source_main).             *)
NoSpuriousTimeout ==
  [][\A s \in Sources : Established(s) /\ src'[s].st = 1 => ~SessionOpen(s)]_vars

(* However many handshakes a source is driven to by lost datagrams, the    *)
(* liveness timeout keeps it from holding more than this many slots.       *)
SlotsOf(s) == {i \in Slots : Open(i) /\ slot[i].peer = s}

SlotsBounded ==
  \A s \in Sources :
    Cardinality(SlotsOf(s)) <= (LIVENESS_TIMEOUT \div HEARTBEAT_TIMEOUT) + 2

(* The slots of a source that is gone are freed for good, even when its    *)
(* TERMINATE was lost and its last datagrams arrive late (handle_liveness).*)
SlotsFreed ==
  \A s \in Sources : <>[](src[s].run = "exited" => SlotsOf(s) = {})

(* A running source whose handshake was sent is eventually streaming: lost *)
(* handshakes are sent again, and its own abandoned slots do not keep it   *)
(* out (the timeout check of source_main, handle_liveness).                *)
HandshakeCompletes ==
  \A s \in Sources : src[s].run = "running" ~> Established(s) \/ Leaving(s)
=============================================================================
